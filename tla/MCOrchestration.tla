--------------------------- MODULE MCOrchestration ---------------------------
(* Model-checking instances of Orchestration. *)
EXTENDS Orchestration, TLC

Edge(a, b, l, v) == [from |-> a, to |-> b, loop |-> l, statuses |-> {}, verdicts |-> v]

\* Work that leads to a gate and to a step that must not be repeated (join 'any');
\* the gate may pass the work on to it, or send the work back while that step runs.
GateSteps == {"work", "gate", "deploy"}
GateOrder == <<"work", "gate", "deploy">>
GateEdges == {Edge("work", "gate", FALSE, {}), Edge("work", "deploy", FALSE, {}),
              Edge("gate", "deploy", FALSE, {"pass"}), Edge("gate", "work", TRUE, {"fail"})}
GateAssignee == [s \in GateSteps |-> IF s = "gate" THEN "nobody" ELSE "w1"]

\* A router that picks one of two branches, and a check that may send it back.
RouterSteps == {"route", "left", "right", "check"}
RouterOrder == <<"route", "left", "right", "check">>
RouterEdges == {Edge("route", "left", FALSE, {"fail"}), Edge("route", "right", FALSE, {"pass"}),
                Edge("left", "check", FALSE, {}), Edge("right", "check", FALSE, {}),
                Edge("check", "route", TRUE, {"fail"})}
RouterAssignee == [s \in RouterSteps |-> "w1"]
=============================================================================

---------------------------- MODULE MissionGraph ----------------------------
(***************************************************************************)
(* The plan of an orchestration mission as a graph, and how the states of  *)
(* its steps decide which steps may run (orchestration-graph.ts).  In a    *)
(* plan without a graph, whose steps only name the steps they depend on,   *)
(* no edge has a condition and none is a loop.                             *)
(***************************************************************************)
EXTENDS Integers, FiniteSets

CONSTANTS Steps,     \* the nodes of the graph
          Edges,     \* its edges, see EdgeType
          AnyJoin,   \* nodes with join = 'any'
          Verdicts   \* verdicts that reports and users give

NoVerdict == "none"

InFlightStatuses == {"dispatched", "running"}
SatisfyingStatuses == {"done", "skipped"}
TerminalStatuses ==
  SatisfyingStatuses \cup {"failed", "blocked", "cancelled", "needs_recovery"}

\* An edge: `when` is a set of statuses and a set of verdicts, empty if absent.  Any
\* other status a plan may write into `when` is one no ended step has.
EdgeType == [from: Steps, to: Steps, loop: BOOLEAN,
             statuses: SUBSET TerminalStatuses, verdicts: SUBSET Verdicts]

ASSUME GraphAssumption ==
  /\ IsFiniteSet(Steps) /\ AnyJoin \subseteq Steps
  /\ Edges \subseteq EdgeType /\ NoVerdict \notin Verdicts

InFlight(st) == {s \in Steps : st[s].status \in InFlightStatuses}
AwaitingUser(st) == {s \in Steps : st[s].status = "awaiting_user"}
Unfinished(st) == {s \in Steps : st[s].status \notin TerminalStatuses \cup {"none"}}

\* The condition of an edge whose source has ended: without a status list the
\* source must have succeeded, and a verdict list needs a verdict in it.
Holds(e, source) ==
  /\ IF e.statuses = {} THEN source.status \in SatisfyingStatuses
                        ELSE source.status \in e.statuses
  /\ e.verdicts = {} \/ source.verdict \in e.verdicts

\* evaluateEdge
EdgeState(e, st) ==
  IF st[e.from].status \notin TerminalStatuses THEN "pending"
  ELSE IF Holds(e, st[e.from]) THEN "satisfied" ELSE "dead"

\* A loop_back edge is not a dependency.
Incoming(s) == {e \in Edges : e.to = s /\ ~e.loop}

\* In the plan and neither ended, nor in flight, nor waiting for a user.
Open(s, st) ==
  st[s].status \notin TerminalStatuses \cup InFlightStatuses \cup {"awaiting_user", "none"}

\* computeGraphProgress: the steps that can be sent now ...
Dispatchable(st) ==
  {s \in Steps :
     /\ Open(s, st)
     /\ IF s \in AnyJoin
          THEN Incoming(s) = {} \/ \E e \in Incoming(s) : EdgeState(e, st) = "satisfied"
          ELSE \A e \in Incoming(s) : EdgeState(e, st) = "satisfied"}

\* ... and those that never can be.
NewlyBlocked(st) ==
  {s \in Steps :
     /\ Open(s, st)
     /\ IF s \in AnyJoin
          THEN Incoming(s) # {} /\ \A e \in Incoming(s) : EdgeState(e, st) = "dead"
          ELSE \E e \in Incoming(s) : EdgeState(e, st) = "dead"}

\* reachableVia: a step and what forward edges lead to from it.
Closed(S) == \A e \in Edges : ~e.loop /\ e.from \in S => e.to \in S
Reachable(s) == {t \in Steps : \A S \in SUBSET Steps : s \in S /\ Closed(S) => t \in S}

\* loopBodyNodes: what lies between the ends of a loop_back edge.
LoopBody(loop) == {s \in Reachable(loop.to) : loop.from \in Reachable(s)}

\* firedLoopBacks: the loops a step that just ended sends back.
FiredLoopBacks(s, st) ==
  {e \in Edges : e.loop /\ e.from = s /\ EdgeState(e, st) = "satisfied"}
=============================================================================

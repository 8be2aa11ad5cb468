--------------------------- MODULE Orchestration ----------------------------
(***************************************************************************)
(* One orchestration mission: the runner that plans, dispatches and        *)
(* collects its steps, the workers that report, the orchestrator agent and *)
(* the operator that steer it, the user that answers its gates, and the    *)
(* reaper that looks after silence.                                        *)
(*                                                                         *)
(* Operations on a mission run one at a time (withMissionLock), but each   *)
(* consists of several saves, and the server may stop between any two of   *)
(* them.  `job` is the rest of the operation that holds the lock; an       *)
(* action that moves it on is one save of it.  The sweep of the reaper     *)
(* reads without the lock.                                                 *)
(*                                                                         *)
(* The mission has a graph_spec: without one the server neither counts     *)
(* total_visits nor asks a report for its visit.                           *)
(***************************************************************************)
EXTENDS MissionGraph, Sequences

CONSTANTS Order,        \* the steps by position
          Gates,        \* nodes of kind 'confirm', answered by a user
          Manual,       \* steps with retry_policy 'manual'
          Workers,      \* roster slots, each with max_concurrent 1
          Assignee,     \* the plan's assignment, NoWorker for none
          NoWorker,
          MaxParallel,  \* max_parallel_steps
          Budget,       \* graph_spec.max_total_visits
          MaxAttempts,  \* max_attempts of a step
          MaxVisits,    \* max_visits of a node
          MaxPlans,     \* max_plan_versions
          NudgeLimit,   \* PLANNING_NUDGE_LIMIT, RUNNING_STALL_NUDGE_LIMIT
          MaxEdits,     \* bound: calls of the orchestrator and reopens
          MaxCrashes    \* bound: restarts of the server

ASSUME OrchestrationAssumption ==
  /\ Gates \cup Manual \subseteq Steps /\ NoWorker \notin Workers
  /\ Assignee \in [Steps -> Workers \cup {NoWorker}]
  /\ Order \in Seq(Steps) /\ {Order[i] : i \in DOMAIN Order} = Steps
  /\ {MaxParallel, Budget, MaxAttempts, MaxVisits, MaxPlans} \subseteq Nat \ {0}
  /\ {NudgeLimit, MaxEdits, MaxCrashes} \subseteq Nat
  /\ \A e, f \in Edges : e.loop /\ f.loop /\ e.from = f.from => e = f

VARIABLES mission,   \* mission.status
          room,      \* mission.room_id: "none" until the orchestrator is briefed
          plan,      \* mission.plan_version
          total,     \* mission.total_visits
          step,      \* the rows of the steps
          worker,    \* assignee_slot of each step
          orders,    \* work orders posted to the rooms of workers
          nudges,    \* re-briefings by the reaper on the timeline, by reason
          sweep,     \* the status of the mission a sweep has decided to fail
          job,       \* what remains of the operation that holds the lock
          issued,    \* history: lease tokens issued for each step
          result,    \* history: the order whose report ended the step
          leave,     \* history: why the next attempt of a step may start
          edits, crashes

rows == <<mission, room, plan, total, step, worker>>
history == <<issued, result, leave>>
vars == <<rows, orders, nudges, sweep, job, history, edits, crashes>>

TerminalMission == {"completed", "failed", "cancelled"}
StepRow == [status: TerminalStatuses \cup InFlightStatuses
                      \cup {"none", "pending", "ready", "awaiting_user"},
            attempt: Nat, token: Nat, visit: Nat, verdict: Verdicts \cup {NoVerdict},
            auto: BOOLEAN,      \* auto_blocked
            lease: {"fresh", "silent", "noticed", "overdue"}]
NoStep == "no step"
NoOrder == [token |-> 0, visit |-> 0]
EmptyToken == 0

\* A step before its first plan: there is no row yet.
Absent == [status |-> "none", attempt |-> 0, token |-> EmptyToken, visit |-> 0,
           verdict |-> NoVerdict, auto |-> FALSE, lease |-> "fresh"]

Job(pc, s, queue) == [pc |-> pc, step |-> s, queue |-> queue, recover |-> FALSE, end |-> "none"]
Idle == Job("idle", NoStep, {})

Init ==
  /\ mission = "draft" /\ room = "none" /\ plan = 0 /\ total = 0
  /\ step = [s \in Steps |-> Absent] /\ worker = Assignee
  /\ orders = {} /\ nudges = [r \in {"planning", "running"} |-> 0]
  /\ sweep = "none" /\ job = Idle
  /\ issued = [s \in Steps |-> 0] /\ result = [s \in Steps |-> NoOrder]
  /\ leave = [s \in Steps |-> "given"]
  /\ edits = 0 /\ crashes = 0

-----------------------------------------------------------------------------
(* Jobs.  Every operation starts when the lock is free.                    *)

LockFree == job = Idle
Goto(pc) == job' = [job EXCEPT !.pc = pc]

\* Ends a step without a report, or takes it back to pending.
Set(st, s, status) == [st EXCEPT ![s].status = status, ![s].lease = "fresh"]
SetAll(st, S, status) == [s \in Steps |-> IF s \in S THEN Set(st, s, status)[s] ELSE st[s]]

\* applyGraphTransitions: a fired loop_back resets its body for another pass,
\* unless its target has had its visits.  Tokens and auto_blocked are kept.
\* Seeded fault: the cap is compared with the visit before the next one.
ReenteredLate(s) ==
  UNION {LoopBody(e) : e \in {f \in FiredLoopBacks(s, step) : step[f.to].visit <= MaxVisits}}
Reentered(s) ==
  UNION {LoopBody(e) : e \in {f \in FiredLoopBacks(s, step) : step[f.to].visit + 1 <= MaxVisits}}

Transit ==
  /\ job.pc = "transit"
  /\ LET body == Reentered(job.step)
     IN /\ step' = [s \in Steps |->
                      IF s \in body
                        THEN [step[s] EXCEPT !.status = "pending", !.visit = @ + 1, !.attempt = 0,
                                             !.verdict = NoVerdict, !.lease = "fresh"]
                        ELSE step[s]]
        /\ leave' = [s \in Steps |-> IF s \in body THEN "given" ELSE leave[s]]
        /\ result' = [s \in Steps |-> IF s \in body THEN NoOrder ELSE result[s]]
  /\ job' = Job("block", NoStep, {})
  /\ UNCHANGED <<mission, room, plan, total, worker, orders, nudges, sweep, issued, edits, crashes>>

\* unblockAutoBlockedDependents: the auto-blocked steps that would not be blocked
\* again if all of them were pending.
AutoBlocked == {s \in Steps : step[s].status = "blocked" /\ step[s].auto}
Restorable == AutoBlocked \ NewlyBlocked(SetAll(step, AutoBlocked, "pending"))

Unblock ==
  /\ job.pc = "unblock"
  /\ step' = [s \in Steps |-> IF s \in Restorable
                                THEN [step[s] EXCEPT !.status = "pending", !.auto = FALSE]
                                ELSE step[s]]
  /\ leave' = [s \in Steps |-> IF s \in Restorable /\ leave[s] = "used" THEN "released" ELSE leave[s]]
  /\ Goto(IF job.recover THEN "next" ELSE "block")
  /\ UNCHANGED <<mission, room, plan, total, worker, orders, nudges, sweep, issued, result, edits, crashes>>

\* propagateBlocking: one pass over the rows, so a chain is blocked link by link.
Block ==
  /\ job.pc = "block"
  /\ step' = [s \in Steps |-> IF s \in NewlyBlocked(step)
                                THEN [step[s] EXCEPT !.status = "blocked", !.auto = TRUE]
                                ELSE step[s]]
  /\ Goto("pump")
  /\ UNCHANGED <<mission, room, plan, total, worker, orders, nudges, sweep, history, edits, crashes>>

-----------------------------------------------------------------------------
(* pump and dispatchStep.                                                  *)

\* The candidates are taken gates first, each part by position.
Position(s) == CHOOSE i \in DOMAIN Order : Order[i] = s
Before(s, t) ==
  \/ s \in Gates /\ t \notin Gates
  \/ (s \in Gates <=> t \in Gates) /\ Position(s) < Position(t)
IsNext(s) == job.pc = "next" /\ s \in job.queue /\ \A t \in job.queue : ~Before(t, s)

Pump ==
  /\ job.pc = "pump"
  /\ job' = IF mission = "running" /\ Dispatchable(step) # {}
              THEN Job("next", NoStep, Dispatchable(step)) ELSE Idle
  /\ UNCHANGED <<rows, orders, nudges, sweep, history, edits, crashes>>

\* The rest of the candidates when s has been seen to.
After(s) == LET rest == job.queue \ {s} IN IF rest = {} THEN Idle ELSE Job("next", NoStep, rest)

\* Counted over the rows: within the lock they are the snapshot of the pump with
\* what it has sent since.
\* Seeded faults: the budget, or the load of a slot, is read once, before the
\* first send.
HadBudget == TRUE
WasFree(w) == TRUE
HasSlot == Cardinality(InFlight(step)) < MaxParallel
HasBudget == total < Budget
WorkerFree(w) == \A s \in InFlight(step) : worker[s] # w

\* The step runs as a new attempt under a new token; saved before it is posted.
\* Seeded fault: an attempt after the first one keeps the token.
OldToken(s) == IF step[s].token = EmptyToken THEN issued[s] + 1 ELSE step[s].token
NewToken(s) == issued[s] + 1
Stamp(s) ==
  /\ step' = [step EXCEPT ![s] =
                [step[s] EXCEPT !.status = "dispatched", !.attempt = @ + 1, !.token = NewToken(s),
                                !.visit = IF @ = 0 THEN 1 ELSE @, !.lease = "fresh"]]
  /\ issued' = [issued EXCEPT ![s] = @ + 1]
  /\ result' = [result EXCEPT ![s] = NoOrder]
  /\ leave' = [leave EXCEPT ![s] = "used"]

\* openConfirmGate: no slot and no worker, but one visit of the budget.
OpenGate(s) ==
  /\ step' = [step EXCEPT ![s] =
                [step[s] EXCEPT !.status = "awaiting_user", !.verdict = NoVerdict,
                                !.visit = IF @ = 0 THEN 1 ELSE @]]
  /\ UNCHANGED history

\* finalizeUnrecoverableStep: the lease is withdrawn, then the usual tail.
GivenUpStatus(s) == IF s \in Manual THEN "needs_recovery" ELSE "failed"
Finalize(s) ==
  /\ step' = [Set(step, s, GivenUpStatus(s)) EXCEPT ![s].token = EmptyToken]
  /\ job' = Job("block", NoStep, {})

\* dispatchStep throws: the pump marks the step as failed and goes on, the
\* recovery of a lease gives the step up.
DispatchFails(s) ==
  IF job.recover THEN Finalize(s) ELSE step' = Set(step, s, "failed") /\ job' = After(s)

\* The operation goes on with the visit of s.
GotoCount(s) == job' = [job EXCEPT !.pc = "count", !.step = s, !.queue = @ \ {s}]

SendGate(s) ==
  /\ IsNext(s) /\ s \in Gates
  /\ IF HasBudget THEN OpenGate(s) /\ GotoCount(s)
                  ELSE job' = After(s) /\ UNCHANGED <<step, history>>
  /\ UNCHANGED <<mission, room, plan, total, worker, orders, nudges, sweep, edits, crashes>>

\* A recovery sends its step whatever the slots and the budget are.
Withheld == ~job.recover /\ (~HasSlot \/ ~HasBudget)

Stop(s) ==
  /\ IsNext(s) /\ s \notin Gates /\ Withheld
  /\ job' = Idle
  /\ UNCHANGED <<rows, orders, nudges, sweep, history, edits, crashes>>

NoOneToSend(s) == ~job.recover /\ (worker[s] = NoWorker \/ ~WorkerFree(worker[s]))

HoldReady(s) ==
  /\ IsNext(s) /\ s \notin Gates /\ ~Withheld /\ NoOneToSend(s)
  /\ step' = Set(step, s, "ready") /\ job' = After(s)
  /\ UNCHANGED <<mission, room, plan, total, worker, orders, nudges, sweep, history, edits, crashes>>

SendStep(s) ==
  /\ IsNext(s) /\ s \notin Gates /\ ~Withheld /\ ~NoOneToSend(s)
  /\ \/ Stamp(s) /\ GotoCount(s)
     \/ DispatchFails(s) /\ UNCHANGED history
  /\ UNCHANGED <<mission, room, plan, total, worker, orders, nudges, sweep, edits, crashes>>

\* total_visits is saved before the work order is posted.
\* Seeded fault: the count is left to whoever saves the mission next.
CountLater == total' = total
CountVisit == total' = total + 1
Count ==
  /\ job.pc = "count"
  /\ CountVisit
  /\ IF job.step \in Gates THEN job' = After(job.step) ELSE Goto("post")
  /\ UNCHANGED <<mission, room, plan, step, worker, orders, nudges, sweep, history, edits, crashes>>

Post ==
  /\ job.pc = "post"
  /\ LET s == job.step
     IN \/ /\ orders' = orders \cup {[step |-> s, token |-> step[s].token,
                                      visit |-> step[s].visit, attempt |-> issued[s]]}
           /\ job' = After(s) /\ UNCHANGED step
        \/ DispatchFails(s) /\ UNCHANGED orders
  /\ UNCHANGED <<mission, room, plan, total, worker, nudges, sweep, history, edits, crashes>>

RunnerStep ==
  \/ Transit \/ Unblock \/ Block \/ Pump \/ Count \/ Post
  \/ \E s \in Steps : SendGate(s) \/ Stop(s) \/ HoldReady(s) \/ SendStep(s)

-----------------------------------------------------------------------------
(* Members and users.                                                      *)

\* reportStep and submitConfirmDecision end a step and run the same tail.
Record(s, status, verdict, by) ==
  /\ step' = [Set(step, s, status) EXCEPT ![s].verdict = verdict]
  /\ result' = [result EXCEPT ![s] = by]
  /\ job' = Job("transit", s, {})
  /\ UNCHANGED <<mission, room, plan, total, worker, orders, nudges, sweep, issued, leave, crashes>>

\* requireFreshLease: a step without a token takes any report.
FreshLease(s, token) == step[s].token \in {EmptyToken, token}

\* The verdicts a report may bring: those no edge asks for are like none.
AskedFor(s) == {NoVerdict} \cup UNION {e.verdicts : e \in {f \in Edges : f.from = s}}

\* The visit on the report must be the step's.
\* Seeded fault: a report is taken for whatever pass the step is in.
AnyVisit(s, visit) == TRUE
SameVisit(s, visit) == step[s].visit = visit

\* A worker reports on a work order: early or late, once or again.
Report(o, status, verdict) ==
  /\ LockFree /\ mission \notin TerminalMission
  /\ o.step \in Unfinished(step)
  /\ FreshLease(o.step, o.token) /\ SameVisit(o.step, o.visit)
  /\ Record(o.step, status, verdict, [token |-> o.attempt, visit |-> o.visit])
  /\ UNCHANGED edits

\* requireStepActor: the orchestrator may report on a step as well; it presents
\* no token, which a step without one accepts.
OrchestratorReports(s, status, verdict) ==
  /\ LockFree /\ mission \notin TerminalMission /\ edits < MaxEdits
  /\ s \in Unfinished(step) /\ step[s].token = EmptyToken
  /\ Record(s, status, verdict, NoOrder)
  /\ edits' = edits + 1

\* reportProgress: a heartbeat; on a step that is not in flight it leaves no
\* trace that outlives the next dispatch.
Progress(o) ==
  /\ LockFree
  /\ o.step \in InFlight(step) /\ FreshLease(o.step, o.token)
  /\ step' = Set(step, o.step, "running")
  /\ UNCHANGED <<mission, room, plan, total, worker, orders, nudges, sweep, job, history, edits, crashes>>

\* submitConfirmDecision: an answer for another pass is refused, one for a
\* decided pass returns the decision; neither changes anything.
Decide(s, verdict) ==
  /\ LockFree /\ mission \notin TerminalMission
  /\ s \in Gates /\ step[s].status = "awaiting_user"
  /\ Record(s, "done", verdict, NoOrder)
  /\ UNCHANGED edits

-----------------------------------------------------------------------------
(* The orchestrator: plans and changes to single steps.                    *)

\* submitPlan: the steps are saved, then the mission; a later plan leaves steps
\* that run or ended alone and only pumps.
SubmitPlan ==
  /\ LockFree /\ mission \in {"planning", "running"} /\ plan < MaxPlans
  /\ step' = [s \in Steps |-> IF step[s].status = "none"
                                THEN [Absent EXCEPT !.status = "pending"] ELSE step[s]]
  /\ job' = Job("plan", NoStep, {})
  /\ UNCHANGED <<mission, room, plan, total, worker, orders, nudges, sweep, history, edits, crashes>>

SavePlan ==
  /\ job.pc = "plan"
  /\ plan' = plan + 1 /\ mission' = "running"
  /\ Goto("pump")
  /\ UNCHANGED <<room, total, step, worker, orders, nudges, sweep, history, edits, crashes>>

\* updateStep: the change of one step, then unblock, block and pump.
Edit(s) ==
  /\ LockFree /\ mission \notin TerminalMission /\ edits < MaxEdits
  /\ step[s].status \notin InFlightStatuses \cup {"none"}
  /\ edits' = edits + 1
  /\ job' = Job("unblock", NoStep, {})
  /\ UNCHANGED <<mission, room, plan, total, orders, nudges, sweep, issued, crashes>>

\* The step runs again by somebody's decision.
Again(s) ==
  /\ step' = Set(step, s, "pending")
  /\ leave' = [leave EXCEPT ![s] = "given"]
  /\ result' = [result EXCEPT ![s] = NoOrder]

SkipOrCancel(s, status) ==
  /\ Edit(s) /\ step' = Set(step, s, status) /\ UNCHANGED <<worker, result, leave>>

Amend(s) == Edit(s) /\ UNCHANGED <<step, worker, result, leave>>

Retry(s) ==
  /\ Edit(s) /\ step[s].attempt < MaxAttempts
  /\ Again(s) /\ UNCHANGED worker

Reassign(s, w) ==
  /\ Edit(s)
  /\ worker' = [worker EXCEPT ![s] = w]
  /\ IF step[s].status \in TerminalStatuses THEN Again(s) ELSE UNCHANGED <<step, result, leave>>

-----------------------------------------------------------------------------
(* The life of the mission.                                                *)

\* startMission; if the briefing cannot be posted the mission is a draft again.
Start ==
  /\ LockFree /\ mission = "draft"
  /\ mission' = "planning" /\ room' = "open"
  /\ UNCHANGED <<plan, total, step, worker, orders, nudges, sweep, job, history, edits, crashes>>

PauseMission ==
  /\ LockFree /\ mission \notin TerminalMission \cup {"paused"}
  /\ mission' = "paused"
  /\ UNCHANGED <<room, plan, total, step, worker, orders, nudges, sweep, job, history, edits, crashes>>

ResumeMission ==
  /\ LockFree /\ mission = "paused"
  /\ mission' = IF plan > 0 THEN "running" ELSE "planning"
  /\ job' = Job("pump", NoStep, {})
  /\ UNCHANGED <<room, plan, total, step, worker, orders, nudges, sweep, history, edits, crashes>>

\* The steps are saved as cancelled, then the mission is saved as ended.
\* Seeded fault: the steps are left for later.
EndLeavingSteps(S, end) == job' = [Idle EXCEPT !.pc = "close", !.end = end] /\ UNCHANGED step
End(S, end) ==
  /\ step' = SetAll(step, S, "cancelled")
  /\ job' = [Idle EXCEPT !.pc = "close", !.end = end]

CloseMission ==
  /\ job.pc = "close"
  /\ mission' = job.end /\ job' = Idle
  /\ UNCHANGED <<room, plan, total, step, worker, orders, nudges, sweep, history, edits, crashes>>

CancelMission ==
  /\ LockFree /\ mission \notin TerminalMission
  /\ End(Unfinished(step), "cancelled")
  /\ UNCHANGED <<mission, room, plan, total, worker, orders, nudges, sweep, history, edits, crashes>>

\* completeMission: "completed" is refused while steps run; only these are closed.
CompleteMission(end) ==
  /\ LockFree /\ mission \notin TerminalMission
  /\ end = "completed" => InFlight(step) = {}
  /\ End(InFlight(step), end)
  /\ UNCHANGED <<mission, room, plan, total, worker, orders, nudges, sweep, history, edits, crashes>>

\* reopenMission: back to running and nothing is pumped; a mission that was never
\* briefed is a draft again.
ReopenMission ==
  /\ LockFree /\ mission \in TerminalMission /\ edits < MaxEdits
  /\ mission' = IF room = "open" THEN "running" ELSE "draft"
  /\ edits' = edits + 1
  /\ UNCHANGED <<room, plan, total, step, worker, orders, nudges, sweep, job, history, crashes>>

-----------------------------------------------------------------------------
(* The reaper, time and crashes.                                           *)

\* A step is silent for step_timeout_minutes; a noticed one for the grace time.
Silence(s) ==
  /\ s \in InFlight(step) /\ step[s].lease \in {"fresh", "noticed"}
  /\ step' = [step EXCEPT ![s].lease = IF @ = "fresh" THEN "silent" ELSE "overdue"]
  /\ UNCHANGED <<mission, room, plan, total, worker, orders, nudges, sweep, job, history, edits, crashes>>

\* Whether a silent step may be sent again without being asked.
\* Seeded fault: only the attempts are looked at.
AttemptsLeft(s) == step[s].attempt < MaxAttempts
MayRedispatch(s) == s \notin Manual /\ step[s].attempt < MaxAttempts

\* reconcileStaleLease: first a request to reconnect, after the grace time a new
\* attempt or the end of the step.
Reconcile(s) ==
  /\ LockFree /\ mission = "running"
  /\ s \in InFlight(step) /\ step[s].lease \in {"silent", "overdue"}
  /\ \/ /\ step[s].lease = "silent"
        /\ step' = [step EXCEPT ![s].lease = "noticed"] /\ UNCHANGED job
     \/ /\ step[s].lease = "overdue" /\ ~MayRedispatch(s)
        /\ Finalize(s)
     \/ /\ step[s].lease = "overdue" /\ MayRedispatch(s)
        /\ step' = [step EXCEPT ![s].lease = "fresh"]
        /\ job' = [Job("unblock", NoStep, {s}) EXCEPT !.recover = TRUE]
  /\ UNCHANGED <<mission, room, plan, total, worker, orders, nudges, sweep, history, edits, crashes>>

\* reapStalledPlanning, reapStalledRunning: what the sweep reads, without the lock.
Stalled(status) ==
  /\ sweep = "none" /\ mission = status
  /\ status = "running" => InFlight(step) = {} /\ AwaitingUser(step) = {}

Nudge(status) ==
  /\ Stalled(status) /\ nudges[status] < NudgeLimit
  /\ nudges' = [nudges EXCEPT ![status] = @ + 1]
  /\ UNCHANGED <<rows, orders, sweep, job, history, edits, crashes>>

GiveUp(status) ==
  /\ Stalled(status) /\ nudges[status] >= NudgeLimit
  /\ sweep' = status
  /\ UNCHANGED <<rows, orders, nudges, job, history, edits, crashes>>

\* failMissionExternally looks again under the lock: at the status and at work in
\* flight.
\* Seeded fault: it leaves a mission alone that has any open step.
NothingOpen == mission = sweep /\ Unfinished(step) = {}
StillStalled == mission = sweep /\ (sweep = "running" => InFlight(step) = {})
FailMission ==
  /\ LockFree /\ sweep # "none"
  /\ IF StillStalled THEN End(Unfinished(step), "failed") ELSE UNCHANGED <<step, job>>
  /\ sweep' = "none"
  /\ UNCHANGED <<mission, room, plan, total, worker, orders, nudges, history, edits, crashes>>

\* The server stops within an operation or a sweep; the rows stay.
Crash ==
  /\ crashes < MaxCrashes /\ (~LockFree \/ sweep # "none")
  /\ job' = Idle /\ sweep' = "none" /\ crashes' = crashes + 1
  /\ UNCHANGED <<rows, orders, nudges, history, edits>>

-----------------------------------------------------------------------------
Server == RunnerStep \/ SavePlan \/ CloseMission
Reaper ==
  \/ \E s \in Steps : Reconcile(s)
  \/ \E r \in {"planning", "running"} : Nudge(r) \/ GiveUp(r)
  \/ FailMission
MemberSteps ==
  \/ \E o \in orders, st \in {"done", "failed", "blocked"} : \E v \in AskedFor(o.step) : Report(o, st, v)
  \/ \E o \in orders : Progress(o)
UserSteps == \E s \in Gates, v \in Verdicts : Decide(s, v)
\* requireOrchestrator: startMission, which briefs it, also names the orchestrator.
OrchestratorSteps ==
  /\ room = "open"
  /\ \/ SubmitPlan
     \/ \E s \in Steps :
          \/ \E st \in {"skipped", "cancelled"} : SkipOrCancel(s, st)
          \/ \E w \in Workers : Reassign(s, w)
          \/ \E st \in {"done", "failed", "blocked"}, v \in AskedFor(s) : OrchestratorReports(s, st, v)
          \/ Amend(s) \/ Retry(s)
     \/ \E end \in {"completed", "failed"} : CompleteMission(end)
OperatorSteps == Start \/ PauseMission \/ ResumeMission \/ CancelMission \/ ReopenMission

Next ==
  \/ Server \/ Reaper \/ MemberSteps \/ UserSteps \/ OrchestratorSteps \/ OperatorSteps
  \/ \E s \in Steps : Silence(s)
  \/ Crash

Spec == Init /\ [][Next]_vars

\* The server finishes what it started, the sweep timer keeps coming, time passes.
\* Nothing is assumed of workers, users, the orchestrator or the operator.
FairSpec ==
  /\ Spec /\ WF_vars(Server) /\ WF_vars(FailMission)
  /\ \A s \in Steps : WF_vars(Silence(s)) /\ WF_vars(Reconcile(s))
  /\ \A r \in {"planning", "running"} : WF_vars(Nudge(r)) /\ WF_vars(GiveUp(r))

-----------------------------------------------------------------------------
(* Properties.                                                             *)

Types ==
  /\ mission \in TerminalMission \cup {"draft", "planning", "running", "paused"}
  /\ room \in {"none", "open"} /\ plan \in 0..MaxPlans /\ total \in Nat
  /\ step \in [Steps -> StepRow] /\ worker \in [Steps -> Workers \cup {NoWorker}]
  /\ orders \subseteq [step: Steps, token: Nat, visit: Nat, attempt: Nat]
  /\ nudges \in [{"planning", "running"} -> 0..NudgeLimit]
  /\ sweep \in {"none", "planning", "running"}
  /\ job \in [pc: {"idle", "transit", "unblock", "block", "pump", "next", "count", "post", "plan", "close"},
              step: Steps \cup {NoStep}, queue: SUBSET Steps, recover: BOOLEAN,
              end: TerminalMission \cup {"none"}]
  /\ issued \in [Steps -> Nat] /\ leave \in [Steps -> {"given", "released", "used"}]
  /\ result \in [Steps -> [token: Nat, visit: Nat]]
  /\ edits \in 0..MaxEdits /\ crashes \in 0..MaxCrashes

\* The loops whose target is not also reset by a loop to another node.
Outermost ==
  {e \in Edges : e.loop /\ \A f \in Edges : f.loop /\ e.to \in LoopBody(f) => f.to = e.to}

\* Every variable stays in its domain; no outermost loop comes back more often than
\* the max_visits of its target allows.  (The plan may nest loops: then the outer one
\* takes the target of the inner one past its max_visits, see AllLoopsCapped.)
TypeOK == Types /\ \A e \in Outermost : step[e.to].visit <= MaxVisits

\* max_visits read as a limit on every loop.
AllLoopsCapped == \A e \in Edges : e.loop => step[e.to].visit <= MaxVisits

\* max_parallel_steps and max_concurrent hold whatever pumps, recoveries, loops,
\* retries and crashes come together.
Capacity ==
  /\ Cardinality(InFlight(step)) <= MaxParallel
  /\ \A s, t \in InFlight(step) : worker[s] = worker[t] => s = t

\* "the budget must stay used even if the server stops during the post": no work
\* order is out that total_visits does not count.
OrdersAreCounted == Cardinality(orders) <= total

\* pump: however many steps are ready at once, only a recovery spends more visits
\* than the budget has.
BudgetKept == [][total' > total /\ ~job.recover => total < Budget]_vars

\* retry_policy 'manual': after an attempt of such a step has started, with or
\* without its work order, the next one starts only if since then somebody decided
\* to run it again or a loop came back to it, or its automatic block was lifted; no
\* crash, failed post, timeout or late report repeats it.
ManualRunsOnce ==
  [][\A s \in Manual : issued'[s] # issued[s] => leave[s] # "used"]_vars

\* The same without the third case.
RepeatIsDecided ==
  [][\A s \in Manual : issued'[s] # issued[s] => leave[s] = "given"]_vars

\* A step in flight is ended only by a report on its newest work order, however
\* late the workers of superseded attempts report.
Fenced ==
  [][\A s \in InFlight(step) : result'[s] # result[s] /\ result'[s] # NoOrder
       => result'[s].token = issued[s]]_vars

\* The result on record is one of the present pass, even if the report of an
\* earlier pass comes after a loop has set the step back.
ResultOfThisPass ==
  \A s \in Steps : result[s] # NoOrder => result[s].visit = step[s].visit

\* A step is held as auto-blocked only while something upstream keeps it from
\* running: a repaired upstream releases it within the same operation.
BlockedForAReason ==
  crashes = 0 /\ LockFree =>
    \A s \in AutoBlocked : s \in NewlyBlocked(SetAll(step, {s}, "pending"))

\* A mission that ended has no step in flight, although its steps and its status
\* are saved one after the other and the sweep decides outside of the lock.
EndedMeansIdle == mission \in TerminalMission => InFlight(step) = {}

\* remindAwaitingConfirm: "the reaper does not kill a mission that waits for a
\* confirmation" (the sweep skips missions with an open gate).
ReaperSparesGates ==
  [][\A s \in AwaitingUser(step) : step'[s].status = "cancelled" => job'.end # "failed"]_vars

\* unblockAutoBlockedDependents never touches a step whose worker reported blocked.
WorkerBlockedStands ==
  [][\A s \in Steps : job.pc = "unblock" /\ step[s].status = "blocked" /\ result[s] # NoOrder
       => step'[s].status = "blocked"]_vars

Settled == mission \in TerminalMission \cup {"paused"} \/ AwaitingUser(step) # {}
Heartbeat == \E o \in orders : Progress(o)

\* Unless its workers keep sending heartbeats, a mission that plans or runs ends,
\* is paused, or asks a user, whether or not anybody answers the nudges.
MissionSettles ==
  <>[][~Heartbeat]_vars => (mission \in {"planning", "running"} ~> Settled)
=============================================================================

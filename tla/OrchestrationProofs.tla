------------------------- MODULE OrchestrationProofs -------------------------
(* Proofs about Orchestration, for any graph, roster and limits.           *)
EXTENDS Orchestration, FiniteSetTheorems, TLAPS

Statuses == TerminalStatuses \cup InFlightStatuses \cup {"none", "pending", "ready", "awaiting_user"}
Leases == {"fresh", "silent", "noticed", "overdue"}
Waiting == {"none", "pending", "ready"}
Leaves == {"given", "released", "used"}

-----------------------------------------------------------------------------
(* The inductive invariant.                                                *)

\* A step in flight runs under the token issued last; a result is one of the
\* step's present pass; gates get no work orders and so no results; a step that
\* waits to be sent has the leave for it.
RowOK(s) ==
  /\ step[s].status \in InFlightStatuses => step[s].token = issued[s] /\ issued[s] > 0
  /\ step[s].status = "none" => step[s].visit = 0
  /\ result[s] # NoOrder => result[s].visit = step[s].visit
  /\ s \in Gates => result[s] = NoOrder
  /\ step[s].status \in Waiting => leave[s] # "used"
RowsOK == \A s \in Steps : RowOK(s)

OrdersOK ==
  /\ IsFiniteSet(orders)
  /\ \A o \in orders : o.token = o.attempt /\ o.step \notin Gates
  /\ Cardinality(orders) + (IF job.pc = "post" THEN 1 ELSE 0) <= total

\* What the holder of the lock knows of the rows it read before its last save.
Sending == job.pc \in {"count", "post"}
QueueOK ==
  \A s \in job.queue :
    IF job.recover THEN s \in InFlight(step) \ Manual /\ ~Sending /\ job.queue = {s}
                   ELSE Open(s, step)
JobOK ==
  /\ QueueOK
  /\ job.recover \/ job.pc = "next" \/ Sending \/ job.queue = {}
  /\ job.recover => job.pc \in {"unblock", "next", "count", "post"}
  /\ job.recover \/ job.pc = "next" \/ Sending => mission = "running"
  /\ Sending => /\ job.step \in Steps
                /\ job.step \in Gates \/ job.step \in InFlight(step)
                /\ job.recover => job.step \notin Manual
  /\ job.pc = "count" /\ ~job.recover => total < Budget
  /\ job.pc = "post" => job.step \notin Gates
  /\ job.pc = "plan" => plan < MaxPlans
  /\ job.pc = "close" => InFlight(step) = {} /\ job.end \in TerminalMission

IInv == Types /\ RowsOK /\ OrdersOK /\ JobOK /\ Capacity /\ EndedMeansIdle

-----------------------------------------------------------------------------
(* What the operators on rows and jobs return.                             *)

LEMMA Limits ==
  MaxPlans \in Nat /\ MaxEdits \in Nat /\ MaxCrashes \in Nat /\ NudgeLimit \in Nat /\ MaxParallel \in Nat /\ Budget \in Nat
  BY OrchestrationAssumption

LEMMA SetIs ==
  ASSUME NEW st \in [Steps -> StepRow], NEW s \in Steps, NEW status \in Statuses
  PROVE  /\ Set(st, s, status) \in [Steps -> StepRow]
         /\ \A t \in Steps : t # s => Set(st, s, status)[t] = st[t]
         /\ Set(st, s, status)[s].status = status
         /\ Set(st, s, status)[s].token = st[s].token /\ Set(st, s, status)[s].visit = st[s].visit
<1>1. st[s] \in StepRow OBVIOUS
<1> DEFINE row == [st[s] EXCEPT !.status = status, !.lease = "fresh"]
<1>2. row \in StepRow /\ row.status = status /\ row.token = st[s].token /\ row.visit = st[s].visit
  BY <1>1 DEF StepRow, Statuses
<1>3. Set(st, s, status) = [st EXCEPT ![s] = row] BY DEF Set
<1> HIDE DEF row
<1> QED BY <1>2, <1>3

LEMMA SetAllIs ==
  ASSUME NEW st \in [Steps -> StepRow], NEW S \in SUBSET Steps, NEW status \in Statuses
  PROVE  /\ SetAll(st, S, status) \in [Steps -> StepRow]
         /\ \A t \in Steps \ S : SetAll(st, S, status)[t] = st[t]
         /\ \A s \in S : /\ SetAll(st, S, status)[s].status = status
                         /\ SetAll(st, S, status)[s].token = st[s].token
                         /\ SetAll(st, S, status)[s].visit = st[s].visit
<1>1. \A s \in S : SetAll(st, S, status)[s] = Set(st, s, status)[s] BY DEF SetAll
<1>2. \A t \in Steps \ S : SetAll(st, S, status)[t] = st[t] BY DEF SetAll
<1>3. \A s \in S : Set(st, s, status)[s] \in StepRow BY SetIs
<1>4. SetAll(st, S, status) \in [Steps -> StepRow] BY <1>3 DEF SetAll
<1> QED BY <1>1, <1>2, <1>4, SetIs

JobType == [pc: {"idle", "transit", "unblock", "block", "pump", "next", "count", "post", "plan", "close"},
            step: Steps \cup {NoStep}, queue: SUBSET Steps, recover: BOOLEAN,
            end: TerminalMission \cup {"none"}]

LEMMA JobIs ==
  ASSUME NEW pc \in {"idle", "transit", "unblock", "block", "pump", "next", "plan"},
         NEW s \in Steps \cup {NoStep}, NEW queue \in SUBSET Steps
  PROVE  /\ Job(pc, s, queue) \in JobType /\ Job(pc, s, queue).pc = pc /\ Job(pc, s, queue).step = s
         /\ Job(pc, s, queue).queue = queue /\ Job(pc, s, queue).recover = FALSE
         /\ Job(pc, s, queue).end = "none"
  BY DEF Job, JobType

LEMMA IdleIs ==
  Idle \in JobType /\ Idle.pc = "idle" /\ Idle.queue = {} /\ Idle.recover = FALSE
  BY DEF Idle, Job, JobType

LEMMA AfterIs ==
  ASSUME job \in JobType, NEW s
  PROVE  /\ After(s) \in JobType /\ After(s).pc \in {"idle", "next"} /\ After(s).recover = FALSE
         /\ After(s).queue = job.queue \ {s}
         /\ After(s).pc = "idle" => After(s).queue = {}
<1> DEFINE rest == job.queue \ {s}
<1>1. rest \in SUBSET Steps BY DEF JobType
<1>2. After(s) = IF rest = {} THEN Idle ELSE Job("next", NoStep, rest) BY DEF After
<1> HIDE DEF rest
<1>3. CASE rest = {}
  <2>1. After(s) = Idle BY <1>2, <1>3
  <2> QED BY <1>3, <2>1, IdleIs DEF rest
<1>4. CASE rest # {}
  <2>1. After(s) = Job("next", NoStep, rest) BY <1>2, <1>4
  <2>2. /\ After(s) \in JobType /\ After(s).pc = "next" /\ After(s).recover = FALSE
        /\ After(s).queue = rest
    BY <1>1, <2>1 DEF Job, JobType
  <2> QED BY <2>2 DEF rest
<1> QED BY <1>3, <1>4

-----------------------------------------------------------------------------
(* Steps that post nothing.                                                *)

\* What such a step may do to a row.
Quiet(s) ==
  /\ step'[s].status \in InFlightStatuses =>
       /\ step[s].status \in InFlightStatuses
       /\ step'[s].token = step[s].token /\ worker'[s] = worker[s]
  /\ step'[s].status = "none" => step'[s].visit = 0
  /\ result'[s] = NoOrder \/ (s \notin Gates /\ result'[s].visit = step'[s].visit)
  /\ step'[s].status \in Waiting => leave'[s] # "used"

LEMMA QuietBase ==
  ASSUME IInv, Types', JobOK', OrdersOK', UNCHANGED <<orders, issued>>,
         \A s \in Steps : Quiet(s),
         mission' = mission \/ mission' \notin TerminalMission \/ InFlight(step) = {}
  PROVE  IInv'
<1>0. Types /\ RowsOK /\ OrdersOK /\ JobOK /\ Capacity /\ EndedMeansIdle BY DEF IInv
<1>1. RowsOK' BY <1>0 DEF RowsOK, RowOK, Quiet
<1>3. InFlight(step') \subseteq InFlight(step) /\ \A s \in InFlight(step') : worker'[s] = worker[s]
  BY DEF InFlight, Quiet
<1>4. Capacity'
  <2>1. IsFiniteSet(InFlight(step)) BY GraphAssumption, FS_Subset DEF InFlight
  <2>2. IsFiniteSet(InFlight(step')) BY <1>3, <2>1, FS_Subset
  <2>3. Cardinality(InFlight(step')) <= Cardinality(InFlight(step)) BY <1>3, <2>1, FS_Subset
  <2>4. Cardinality(InFlight(step)) \in Nat /\ Cardinality(InFlight(step')) \in Nat
    BY <2>1, <2>2, FS_CardinalityType
  <2>5. Cardinality(InFlight(step')) <= MaxParallel
    BY <1>0, <2>3, <2>4, OrchestrationAssumption DEF Capacity
  <2> QED BY <1>0, <1>3, <2>5 DEF Capacity
<1>5. EndedMeansIdle' BY <1>0, <1>3 DEF EndedMeansIdle
<1> QED BY <1>1, <1>4, <1>5 DEF IInv

LEMMA QuietStep ==
  ASSUME IInv, Types', JobOK', UNCHANGED <<orders, issued, total>>,
         \A s \in Steps : Quiet(s),
         job'.pc = "post" => job.pc = "post",
         mission' = mission \/ mission' \notin TerminalMission \/ InFlight(step) = {}
  PROVE  IInv'
<1>0. Types /\ OrdersOK BY DEF IInv
<1>1. OrdersOK'
  <2>1. Cardinality(orders) \in Nat BY <1>0, FS_CardinalityType DEF OrdersOK
  <2>2. total \in Nat BY <1>0 DEF Types
  <2>3. Cardinality(orders) + (IF job'.pc = "post" THEN 1 ELSE 0) <= total BY <1>0, <2>1, <2>2 DEF OrdersOK
  <2> QED BY <1>0, <2>3 DEF OrdersOK
<1> QED BY <1>1, QuietBase

\* A row that keeps its state of work, or ends.
Kept(s) ==
  /\ step'[s].visit = step[s].visit
  /\ \/ step'[s].status = step[s].status /\ step'[s].token = step[s].token
     \/ {step[s].status, step'[s].status} \subseteq InFlightStatuses /\ step'[s].token = step[s].token
     \/ step'[s].status \in TerminalStatuses
  /\ worker'[s] = worker[s] /\ leave'[s] = leave[s]
  /\ result'[s] = result[s] \/ result'[s] = NoOrder \/ (s \notin Gates /\ result'[s].visit = step[s].visit)

LEMMA KeptIsQuiet ==
  ASSUME IInv, NEW s \in Steps, Kept(s)
  PROVE  Quiet(s)
<1>0. RowOK(s) BY DEF IInv, RowsOK
<1>1. step'[s].status \in Waiting => leave'[s] # "used"
  BY <1>0 DEF Kept, RowOK, Waiting, TerminalStatuses, InFlightStatuses, SatisfyingStatuses
<1>2. step'[s].status \in InFlightStatuses =>
        /\ step[s].status \in InFlightStatuses
        /\ step'[s].token = step[s].token /\ worker'[s] = worker[s]
  BY DEF Kept, InFlightStatuses, TerminalStatuses, SatisfyingStatuses
<1>3. step'[s].status = "none" => step'[s].visit = 0
  BY <1>0 DEF Kept, InFlightStatuses, TerminalStatuses, SatisfyingStatuses, RowOK
<1>4. result'[s] = NoOrder \/ (s \notin Gates /\ result'[s].visit = step'[s].visit)
  BY <1>0 DEF Kept, RowOK
<1> QED BY <1>0, <1>1, <1>2, <1>3, <1>4 DEF Quiet, Kept

\* A row that goes back to pending by a decision or by a loop.
SentBack(s) == step'[s].status = "pending" /\ result'[s] = NoOrder /\ leave'[s] = "given"

LEMMA SentBackIsQuiet ==
  ASSUME NEW s \in Steps, SentBack(s)
  PROVE  Quiet(s)
  BY DEF Quiet, SentBack, InFlightStatuses

\* An operation that has no step in hand.
LEMMA PlainJob ==
  ASSUME job'.pc \in {"idle", "transit", "block", "pump", "unblock"}, job'.queue = {}, job'.recover = FALSE
  PROVE  JobOK' /\ ~Sending'
  BY DEF JobOK, QueueOK, Sending

LEMMA TypesOf ==
  ASSUME Types
  PROVE  /\ step \in [Steps -> StepRow] /\ job \in JobType /\ orders \subseteq [step: Steps, token: Nat, visit: Nat, attempt: Nat]
         /\ \A s \in Steps : step[s] \in StepRow /\ issued[s] \in Nat
  BY DEF Types, JobType

\* The actions that change no row.
LEMMA SameRows ==
  ASSUME IInv, Types', JobOK', UNCHANGED <<orders, issued, total, step, worker, result, leave>>,
         job'.pc = "post" => job.pc = "post",
         mission' = mission \/ mission' \notin TerminalMission \/ InFlight(step) = {}
  PROVE  IInv'
<1>1. \A s \in Steps : Kept(s) BY DEF Kept
<1> QED BY <1>1, KeptIsQuiet, QuietStep

LEMMA MissionInv ==
  ASSUME IInv, Start \/ PauseMission \/ ReopenMission
  PROVE  IInv'
<1>0. Types /\ JobOK /\ job = Idle BY DEF IInv, Start, PauseMission, ReopenMission, LockFree
<1>1. /\ UNCHANGED <<plan, total, step, worker, orders, nudges, sweep, job, issued, result, leave, crashes>>
      /\ mission' \in {"planning", "paused", "running", "draft"} /\ room' \in {"none", "open"}
  BY <1>0 DEF Start, PauseMission, ReopenMission, history, Types
<1>2. edits' \in 0..MaxEdits
  <2>1. edits \in 0..MaxEdits BY <1>0 DEF Types
  <2>2. edits' = edits \/ (edits < MaxEdits /\ edits' = edits + 1) BY DEF Start, PauseMission, ReopenMission
  <2> QED BY <2>1, <2>2, Limits
<1>3. Types' BY <1>0, <1>1, <1>2 DEF Types
<1>4. JobOK' /\ ~Sending' BY <1>0, <1>1, IdleIs, PlainJob
<1>5. mission' \notin TerminalMission BY <1>1 DEF TerminalMission
<1> QED BY <1>1, <1>3, <1>4, <1>5, SameRows

LEMMA ResumeInv ==
  ASSUME IInv, ResumeMission
  PROVE  IInv'
<1>0. Types BY DEF IInv
<1>1. /\ UNCHANGED <<room, plan, total, step, worker, orders, nudges, sweep, issued, result, leave, edits, crashes>>
      /\ mission' \in {"planning", "running"} /\ job' = Job("pump", NoStep, {})
  BY DEF ResumeMission, history
<1>2. job' \in JobType /\ job'.pc = "pump" /\ job'.queue = {} /\ job'.recover = FALSE BY <1>1 DEF Job, JobType
<1>3. Types' BY <1>0, <1>1, <1>2 DEF Types, JobType
<1>4. JobOK' /\ ~Sending' BY <1>2, PlainJob
<1>5. mission' \notin TerminalMission BY <1>1 DEF TerminalMission
<1> QED BY <1>1, <1>2, <1>3, <1>4, <1>5, SameRows

LEMMA SavePlanInv ==
  ASSUME IInv, SavePlan
  PROVE  IInv'
<1>0. Types /\ JobOK /\ job \in JobType /\ job.pc = "plan" BY TypesOf DEF IInv, SavePlan
<1>1. /\ UNCHANGED <<room, total, step, worker, orders, nudges, sweep, issued, result, leave, edits, crashes>>
      /\ mission' = "running" /\ plan' = plan + 1 /\ job' = [job EXCEPT !.pc = "pump"]
  BY DEF SavePlan, history, Goto
<1>2. plan' \in 0..MaxPlans
  <2>1. plan \in 0..MaxPlans /\ plan < MaxPlans BY <1>0 DEF Types, JobOK
  <2> QED BY <1>1, <2>1, Limits
<1>3. job' \in JobType /\ job'.pc = "pump" /\ job'.queue = job.queue BY <1>0, <1>1 DEF JobType
<1>4. job'.recover = FALSE
  <2>1. job.recover = FALSE BY <1>0 DEF JobOK, JobType
  <2> QED BY <1>0, <1>1, <2>1 DEF JobType
<1>5. Types' BY <1>0, <1>1, <1>2, <1>3 DEF Types, JobType
<1>6. JobOK' /\ ~Sending'
  <2>1. job.queue = {} BY <1>0 DEF JobOK, Sending
  <2> QED BY <1>3, <1>4, <2>1, PlainJob
<1>7. mission' \notin TerminalMission BY <1>1 DEF TerminalMission
<1> QED BY <1>1, <1>3, <1>5, <1>6, <1>7, SameRows

LEMMA CloseInv ==
  ASSUME IInv, CloseMission
  PROVE  IInv'
<1>0. Types /\ JobOK /\ job.pc = "close" /\ job' = Idle BY DEF IInv, CloseMission
<1>1. /\ UNCHANGED <<room, plan, total, step, worker, orders, nudges, sweep, issued, result, leave, edits, crashes>>
      /\ mission' = job.end
  BY DEF CloseMission, history
<1>2. InFlight(step) = {} /\ job.end \in TerminalMission BY <1>0 DEF JobOK
<1>3. Types' BY <1>0, <1>1, <1>2, IdleIs DEF Types, JobType
<1>4. JobOK' /\ ~Sending' /\ job'.pc = "idle" BY <1>0, IdleIs, PlainJob
<1> QED BY <1>1, <1>2, <1>3, <1>4, SameRows

LEMMA SweepInv ==
  ASSUME IInv, (\E r \in {"planning", "running"} : Nudge(r) \/ GiveUp(r)) \/ UNCHANGED vars
  PROVE  IInv'
<1>0. Types /\ JobOK BY DEF IInv
<1>1. UNCHANGED <<mission, room, plan, total, step, worker, orders, job, issued, result, leave, edits, crashes>>
  BY DEF Nudge, GiveUp, rows, history, vars
<1>2. nudges' \in [{"planning", "running"} -> 0..NudgeLimit] /\ sweep' \in {"none", "planning", "running"}
  <2>1. nudges \in [{"planning", "running"} -> 0..NudgeLimit] /\ sweep \in {"none", "planning", "running"}
    BY <1>0 DEF Types
  <2>2. ASSUME NEW r \in {"planning", "running"}, Nudge(r) PROVE nudges' \in [{"planning", "running"} -> 0..NudgeLimit]
    <3>1. nudges' = [nudges EXCEPT ![r] = nudges[r] + 1] /\ nudges[r] < NudgeLimit BY <2>2 DEF Nudge
    <3>2. nudges[r] + 1 \in 0..NudgeLimit BY <2>1, <3>1, Limits
    <3> QED BY <2>1, <3>1, <3>2
  <2>3. nudges' = nudges \/ \E r \in {"planning", "running"} : Nudge(r) BY DEF GiveUp, vars
  <2>4. sweep' \in {"none", "planning", "running"} BY <2>1 DEF GiveUp, Nudge, vars
  <2> QED BY <2>1, <2>2, <2>3, <2>4
<1>3. Types' BY <1>0, <1>1, <1>2 DEF Types
<1>4. JobOK' BY <1>0, <1>1 DEF JobOK, QueueOK, Sending
<1> QED BY <1>1, <1>3, <1>4, SameRows

LEMMA CrashInv ==
  ASSUME IInv, Crash
  PROVE  IInv'
<1>0. Types BY DEF IInv
<1>1. /\ UNCHANGED <<mission, room, plan, total, step, worker, orders, nudges, issued, result, leave, edits>>
      /\ job' = Idle /\ sweep' = "none" /\ crashes' = crashes + 1 /\ crashes < MaxCrashes
  BY DEF Crash, rows, history
<1>2. crashes' \in 0..MaxCrashes
  <2>1. crashes \in 0..MaxCrashes BY <1>0 DEF Types
  <2> QED BY <1>1, <2>1, Limits
<1>3. Types' BY <1>0, <1>1, <1>2, IdleIs DEF Types, JobType
<1>4. JobOK' /\ ~Sending' /\ job'.pc = "idle" BY <1>1, IdleIs, PlainJob
<1> QED BY <1>1, <1>3, <1>4, SameRows

-----------------------------------------------------------------------------
(* The actions that end a step or send it back.                            *)

LEMMA RecordInv ==
  ASSUME IInv, NEW s \in Steps, NEW status \in {"done", "failed", "blocked"},
         NEW verdict \in Verdicts \cup {NoVerdict}, NEW by \in [token: Nat, visit: Nat],
         by = NoOrder \/ (s \notin Gates /\ by.visit = step[s].visit),
         Record(s, status, verdict, by), edits' \in 0..MaxEdits
  PROVE  IInv'
<1>0. Types /\ step \in [Steps -> StepRow] BY TypesOf DEF IInv
<1>1. /\ UNCHANGED <<mission, room, plan, total, worker, orders, nudges, sweep, issued, leave, crashes>>
      /\ result' = [result EXCEPT ![s] = by] /\ job' = Job("transit", s, {})
      /\ step' = [Set(step, s, status) EXCEPT ![s].verdict = verdict]
  BY DEF Record
<1>2. job' \in JobType /\ job'.pc = "transit" /\ job'.queue = {} /\ job'.recover = FALSE BY <1>1 DEF Job, JobType
<1> DEFINE old == Set(step, s, status)
<1>3. /\ status \in Statuses /\ status \in TerminalStatuses BY DEF Statuses, TerminalStatuses, SatisfyingStatuses
<1>4. /\ old \in [Steps -> StepRow] /\ \A t \in Steps : t # s => old[t] = step[t]
      /\ old[s].status = status /\ old[s].visit = step[s].visit
  BY <1>0, <1>3, SetIs
<1>5. step' = [old EXCEPT ![s] = [old[s] EXCEPT !.verdict = verdict]] BY <1>1
<1> HIDE DEF old
<1>6. /\ [old[s] EXCEPT !.verdict = verdict] \in StepRow
      /\ [old[s] EXCEPT !.verdict = verdict].status = status
      /\ [old[s] EXCEPT !.verdict = verdict].visit = step[s].visit
  BY <1>4 DEF StepRow
<1>8. /\ step' \in [Steps -> StepRow] /\ \A t \in Steps : t # s => step'[t] = step[t]
      /\ step'[s].status = status /\ step'[s].visit = step[s].visit
  BY <1>4, <1>5, <1>6
<1>9. Types' BY <1>0, <1>1, <1>2, <1>8 DEF Types, JobType
<1>10. JobOK' /\ ~Sending' BY <1>2, PlainJob
<1>11. ASSUME NEW t \in Steps PROVE Kept(t)
  BY <1>0, <1>1, <1>3, <1>8 DEF Kept, Types
<1>12. \A t \in Steps : Quiet(t) BY <1>10, <1>11, KeptIsQuiet
<1> QED BY <1>1, <1>2, <1>9, <1>10, <1>12, QuietStep

LEMMA AskedForIs ==
  ASSUME NEW s, NEW v \in AskedFor(s)
  PROVE  v \in Verdicts \cup {NoVerdict}
<1>1. v = NoVerdict \/ \E e \in Edges : v \in e.verdicts
  <2> DEFINE lists == {e.verdicts : e \in {f \in Edges : f.from = s}}
  <2>1. v = NoVerdict \/ v \in UNION lists BY DEF AskedFor
  <2>2. \A l \in lists : \E e \in Edges : l = e.verdicts OBVIOUS
  <2> HIDE DEF lists
  <2> QED BY <2>1, <2>2
<1>2. \A e \in Edges : e.verdicts \subseteq Verdicts BY GraphAssumption DEF EdgeType
<1> QED BY <1>1, <1>2

LEMMA ReportInv ==
  ASSUME IInv, NEW o \in orders, NEW status \in {"done", "failed", "blocked"}, NEW verdict \in AskedFor(o.step),
         Report(o, status, verdict)
  PROVE  IInv'
<1>0. Types /\ OrdersOK BY DEF IInv
<1>1. o \in [step: Steps, token: Nat, visit: Nat, attempt: Nat] /\ o.step \notin Gates
  BY <1>0 DEF Types, OrdersOK
<1>2. verdict \in Verdicts \cup {NoVerdict} BY AskedForIs
<1> DEFINE by == [token |-> o.attempt, visit |-> o.visit]
<1>3. by \in [token: Nat, visit: Nat] /\ by.visit = step[o.step].visit BY <1>1 DEF Report, SameVisit
<1>4. Record(o.step, status, verdict, by) /\ edits' \in 0..MaxEdits BY <1>0 DEF Report, Types
<1> HIDE DEF by
<1> QED BY <1>1, <1>2, <1>3, <1>4, RecordInv

LEMMA NoOrderIs == NoOrder \in [token: Nat, visit: Nat]
  BY DEF NoOrder

LEMMA OthersReportInv ==
  ASSUME IInv, NEW s \in Steps, NEW status \in {"done", "failed", "blocked"}, NEW verdict \in Verdicts \cup {NoVerdict},
         OrchestratorReports(s, status, verdict) \/ Decide(s, verdict)
  PROVE  IInv'
<1>0. Types BY DEF IInv
<1>1. edits' \in 0..MaxEdits
  <2>1. edits \in 0..MaxEdits BY <1>0 DEF Types
  <2>2. edits' = edits \/ (edits < MaxEdits /\ edits' = edits + 1) BY DEF OrchestratorReports, Decide
  <2> QED BY <2>1, <2>2, Limits
<1>2. Record(s, status, verdict, NoOrder) \/ Record(s, "done", verdict, NoOrder) BY DEF OrchestratorReports, Decide
<1> QED BY <1>1, <1>2, NoOrderIs, RecordInv

\* updateStep: what every change of a step does besides.
LEMMA EditIs ==
  ASSUME IInv, NEW s \in Steps, Edit(s)
  PROVE  /\ UNCHANGED <<mission, room, plan, total, orders, nudges, sweep, issued, crashes>>
         /\ job' \in JobType /\ job'.pc = "unblock" /\ edits' \in 0..MaxEdits
         /\ JobOK' /\ ~Sending' /\ step[s].status \notin InFlightStatuses \cup {"none"}
<1>0. Types BY DEF IInv
<1>1. UNCHANGED <<mission, room, plan, total, orders, nudges, sweep, issued, crashes>>
      /\ step[s].status \notin InFlightStatuses \cup {"none"}
  BY DEF Edit
<1>2. job' \in JobType /\ job'.pc = "unblock" /\ job'.queue = {} /\ job'.recover = FALSE
  BY DEF Edit, Job, JobType
<1>3. edits' \in 0..MaxEdits
  <2>1. edits \in 0..MaxEdits BY <1>0 DEF Types
  <2>2. edits < MaxEdits /\ edits' = edits + 1 BY DEF Edit
  <2> QED BY <2>1, <2>2, Limits
<1> QED BY <1>1, <1>2, <1>3, PlainJob

LEMMA SkipInv ==
  ASSUME IInv, NEW s \in Steps, NEW status \in {"skipped", "cancelled"}, SkipOrCancel(s, status) \/ Amend(s)
  PROVE  IInv'
<1>0. Types /\ step \in [Steps -> StepRow] /\ Edit(s) BY TypesOf DEF IInv, SkipOrCancel, Amend
<1>1. /\ UNCHANGED <<mission, room, plan, total, orders, nudges, sweep, issued, crashes>>
      /\ job' \in JobType /\ job'.pc = "unblock" /\ edits' \in 0..MaxEdits
      /\ JobOK' /\ ~Sending'
  BY <1>0, EditIs
<1>2. UNCHANGED <<worker, result, leave>> /\ (step' = Set(step, s, status) \/ step' = step)
  BY DEF SkipOrCancel, Amend
<1>3. status \in Statuses /\ status \in TerminalStatuses BY DEF Statuses, TerminalStatuses, SatisfyingStatuses
<1>4. /\ step' \in [Steps -> StepRow] /\ \A t \in Steps : t # s => step'[t] = step[t]
      /\ step'[s].visit = step[s].visit
      /\ step'[s].status = status \/ step'[s] = step[s]
  BY <1>0, <1>2, <1>3, SetIs
<1>5. Types' BY <1>0, <1>1, <1>2, <1>4 DEF Types, JobType
<1>6. ASSUME NEW t \in Steps PROVE Kept(t) BY <1>2, <1>3, <1>4 DEF Kept
<1>7. \A t \in Steps : Quiet(t) BY <1>1, <1>6, KeptIsQuiet
<1> QED BY <1>1, <1>5, <1>7, QuietStep

LEMMA AgainInv ==
  ASSUME IInv, NEW s \in Steps, Retry(s) \/ \E w \in Workers : Reassign(s, w)
  PROVE  IInv'
<1>0. Types /\ step \in [Steps -> StepRow] /\ Edit(s) BY TypesOf DEF IInv, Retry, Reassign
<1>1. /\ UNCHANGED <<mission, room, plan, total, orders, nudges, sweep, issued, crashes>>
      /\ job' \in JobType /\ job'.pc = "unblock" /\ edits' \in 0..MaxEdits
      /\ JobOK' /\ ~Sending' /\ step[s].status \notin InFlightStatuses \cup {"none"}
  BY <1>0, EditIs
<1>2. worker' \in [Steps -> Workers \cup {NoWorker}] /\ \A t \in Steps : t # s => worker'[t] = worker[t]
  BY <1>0 DEF Retry, Reassign, Types
<1>3. CASE Again(s)
  <2>1. step' = Set(step, s, "pending") /\ leave' = [leave EXCEPT ![s] = "given"]
        /\ result' = [result EXCEPT ![s] = NoOrder]
    BY <1>3 DEF Again
  <2>2. /\ step' \in [Steps -> StepRow] /\ \A t \in Steps : t # s => step'[t] = step[t]
        /\ step'[s].status = "pending"
    BY <1>0, <2>1, SetIs DEF Statuses
  <2>3. /\ leave' \in [Steps -> Leaves] /\ leave'[s] = "given" /\ \A t \in Steps : t # s => leave'[t] = leave[t]
        /\ result' \in [Steps -> [token: Nat, visit: Nat]] /\ result'[s] = NoOrder
        /\ \A t \in Steps : t # s => result'[t] = result[t]
    BY <1>0, <2>1, NoOrderIs DEF Types, Leaves
  <2>4. Types' BY <1>0, <1>1, <1>2, <2>2, <2>3 DEF Types, JobType, Leaves
  <2>5. Quiet(s) BY <2>2, <2>3, SentBackIsQuiet DEF SentBack
  <2>6. ASSUME NEW t \in Steps, t # s PROVE Quiet(t)
    <3>1. Kept(t) BY <1>2, <2>2, <2>3, <2>6 DEF Kept
    <3> QED BY <1>1, <3>1, KeptIsQuiet
  <2>7. \A t \in Steps : Quiet(t) BY <2>5, <2>6
  <2> QED BY <1>1, <2>4, <2>7, QuietStep
<1>4. CASE UNCHANGED <<step, result, leave>>
  <2>1. Types' BY <1>0, <1>1, <1>2, <1>4 DEF Types, JobType
  <2>2. ASSUME NEW t \in Steps PROVE Quiet(t)
    <3>1. CASE t # s
      <4>1. Kept(t) BY <1>2, <1>4, <3>1 DEF Kept
      <4> QED BY <1>1, <4>1, KeptIsQuiet
    <3>2. CASE t = s
      <4>1. RowOK(s) BY DEF IInv, RowsOK
      <4> QED BY <1>1, <1>4, <3>2, <4>1 DEF Quiet, RowOK
    <3> QED BY <3>1, <3>2
  <2> QED BY <1>1, <2>1, <2>2, QuietStep
<1> QED BY <1>3, <1>4 DEF Retry, Reassign

LEMMA EndInv ==
  ASSUME IInv, NEW S \in SUBSET Steps, InFlight(step) \subseteq S, NEW end \in TerminalMission, End(S, end),
         UNCHANGED <<mission, room, plan, total, worker, orders, nudges, issued, result, leave, edits, crashes>>,
         sweep' \in {"none", "planning", "running"}
  PROVE  IInv'
<1>0. Types /\ step \in [Steps -> StepRow] BY TypesOf DEF IInv
<1>1. step' = SetAll(step, S, "cancelled") /\ job' = [Idle EXCEPT !.pc = "close", !.end = end] BY DEF End
<1>2. job' \in JobType /\ job'.pc = "close" /\ job'.end = end /\ job'.queue = {} /\ job'.recover = FALSE
  BY <1>1 DEF Idle, Job, JobType
<1>3. "cancelled" \in Statuses /\ "cancelled" \in TerminalStatuses /\ "cancelled" \notin InFlightStatuses
  BY DEF Statuses, TerminalStatuses, InFlightStatuses
<1>4. /\ step' \in [Steps -> StepRow] /\ \A t \in Steps \ S : step'[t] = step[t]
      /\ \A t \in S : /\ step'[t].status = "cancelled" /\ step'[t].visit = step[t].visit
                     
  BY <1>0, <1>1, <1>3, SetAllIs
<1>5. Types' BY <1>0, <1>2, <1>4 DEF Types, JobType
<1>6. ~Sending' BY <1>2 DEF Sending
<1>7. InFlight(step') = {} BY <1>3, <1>4 DEF InFlight
<1>8. JobOK' BY <1>2, <1>6, <1>7 DEF JobOK, QueueOK, Sending
<1>9. ASSUME NEW t \in Steps PROVE Kept(t) BY <1>3, <1>4 DEF Kept
<1>10. \A t \in Steps : Quiet(t) BY <1>6, <1>9, KeptIsQuiet
<1> QED BY <1>2, <1>5, <1>8, <1>10, QuietStep

LEMMA EndsInv ==
  ASSUME IInv, CancelMission \/ (\E end \in {"completed", "failed"} : CompleteMission(end)) \/ FailMission
  PROVE  IInv'
<1>0. Types /\ JobOK BY DEF IInv
<1>1. InFlight(step) \subseteq Unfinished(step) /\ InFlight(step) \subseteq Steps /\ Unfinished(step) \subseteq Steps
  BY DEF InFlight, Unfinished, InFlightStatuses, TerminalStatuses, SatisfyingStatuses
<1>2. {"cancelled", "completed", "failed"} \subseteq TerminalMission BY DEF TerminalMission
<1>3. UNCHANGED <<mission, room, plan, total, worker, orders, nudges, issued, result, leave, edits, crashes>>
      /\ sweep' \in {"none", "planning", "running"}
  BY <1>0 DEF CancelMission, CompleteMission, FailMission, history, Types
<1>4. CASE \E S \in {InFlight(step), Unfinished(step)}, end \in TerminalMission : End(S, end)
  BY <1>1, <1>3, <1>4, EndInv
<1>5. CASE FailMission /\ ~StillStalled
  <2>1. UNCHANGED <<step, job>> /\ job = Idle BY <1>5 DEF FailMission, LockFree
  <2>2. Types' BY <1>0, <1>3, <2>1 DEF Types
  <2>3. JobOK' /\ ~Sending' BY <2>1, IdleIs, PlainJob
  <2> QED BY <1>3, <2>1, <2>2, <2>3, SameRows
<1> QED BY <1>2, <1>4, <1>5 DEF CancelMission, CompleteMission, FailMission

LEMMA PlanInv ==
  ASSUME IInv, SubmitPlan
  PROVE  IInv'
<1>0. Types /\ step \in [Steps -> StepRow] /\ plan < MaxPlans BY TypesOf DEF IInv, SubmitPlan
<1>1. UNCHANGED <<mission, room, plan, total, worker, orders, nudges, sweep, issued, result, leave, edits, crashes>>
      /\ job' = Job("plan", NoStep, {})
  BY DEF SubmitPlan, history
<1>2. job' \in JobType /\ job'.pc = "plan" /\ job'.queue = {} /\ job'.recover = FALSE BY <1>1 DEF Job, JobType
<1>3. ~Sending' /\ JobOK' BY <1>0, <1>1, <1>2 DEF Sending, JobOK, QueueOK
<1> DEFINE new == [Absent EXCEPT !.status = "pending"]
<1>4. new \in StepRow /\ new.status = "pending" /\ new.visit = 0
  BY DEF Absent, StepRow, EmptyToken
<1>5. step' = [s \in Steps |-> IF step[s].status = "none" THEN new ELSE step[s]] BY DEF SubmitPlan
<1> HIDE DEF new
<1>6. step' \in [Steps -> StepRow] BY <1>0, <1>4, <1>5
<1>7. Types' BY <1>0, <1>1, <1>2, <1>6 DEF Types, JobType
<1>8. ASSUME NEW s \in Steps PROVE Quiet(s)
  <2>1. CASE step[s].status = "none"
    <3>1. RowOK(s) BY DEF IInv, RowsOK
    <3>2. step'[s].status = "pending" /\ step'[s].visit = 0 BY <1>4, <1>5, <2>1
    <3> QED BY <1>1, <2>1, <3>1, <3>2 DEF Quiet, RowOK, Waiting, InFlightStatuses
  <2>2. CASE step[s].status # "none"
    <3>1. Kept(s) BY <1>1, <1>5, <2>2 DEF Kept
    <3> QED BY <1>3, <3>1, KeptIsQuiet
  <2> QED BY <2>1, <2>2
<1> QED BY <1>1, <1>2, <1>3, <1>7, <1>8, QuietStep

LEMMA TransitInv ==
  ASSUME IInv, Transit
  PROVE  IInv'
<1>0. Types /\ step \in [Steps -> StepRow] BY TypesOf DEF IInv
<1> DEFINE body == Reentered(job.step)
           back(s) == [step[s] EXCEPT !.status = "pending", !.visit = step[s].visit + 1, !.attempt = 0,
                                      !.verdict = NoVerdict, !.lease = "fresh"]
<1>1. UNCHANGED <<mission, room, plan, total, worker, orders, nudges, sweep, issued, edits, crashes>>
      /\ job' = Job("block", NoStep, {})
  BY DEF Transit
<1>2. /\ step' = [s \in Steps |-> IF s \in body THEN back(s) ELSE step[s]]
      /\ leave' = [s \in Steps |-> IF s \in body THEN "given" ELSE leave[s]]
      /\ result' = [s \in Steps |-> IF s \in body THEN NoOrder ELSE result[s]]
  BY DEF Transit
<1> HIDE DEF body
<1>3. ASSUME NEW s \in Steps PROVE back(s) \in StepRow /\ back(s).status = "pending"
  <2>1. step[s] \in StepRow BY <1>0
  <2>2. step[s].visit + 1 \in Nat BY <2>1 DEF StepRow
  <2> QED BY <2>1, <2>2 DEF StepRow
<1> HIDE DEF back
<1>5. job' \in JobType /\ job'.pc = "block" /\ job'.queue = {} /\ job'.recover = FALSE BY <1>1 DEF Job, JobType
<1>6. ~Sending' /\ JobOK' BY <1>5, PlainJob
<1>7. step' \in [Steps -> StepRow] BY <1>0, <1>2, <1>3
<1>8. leave' \in [Steps -> Leaves] /\ result' \in [Steps -> [token: Nat, visit: Nat]]
  BY <1>0, <1>2, NoOrderIs DEF Types, Leaves
<1>9. Types' BY <1>0, <1>1, <1>5, <1>7, <1>8 DEF Types, JobType, Leaves
<1>10. ASSUME NEW s \in Steps PROVE Quiet(s)
  <2>1. CASE s \in body
    <3>1. SentBack(s) BY <1>2, <1>3, <2>1 DEF SentBack
    <3> QED BY <3>1, SentBackIsQuiet
  <2>2. CASE s \notin body
    <3>1. Kept(s) BY <1>1, <1>2, <2>2 DEF Kept
    <3> QED BY <3>1, KeptIsQuiet
  <2> QED BY <2>1, <2>2
<1> QED BY <1>1, <1>5, <1>6, <1>9, <1>10, QuietStep

LEMMA UnblockInv ==
  ASSUME IInv, Unblock
  PROVE  IInv'
<1>0. Types /\ JobOK /\ step \in [Steps -> StepRow] /\ job \in JobType /\ job.pc = "unblock"
  BY TypesOf DEF IInv, Unblock
<1>1. UNCHANGED <<mission, room, plan, total, worker, orders, nudges, sweep, issued, result, edits, crashes>>
      /\ job' = [job EXCEPT !.pc = IF job.recover THEN "next" ELSE "block"]
      /\ leave' = [s \in Steps |-> IF s \in Restorable /\ leave[s] = "used" THEN "released" ELSE leave[s]]
  BY DEF Unblock, Goto
<1> DEFINE back(s) == [step[s] EXCEPT !.status = "pending", !.auto = FALSE]
<1>2. step' = [s \in Steps |-> IF s \in Restorable THEN back(s) ELSE step[s]] BY DEF Unblock
<1>3. \A s \in Steps : back(s) \in StepRow /\ back(s).status = "pending" /\ back(s).visit = step[s].visit
  BY <1>0 DEF StepRow
<1>4. leave' \in [Steps -> Leaves] /\ \A s \in Steps : leave'[s] = leave[s] \/ s \in Restorable
  BY <1>0, <1>1 DEF Types, Leaves
<1> HIDE DEF back
<1>5. \A s \in Restorable : s \in Steps /\ step[s].status = "blocked"
  BY DEF Restorable, AutoBlocked
<1>6. /\ job' \in JobType /\ job'.queue = job.queue
      /\ job'.pc = (IF job.recover THEN "next" ELSE "block")
  BY <1>0, <1>1 DEF JobType
<1>7. job'.recover = job.recover BY <1>0, <1>1 DEF JobType
<1>8. ~Sending' BY <1>6 DEF Sending
<1>9. JobOK'
  <2>1. CASE job.recover
    <3>1. \A s \in job.queue : s \in InFlight(step) \ Manual /\ job.queue = {s} BY <1>0, <2>1 DEF JobOK, QueueOK
    <3>2. \A s \in job.queue : s \in InFlight(step') BY <1>2, <1>5, <3>1 DEF InFlight, InFlightStatuses
    <3>3. job'.pc = "next" /\ mission' = "running" BY <1>0, <1>1, <1>6, <2>1 DEF JobOK
    <3> QED BY <1>6, <1>7, <1>8, <2>1, <3>1, <3>2, <3>3 DEF JobOK, QueueOK, Sending
  <2>2. CASE ~job.recover
    <3>1. job.queue = {} BY <1>0, <2>2 DEF JobOK, Sending
    <3>2. job'.pc = "block" /\ ~job'.recover BY <1>6, <1>7, <2>2
    <3> QED BY <1>6, <3>1, <3>2 DEF JobOK, QueueOK, Sending
  <2> QED BY <2>1, <2>2
<1>10. step' \in [Steps -> StepRow] BY <1>0, <1>2, <1>3
<1>11. Types' BY <1>0, <1>1, <1>4, <1>6, <1>10 DEF Types, JobType, Leaves
<1>12. ASSUME NEW s \in Steps PROVE Quiet(s)
  <2>1. CASE s \in Restorable
    <3>1. RowOK(s) BY DEF IInv, RowsOK
    <3>2. step'[s].status = "pending" /\ step'[s].visit = step[s].visit BY <1>2, <1>3, <2>1
    <3>3. leave'[s] # "used" BY <1>1, <2>1
    <3> QED BY <1>1, <3>1, <3>2, <3>3 DEF Quiet, RowOK, InFlightStatuses
  <2>2. CASE s \notin Restorable
    <3>1. Kept(s) BY <1>1, <1>2, <1>4, <2>2 DEF Kept
    <3> QED BY <1>8, <3>1, KeptIsQuiet
  <2> QED BY <2>1, <2>2
<1>13. job'.pc # "post" BY <1>6
<1> QED BY <1>1, <1>9, <1>11, <1>12, <1>13, QuietStep

LEMMA BlockInv ==
  ASSUME IInv, Block
  PROVE  IInv'
<1>0. Types /\ JobOK /\ step \in [Steps -> StepRow] /\ job \in JobType /\ job.pc = "block"
  BY TypesOf DEF IInv, Block
<1>1. UNCHANGED <<mission, room, plan, total, worker, orders, nudges, sweep, issued, result, leave, edits, crashes>>
      /\ job' = [job EXCEPT !.pc = "pump"]
  BY DEF Block, Goto, history
<1> DEFINE held(s) == [step[s] EXCEPT !.status = "blocked", !.auto = TRUE]
           S == NewlyBlocked(step)
<1>2. step' = [s \in Steps |-> IF s \in S THEN held(s) ELSE step[s]] BY DEF Block
<1>3. \A s \in Steps : held(s) \in StepRow /\ held(s).status = "blocked" /\ held(s).visit = step[s].visit
  BY <1>0 DEF StepRow, TerminalStatuses
<1> HIDE DEF held, S
<1>5. job' \in JobType /\ job'.queue = job.queue /\ job'.pc = "pump" BY <1>0, <1>1 DEF JobType
<1>6. job'.recover = FALSE
  <2>1. job.recover = FALSE BY <1>0 DEF JobOK, JobType
  <2> QED BY <1>0, <1>1, <2>1 DEF JobType
<1>7. job.queue = {}
  <2>1. ~job.recover BY <1>0 DEF JobOK
  <2> QED BY <1>0, <2>1 DEF JobOK, Sending
<1>8. JobOK' /\ ~Sending' BY <1>5, <1>6, <1>7, PlainJob
<1>9. step' \in [Steps -> StepRow] BY <1>0, <1>2, <1>3
<1>10. Types' BY <1>0, <1>1, <1>5, <1>9 DEF Types, JobType
<1>11. ASSUME NEW s \in Steps PROVE Quiet(s)
  <2>1. CASE s \in S
    <3>1. RowOK(s) BY DEF IInv, RowsOK
    <3>2. step'[s].status = "blocked" /\ step'[s].visit = step[s].visit BY <1>2, <1>3, <2>1
    <3> QED BY <1>1, <3>1, <3>2 DEF Quiet, RowOK, Waiting, InFlightStatuses
  <2>2. CASE s \notin S
    <3>1. Kept(s) BY <1>1, <1>2, <2>2 DEF Kept
    <3> QED BY <1>8, <3>1, KeptIsQuiet
  <2> QED BY <2>1, <2>2
<1> QED BY <1>1, <1>5, <1>8, <1>10, <1>11, QuietStep

-----------------------------------------------------------------------------
(* The pump, short of a work order.                                        *)

LEMMA PumpInv ==
  ASSUME IInv, Pump
  PROVE  IInv'
<1>0. Types BY DEF IInv
<1>1. UNCHANGED <<mission, room, plan, total, step, worker, orders, nudges, sweep, issued, result, leave, edits, crashes>>
  BY DEF Pump, rows, history
<1> DEFINE S == Dispatchable(step)
<1>2. S \in SUBSET Steps /\ \A s \in S : Open(s, step) BY DEF Dispatchable
<1>3. job' = Idle \/ (mission = "running" /\ job' = Job("next", NoStep, S)) BY DEF Pump
<1> HIDE DEF S
<1>4. CASE job' = Idle
  <2>1. Types' BY <1>0, <1>1, <1>4, IdleIs DEF Types, JobType
  <2>2. JobOK' /\ ~Sending' /\ job'.pc = "idle" BY <1>4, IdleIs, PlainJob
  <2> QED BY <1>1, <2>1, <2>2, SameRows
<1>5. CASE mission = "running" /\ job' = Job("next", NoStep, S)
  <2>1. job' \in JobType /\ job'.pc = "next" /\ job'.queue = S /\ job'.recover = FALSE
    BY <1>2, <1>5 DEF Job, JobType
  <2>2. Types' BY <1>0, <1>1, <2>1 DEF Types, JobType
  <2>3. ~Sending' BY <2>1 DEF Sending
  <2>4. JobOK' BY <1>1, <1>2, <1>5, <2>1, <2>3 DEF JobOK, QueueOK
  <2> QED BY <1>1, <2>1, <2>2, <2>3, <2>4, SameRows
<1> QED BY <1>3, <1>4, <1>5

\* The rest of the candidates can be sent whatever became of s.
LEMMA AfterOK ==
  ASSUME IInv, NEW s \in Steps, job' = After(s), mission' = mission, mission = "running",
         (job.pc = "next" /\ s \in job.queue) \/ Sending,
         \A t \in Steps : t # s => step'[t] = step[t]
  PROVE  /\ JobOK' /\ ~Sending' /\ job' \in JobType /\ job'.pc # "post"
<1>0. JobOK /\ job \in JobType BY TypesOf DEF IInv
<1>1. /\ job' \in JobType /\ job'.pc \in {"idle", "next"} /\ job'.recover = FALSE
      /\ job'.queue = job.queue \ {s} /\ (job'.pc = "idle" => job'.queue = {})
  BY <1>0, AfterIs
<1>2. ~Sending' BY <1>1 DEF Sending
<1>3. \A t \in job.queue \ {s} : Open(t, step) BY <1>0 DEF JobOK, QueueOK
<1>4. \A t \in job.queue \ {s} : Open(t, step') BY <1>0, <1>3 DEF Open, JobType
<1> QED BY <1>1, <1>2, <1>4 DEF JobOK, QueueOK, Sending

LEMMA StopInv ==
  ASSUME IInv, NEW s \in Steps, Stop(s)
  PROVE  IInv'
<1>0. Types BY DEF IInv
<1>1. UNCHANGED <<mission, room, plan, total, step, worker, orders, nudges, sweep, issued, result, leave, edits, crashes>>
      /\ job' = Idle
  BY DEF Stop, rows, history
<1>2. Types' BY <1>0, <1>1, IdleIs DEF Types, JobType
<1>3. JobOK' /\ ~Sending' /\ job'.pc = "idle" BY <1>1, IdleIs, PlainJob
<1> QED BY <1>1, <1>2, <1>3, SameRows

LEMMA HoldReadyInv ==
  ASSUME IInv, NEW s \in Steps, HoldReady(s)
  PROVE  IInv'
<1>0. /\ Types /\ JobOK /\ step \in [Steps -> StepRow] /\ job.pc = "next" /\ s \in job.queue /\ ~job.recover
      /\ job' = After(s) /\ step' = Set(step, s, "ready")
  BY TypesOf DEF IInv, HoldReady, IsNext, NoOneToSend
<1>1. UNCHANGED <<mission, room, plan, total, worker, orders, nudges, sweep, issued, result, leave, edits, crashes>>
  BY DEF HoldReady, history
<1>2. Open(s, step) /\ mission = "running" BY <1>0 DEF JobOK, QueueOK
<1>3. /\ step' \in [Steps -> StepRow] /\ \A t \in Steps : t # s => step'[t] = step[t]
      /\ step'[s].status = "ready" /\ step'[s].visit = step[s].visit
  BY <1>0, SetIs DEF Statuses
<1>4. JobOK' /\ ~Sending' /\ job' \in JobType /\ job'.pc # "post" BY <1>0, <1>1, <1>2, <1>3, AfterOK
<1>5. Types' BY <1>0, <1>1, <1>3, <1>4 DEF Types, JobType
<1>6. Quiet(s)
  <2>1. RowOK(s) BY DEF IInv, RowsOK
  <2>2. step[s].status \in Statuses BY <1>0 DEF StepRow, Statuses
  <2>3. step[s].status \in Waiting BY <1>2, <2>2 DEF Waiting, Open, Statuses
  <2> QED BY <1>1, <1>3, <2>1, <2>3 DEF Quiet, RowOK, InFlightStatuses
<1>7. ASSUME NEW t \in Steps, t # s PROVE Quiet(t)
  <2>1. Kept(t) BY <1>1, <1>3, <1>7 DEF Kept
  <2> QED BY <1>4, <2>1, KeptIsQuiet
<1>8. \A t \in Steps : Quiet(t) BY <1>6, <1>7
<1> QED BY <1>1, <1>4, <1>5, <1>8, QuietStep

LEMMA FinalizeInv ==
  ASSUME IInv, NEW s \in Steps, Finalize(s),
         UNCHANGED <<mission, room, plan, total, worker, orders, nudges, sweep, issued, result, leave, edits, crashes>>
  PROVE  IInv'
<1>0. Types /\ step \in [Steps -> StepRow] BY TypesOf DEF IInv
<1> DEFINE old == Set(step, s, GivenUpStatus(s))
           row == [old[s] EXCEPT !.token = EmptyToken]
<1>1. job' = Job("block", NoStep, {}) /\ step' = [old EXCEPT ![s] = row] BY DEF Finalize
<1>2. GivenUpStatus(s) \in Statuses /\ GivenUpStatus(s) \in TerminalStatuses
  BY DEF GivenUpStatus, Statuses, TerminalStatuses
<1>3. /\ old \in [Steps -> StepRow] /\ \A t \in Steps : t # s => old[t] = step[t]
      /\ old[s].status = GivenUpStatus(s) /\ old[s].visit = step[s].visit
  BY <1>0, <1>2, SetIs
<1> HIDE DEF old
<1>4. row \in StepRow /\ row.status = GivenUpStatus(s) /\ row.visit = step[s].visit
  BY <1>3 DEF StepRow, EmptyToken
<1> HIDE DEF row
<1>6. /\ step' \in [Steps -> StepRow] /\ \A t \in Steps : t # s => step'[t] = step[t]
      /\ step'[s].status \in TerminalStatuses /\ step'[s].visit = step[s].visit
  BY <1>1, <1>2, <1>3, <1>4
<1>7. job' \in JobType /\ job'.pc = "block" /\ job'.queue = {} /\ job'.recover = FALSE BY <1>1 DEF Job, JobType
<1>8. JobOK' /\ ~Sending' BY <1>7, PlainJob
<1>9. Types' BY <1>0, <1>6, <1>7 DEF Types, JobType
<1>10. ASSUME NEW t \in Steps PROVE Kept(t) BY <1>6 DEF Kept
<1>11. \A t \in Steps : Quiet(t) BY <1>8, <1>10, KeptIsQuiet
<1> QED BY <1>7, <1>8, <1>9, <1>11, QuietStep

LEMMA FailsInv ==
  ASSUME IInv, NEW s \in Steps, DispatchFails(s), (job.pc = "next" /\ s \in job.queue) \/ Sending,
         UNCHANGED <<mission, room, plan, total, worker, orders, nudges, sweep, issued, result, leave, edits, crashes>>
  PROVE  IInv'
<1>0. Types /\ JobOK /\ step \in [Steps -> StepRow] BY TypesOf DEF IInv
<1>1. CASE job.recover BY <1>1, FinalizeInv DEF DispatchFails
<1>2. CASE ~job.recover
  <2>1. step' = Set(step, s, "failed") /\ job' = After(s) BY <1>2 DEF DispatchFails
  <2>2. "failed" \in Statuses /\ "failed" \in TerminalStatuses BY DEF Statuses, TerminalStatuses
  <2>3. /\ step' \in [Steps -> StepRow] /\ \A t \in Steps : t # s => step'[t] = step[t]
        /\ step'[s].status = "failed" /\ step'[s].visit = step[s].visit
    BY <1>0, <2>1, <2>2, SetIs
  <2>4. mission = "running" BY <1>0 DEF JobOK
  <2>5. JobOK' /\ ~Sending' /\ job' \in JobType /\ job'.pc # "post" BY <2>1, <2>3, <2>4, AfterOK
  <2>6. Types' BY <1>0, <2>3, <2>5 DEF Types, JobType
  <2>7. ASSUME NEW t \in Steps PROVE Kept(t) BY <2>2, <2>3 DEF Kept
  <2>8. \A t \in Steps : Quiet(t) BY <2>5, <2>7, KeptIsQuiet
  <2> QED BY <2>5, <2>6, <2>8, QuietStep
<1> QED BY <1>1, <1>2

LEMMA SendGateInv ==
  ASSUME IInv, NEW s \in Steps, SendGate(s)
  PROVE  IInv'
<1>0. /\ Types /\ JobOK /\ RowOK(s) /\ step \in [Steps -> StepRow] /\ job \in JobType
      /\ job.pc = "next" /\ s \in job.queue /\ s \in Gates
  BY TypesOf DEF IInv, RowsOK, SendGate, IsNext
<1>1. UNCHANGED <<mission, room, plan, total, worker, orders, nudges, sweep, issued, result, leave, edits, crashes>>
  BY DEF SendGate, OpenGate, history
<1>2. mission = "running" BY <1>0 DEF JobOK
<1>3. CASE ~HasBudget
  <2>1. step' = step /\ job' = After(s) BY <1>3 DEF SendGate
  <2>2. JobOK' /\ ~Sending' /\ job' \in JobType /\ job'.pc # "post" BY <1>0, <1>1, <1>2, <2>1, AfterOK
  <2>3. Types' BY <1>0, <1>1, <2>1, <2>2 DEF Types, JobType
  <2> QED BY <1>1, <2>1, <2>2, <2>3, SameRows
<1>4. CASE HasBudget
  <2> DEFINE row == [step[s] EXCEPT !.status = "awaiting_user", !.verdict = NoVerdict,
                                    !.visit = IF step[s].visit = 0 THEN 1 ELSE step[s].visit]
  <2>1. step' = [step EXCEPT ![s] = row] /\ job' = [job EXCEPT !.pc = "count", !.step = s, !.queue = job.queue \ {s}]
    BY <1>4 DEF SendGate, OpenGate, GotoCount
  <2>2. row \in StepRow /\ row.status = "awaiting_user" BY <1>0 DEF StepRow
  <2> HIDE DEF row
  <2>4. /\ step' \in [Steps -> StepRow] /\ \A t \in Steps : t # s => step'[t] = step[t]
        /\ step'[s].status = "awaiting_user"
    BY <1>0, <2>1, <2>2
  <2>5. /\ job' \in JobType /\ job'.pc = "count" /\ job'.step = s /\ job'.queue = job.queue \ {s}
    BY <1>0, <2>1 DEF JobType
  <2>6. job'.recover = job.recover BY <1>0, <2>1 DEF JobType
  <2>7. Types' BY <1>0, <1>1, <2>4, <2>5 DEF Types, JobType
  <2>8. JobOK'
    <3>1. CASE job.recover
      <4>1. job.queue = {s} /\ s \notin Manual BY <1>0, <3>1 DEF JobOK, QueueOK
      <4> QED BY <1>0, <1>1, <1>2, <2>5, <2>6, <3>1, <4>1 DEF JobOK, QueueOK, Sending
    <3>2. CASE ~job.recover
      <4>1. \A t \in job.queue \ {s} : Open(t, step) BY <1>0, <3>2 DEF JobOK, QueueOK
      <4>2. \A t \in job.queue \ {s} : Open(t, step') BY <1>0, <2>4, <4>1 DEF Open, JobType
      <4>3. total' < Budget BY <1>1, <1>4 DEF HasBudget
      <4> QED BY <1>0, <1>1, <1>2, <2>5, <2>6, <3>2, <4>2, <4>3 DEF JobOK, QueueOK, Sending
    <3> QED BY <3>1, <3>2
  <2>9. Quiet(s)
    <3>1. result[s] = NoOrder BY <1>0 DEF RowOK
    <3> QED BY <1>1, <2>4, <3>1 DEF Quiet, Waiting, InFlightStatuses
  <2>10. ASSUME NEW t \in Steps, t # s PROVE Quiet(t)
    <3>1. Kept(t) BY <1>1, <2>4, <2>10 DEF Kept
    <3> QED BY <2>5, <2>10, <3>1, KeptIsQuiet
  <2>11. \A t \in Steps : Quiet(t) BY <2>9, <2>10
  <2> QED BY <1>1, <2>5, <2>7, <2>8, <2>11, QuietStep
<1> QED BY <1>3, <1>4

-----------------------------------------------------------------------------
(* Leases and heartbeats.                                                  *)

LEMMA LeaseIs ==
  ASSUME IInv, NEW s \in Steps, NEW lease \in Leases, step' = [step EXCEPT ![s].lease = lease]
  PROVE  /\ step' \in [Steps -> StepRow]
         /\ \A t \in Steps : /\ step'[t].status = step[t].status /\ step'[t].token = step[t].token
                             /\ step'[t].visit = step[t].visit
<1>0. step \in [Steps -> StepRow] BY TypesOf DEF IInv
<1> DEFINE row == [step[s] EXCEPT !.lease = lease]
<1>1. step' = [step EXCEPT ![s] = row] OBVIOUS
<1>2. row \in StepRow /\ row.status = step[s].status /\ row.token = step[s].token /\ row.visit = step[s].visit
  BY <1>0 DEF StepRow, Leases
<1> HIDE DEF row
<1> QED BY <1>0, <1>1, <1>2

LEMMA SilenceInv ==
  ASSUME IInv, NEW s \in Steps, Silence(s)
  PROVE  IInv'
<1>0. Types /\ JobOK BY DEF IInv
<1>1. UNCHANGED <<mission, room, plan, total, worker, orders, nudges, sweep, job, issued, result, leave, edits, crashes>>
  BY DEF Silence, history
<1>2. PICK lease \in Leases : step' = [step EXCEPT ![s].lease = lease]
  <2>1. step' = [step EXCEPT ![s].lease = IF step[s].lease = "fresh" THEN "silent" ELSE "overdue"] BY DEF Silence
  <2>2. (IF step[s].lease = "fresh" THEN "silent" ELSE "overdue") \in Leases BY DEF Leases
  <2> QED BY <2>1, <2>2
<1>3. /\ step' \in [Steps -> StepRow]
      /\ \A t \in Steps : /\ step'[t].status = step[t].status /\ step'[t].token = step[t].token
                          /\ step'[t].visit = step[t].visit
  BY <1>2, LeaseIs
<1>4. Types' BY <1>0, <1>1, <1>3 DEF Types
<1>5. InFlight(step') = InFlight(step) /\ \A t \in Steps : Open(t, step') <=> Open(t, step)
  BY <1>3 DEF InFlight, Open
<1>6. job.queue \subseteq Steps BY <1>0 DEF Types
<1>7. JobOK' BY <1>0, <1>1, <1>5, <1>6 DEF JobOK, QueueOK, Sending
<1>8. ASSUME NEW t \in Steps PROVE Kept(t) BY <1>1, <1>3 DEF Kept
<1>9. \A t \in Steps : Quiet(t) BY <1>8, KeptIsQuiet
<1> QED BY <1>1, <1>4, <1>7, <1>9, QuietStep

LEMMA ProgressInv ==
  ASSUME IInv, NEW o \in orders, Progress(o)
  PROVE  IInv'
<1>0. Types /\ step \in [Steps -> StepRow] /\ job = Idle BY TypesOf DEF IInv, Progress, LockFree
<1>1. UNCHANGED <<mission, room, plan, total, worker, orders, nudges, sweep, job, issued, result, leave, edits, crashes>>
  BY DEF Progress, history
<1>2. o.step \in Steps /\ step[o.step].status \in InFlightStatuses /\ step' = Set(step, o.step, "running")
  BY DEF Progress, InFlight
<1>3. "running" \in Statuses /\ "running" \in InFlightStatuses BY DEF Statuses, InFlightStatuses
<1>4. /\ step' \in [Steps -> StepRow] /\ \A t \in Steps : t # o.step => step'[t] = step[t]
      /\ step'[o.step].status = "running" /\ step'[o.step].visit = step[o.step].visit
      /\ step'[o.step].token = step[o.step].token
  BY <1>0, <1>2, <1>3, SetIs
<1>5. Types' BY <1>0, <1>1, <1>4 DEF Types
<1>6. JobOK' /\ ~Sending' BY <1>0, <1>1, IdleIs, PlainJob
<1>7. ASSUME NEW t \in Steps PROVE Kept(t) BY <1>1, <1>2, <1>3, <1>4 DEF Kept
<1>8. \A t \in Steps : Quiet(t) BY <1>6, <1>7, KeptIsQuiet
<1> QED BY <1>1, <1>5, <1>6, <1>8, QuietStep

LEMMA ReconcileInv ==
  ASSUME IInv, NEW s \in Steps, Reconcile(s)
  PROVE  IInv'
<1>0. Types /\ job = Idle /\ s \in InFlight(step) /\ mission = "running" BY DEF IInv, Reconcile, LockFree
<1>1. UNCHANGED <<mission, room, plan, total, worker, orders, nudges, sweep, issued, result, leave, edits, crashes>>
  BY DEF Reconcile, history
<1>2. CASE Finalize(s) BY <1>1, <1>2, FinalizeInv
<1>3. ASSUME NEW lease \in Leases, step' = [step EXCEPT ![s].lease = lease],
             job' = Idle \/ (job' = [Job("unblock", NoStep, {s}) EXCEPT !.recover = TRUE] /\ s \notin Manual)
      PROVE  IInv'
  <2>1. /\ step' \in [Steps -> StepRow]
        /\ \A t \in Steps : /\ step'[t].status = step[t].status /\ step'[t].token = step[t].token
                            /\ step'[t].visit = step[t].visit
    BY <1>3, LeaseIs
  <2>2. InFlight(step') = InFlight(step) BY <2>1 DEF InFlight
  <2>3. job' \in JobType /\ ~Sending' /\ JobOK' /\ job'.pc # "post"
    <3>1. CASE job' = Idle BY <3>1, IdleIs, PlainJob
    <3>2. CASE job' = [Job("unblock", NoStep, {s}) EXCEPT !.recover = TRUE] /\ s \notin Manual
      <4>1. job' \in JobType /\ job'.pc = "unblock" /\ job'.queue = {s} BY <3>2 DEF Job, JobType
      <4>2. ~Sending' BY <4>1 DEF Sending
      <4> QED BY <1>0, <1>1, <2>2, <3>2, <4>1, <4>2 DEF JobOK, QueueOK, Sending
    <3> QED BY <1>3, <3>1, <3>2
  <2>4. Types' BY <1>0, <1>1, <2>1, <2>3 DEF Types, JobType
  <2>5. ASSUME NEW t \in Steps PROVE Kept(t) BY <1>1, <2>1 DEF Kept
  <2>6. \A t \in Steps : Quiet(t) BY <2>3, <2>5, KeptIsQuiet
  <2> QED BY <1>1, <2>3, <2>4, <2>6, QuietStep
<1>4. {"noticed", "fresh"} \subseteq Leases BY DEF Leases
<1>5. \/ step' = [step EXCEPT ![s].lease = "noticed"] /\ job' = Idle
      \/ Finalize(s)
      \/ /\ step' = [step EXCEPT ![s].lease = "fresh"] /\ s \notin Manual
         /\ job' = [Job("unblock", NoStep, {s}) EXCEPT !.recover = TRUE]
  BY <1>0 DEF Reconcile, MayRedispatch
<1> QED BY <1>2, <1>3, <1>4, <1>5

-----------------------------------------------------------------------------
(* A work order: the row is stamped, the visit counted, the order posted.  *)

LEMMA StampInv ==
  ASSUME IInv, NEW s \in Steps, SendStep(s), Stamp(s), GotoCount(s)
  PROVE  IInv'
<1>0. /\ Types /\ JobOK /\ RowsOK /\ Capacity /\ OrdersOK
      /\ step \in [Steps -> StepRow] /\ job \in JobType
      /\ job.pc = "next" /\ s \in job.queue /\ s \notin Gates
  BY TypesOf DEF IInv, SendStep, IsNext
<1>1. /\ UNCHANGED <<mission, room, plan, total, worker, orders, nudges, sweep, edits, crashes>>
      /\ leave' = [leave EXCEPT ![s] = "used"]
      /\ job' = [job EXCEPT !.pc = "count", !.step = s, !.queue = job.queue \ {s}]
      /\ issued' = [issued EXCEPT ![s] = issued[s] + 1] /\ result' = [result EXCEPT ![s] = NoOrder]
  BY DEF SendStep, Stamp, GotoCount
<1> DEFINE row == [step[s] EXCEPT !.status = "dispatched", !.attempt = step[s].attempt + 1, !.token = issued[s] + 1,
                     !.visit = IF step[s].visit = 0 THEN 1 ELSE step[s].visit, !.lease = "fresh"]
<1>2. step' = [step EXCEPT ![s] = row] BY DEF Stamp, NewToken
<1>3. issued[s] \in Nat /\ step[s] \in StepRow /\ step[s].attempt \in Nat /\ step[s].visit \in Nat
  BY <1>0 DEF Types, StepRow
<1>4. row \in StepRow /\ row.status = "dispatched" /\ row.token = issued[s] + 1
  <2>1. issued[s] + 1 \in Nat /\ step[s].attempt + 1 \in Nat
        /\ (IF step[s].visit = 0 THEN 1 ELSE step[s].visit) \in Nat
    BY <1>3
  <2> QED BY <1>3, <2>1 DEF StepRow, InFlightStatuses
<1> HIDE DEF row
<1>6. /\ step' \in [Steps -> StepRow] /\ \A t \in Steps : t # s => step'[t] = step[t]
      /\ step'[s].status = "dispatched" /\ step'[s].token = issued[s] + 1
  BY <1>0, <1>2, <1>4
<1>7. leave' \in [Steps -> Leaves] /\ \A t \in Steps : t # s => leave'[t] = leave[t] BY <1>0, <1>1 DEF Types, Leaves
<1>8. job' \in JobType /\ job'.pc = "count" /\ job'.step = s /\ job'.queue = job.queue \ {s}
  BY <1>0, <1>1 DEF JobType
<1>9. job'.recover = job.recover BY <1>0, <1>1 DEF JobType
<1>10. /\ issued' \in [Steps -> Nat] /\ issued'[s] = issued[s] + 1 /\ \A t \in Steps : t # s => issued'[t] = issued[t]
       /\ result' \in [Steps -> [token: Nat, visit: Nat]] /\ result'[s] = NoOrder
       /\ \A t \in Steps : t # s => result'[t] = result[t]
  BY <1>0, <1>1, <1>3, NoOrderIs DEF Types
<1>11. Types' BY <1>0, <1>1, <1>6, <1>7, <1>8, <1>10 DEF Types, JobType, Leaves
<1>12. RowsOK'
  <2>1. RowOK(s)' BY <1>3, <1>6, <1>10 DEF RowOK, Waiting
  <2>2. ASSUME NEW t \in Steps, t # s PROVE RowOK(t)' BY <1>0, <1>6, <1>7, <1>10, <2>2 DEF RowsOK, RowOK
  <2> QED BY <2>1, <2>2 DEF RowsOK
<1>13. OrdersOK'
  <2>1. Cardinality(orders) \in Nat BY <1>0, FS_CardinalityType DEF OrdersOK
  <2> QED BY <1>0, <1>1, <1>8, <2>1 DEF OrdersOK
<1>14. s \in InFlight(step') /\ InFlight(step') = InFlight(step) \cup {s}
  BY <1>6 DEF InFlight, InFlightStatuses
<1>15. mission = "running" /\ (job.recover => job.queue = {s} /\ s \in InFlight(step) /\ s \notin Manual)
  BY <1>0 DEF JobOK, QueueOK
<1>16. JobOK'
  <2>1. CASE job.recover BY <1>1, <1>8, <1>9, <1>14, <1>15, <2>1 DEF JobOK, QueueOK, Sending
  <2>2. CASE ~job.recover
    <3>1. \A t \in job.queue \ {s} : Open(t, step) BY <1>0, <2>2 DEF JobOK, QueueOK
    <3>2. \A t \in job.queue \ {s} : Open(t, step') BY <1>0, <1>6, <3>1 DEF Open, JobType
    <3>3. total' < Budget BY <1>1, <2>2 DEF SendStep, Withheld, HasBudget
    <3> QED BY <1>1, <1>8, <1>9, <1>14, <1>15, <2>2, <3>2, <3>3 DEF JobOK, QueueOK, Sending
  <2> QED BY <2>1, <2>2
<1>17. Capacity'
  <2>1. CASE job.recover
    <3>1. InFlight(step') = InFlight(step) BY <1>14, <1>15, <2>1
    <3> QED BY <1>0, <1>1, <3>1 DEF Capacity
  <2>2. CASE ~job.recover
    <3>1. Cardinality(InFlight(step)) < MaxParallel /\ \A t \in InFlight(step) : worker[t] # worker[s]
      BY <2>2 DEF SendStep, Withheld, HasSlot, NoOneToSend, WorkerFree
    <3>2. IsFiniteSet(InFlight(step)) BY GraphAssumption, FS_Subset DEF InFlight
    <3>3. s \notin InFlight(step) BY <3>1
    <3>4. Cardinality(InFlight(step')) = Cardinality(InFlight(step)) + 1 BY <1>14, <3>2, <3>3, FS_AddElement
    <3>5. Cardinality(InFlight(step)) \in Nat BY <3>2, FS_CardinalityType
    <3>6. Cardinality(InFlight(step')) <= MaxParallel BY <3>1, <3>4, <3>5, Limits
    <3> QED BY <1>0, <1>1, <1>14, <3>1, <3>6 DEF Capacity
  <2> QED BY <2>1, <2>2
<1>18. EndedMeansIdle' BY <1>1, <1>15 DEF EndedMeansIdle, TerminalMission
<1> QED BY <1>11, <1>12, <1>13, <1>16, <1>17, <1>18 DEF IInv

LEMMA AddedAtMostOne ==
  ASSUME NEW S, IsFiniteSet(S), NEW x
  PROVE  /\ IsFiniteSet(S \cup {x}) /\ Cardinality(S \cup {x}) <= Cardinality(S) + 1
         /\ Cardinality(S \cup {x}) \in Nat
<1>1. Cardinality(S) \in Nat BY FS_CardinalityType
<1>2. /\ IsFiniteSet(S \cup {x})
      /\ Cardinality(S \cup {x}) = IF x \in S THEN Cardinality(S) ELSE Cardinality(S) + 1
  BY FS_AddElement
<1> QED BY <1>1, <1>2

LEMMA CountInv ==
  ASSUME IInv, Count
  PROVE  IInv'
<1>0. /\ Types /\ JobOK /\ OrdersOK /\ job \in JobType /\ step \in [Steps -> StepRow] /\ Sending /\ job.pc = "count"
  BY TypesOf DEF IInv, Count, Sending
<1>1. /\ UNCHANGED <<mission, room, plan, step, worker, orders, nudges, sweep, issued, result, leave, edits, crashes>>
      /\ total' = total + 1
  BY DEF Count, CountVisit, history
<1>2. job.step \in Steps /\ mission = "running" BY <1>0 DEF JobOK
<1>3. JobOK' /\ job' \in JobType
  <2>1. CASE job.step \in Gates
    <3>1. job' = After(job.step) BY <2>1 DEF Count
    <3> QED BY <1>0, <1>1, <1>2, <3>1, AfterOK
  <2>2. CASE job.step \notin Gates
    <3>1. job' = [job EXCEPT !.pc = "post"] BY <2>2 DEF Count, Goto
    <3>2. job' \in JobType /\ job'.pc = "post" /\ job'.step = job.step /\ job'.queue = job.queue
      BY <1>0, <3>1 DEF JobType
    <3>3. job'.recover = job.recover BY <1>0, <3>1 DEF JobType
    <3>4. JobOK' BY <1>0, <1>1, <1>2, <2>2, <3>2, <3>3 DEF JobOK, QueueOK, Sending
    <3> QED BY <3>2, <3>4
  <2> QED BY <2>1, <2>2
<1>4. total \in Nat /\ total' \in Nat BY <1>0, <1>1 DEF Types
<1>5. Types' BY <1>0, <1>1, <1>3, <1>4 DEF Types, JobType
<1>6. OrdersOK'
  <2>1. Cardinality(orders) \in Nat BY <1>0, FS_CardinalityType DEF OrdersOK
  <2>2. Cardinality(orders) <= total BY <1>0, <1>4, <2>1 DEF OrdersOK
  <2>3. Cardinality(orders) + (IF job'.pc = "post" THEN 1 ELSE 0) <= total' BY <1>1, <1>4, <2>1, <2>2
  <2> QED BY <1>0, <1>1, <2>3 DEF OrdersOK
<1>7. \A t \in Steps : Kept(t) BY <1>1 DEF Kept
<1>8. \A t \in Steps : Quiet(t) BY <1>7, KeptIsQuiet
<1> QED BY <1>1, <1>3, <1>5, <1>6, <1>8, QuietBase

LEMMA PostInv ==
  ASSUME IInv, Post
  PROVE  IInv'
<1> DEFINE s == job.step
           o == [step |-> s, token |-> step[s].token, visit |-> step[s].visit, attempt |-> issued[s]]
<1>0. /\ Types /\ JobOK /\ OrdersOK /\ RowsOK /\ Capacity /\ EndedMeansIdle
      /\ job \in JobType /\ step \in [Steps -> StepRow] /\ Sending /\ job.pc = "post"
  BY TypesOf DEF IInv, Post, Sending
<1>1. /\ UNCHANGED <<mission, room, plan, total, worker, nudges, sweep, issued, result, leave, edits, crashes>>
  BY DEF Post, history
<1>2. s \in Steps /\ mission = "running" /\ s \notin Gates /\ s \in InFlight(step) BY <1>0 DEF JobOK
<1>3. CASE DispatchFails(s) /\ UNCHANGED orders BY <1>0, <1>1, <1>2, <1>3, FailsInv
<1>4. CASE orders' = orders \cup {o} /\ job' = After(s) /\ UNCHANGED step
  <2>1. JobOK' /\ ~Sending' /\ job' \in JobType /\ job'.pc # "post" BY <1>0, <1>1, <1>2, <1>4, AfterOK
  <2>2. o \in [step: Steps, token: Nat, visit: Nat, attempt: Nat] /\ o.step = s /\ o.token = o.attempt
    <3>1. step[s] \in StepRow /\ issued[s] \in Nat BY <1>0, <1>2 DEF Types
    <3>2. step[s].token = issued[s] BY <1>0, <1>2 DEF RowsOK, RowOK, InFlight
    <3> QED BY <1>2, <3>1, <3>2 DEF StepRow
  <2> HIDE DEF o
  <2>3. Types' BY <1>0, <1>1, <1>4, <2>1, <2>2 DEF Types, JobType
  <2>4. RowsOK' BY <1>0, <1>1, <1>4 DEF RowsOK, RowOK
  <2>5. Cardinality(orders) \in Nat /\ total \in Nat /\ IsFiniteSet(orders)
    BY <1>0, FS_CardinalityType DEF OrdersOK, Types
  <2>6. IsFiniteSet(orders') /\ Cardinality(orders') <= Cardinality(orders) + 1 /\ Cardinality(orders') \in Nat
    BY <1>4, <2>5, AddedAtMostOne
  <2>7. OrdersOK'
    <3>1. Cardinality(orders) + 1 <= total BY <1>0 DEF OrdersOK
    <3>2. Cardinality(orders') + (IF job'.pc = "post" THEN 1 ELSE 0) <= total'
      BY <1>1, <2>1, <2>5, <2>6, <3>1
    <3> QED BY <1>0, <1>2, <1>4, <2>2, <2>6, <3>2 DEF OrdersOK
  <2>8. Capacity' /\ EndedMeansIdle' BY <1>0, <1>1, <1>4 DEF Capacity, EndedMeansIdle
  <2> QED BY <2>1, <2>3, <2>4, <2>7, <2>8 DEF IInv
<1> QED BY <1>3, <1>4 DEF Post

-----------------------------------------------------------------------------
(* The theorems.                                                           *)

LEMMA InitInv == Init => IInv
<1> SUFFICES ASSUME Init PROVE IInv OBVIOUS
<1>1. \A s \in Steps : step[s] = Absent /\ issued[s] = 0 /\ leave[s] = "given" /\ result[s] = NoOrder BY DEF Init
<1>2. /\ Absent \in StepRow /\ Absent.status = "none" /\ Absent.visit = 0
  BY DEF Absent, StepRow, EmptyToken
<1>3. InFlight(step) = {} BY <1>1, <1>2 DEF InFlight, InFlightStatuses
<1>4. job = Idle /\ orders = {} /\ total = 0 /\ mission = "draft" BY DEF Init
<1>5. Types
  <2>1. step \in [Steps -> StepRow] /\ worker \in [Steps -> Workers \cup {NoWorker}]
    BY <1>2, OrchestrationAssumption DEF Init
  <2>2. nudges \in [{"planning", "running"} -> 0..NudgeLimit] /\ plan \in 0..MaxPlans
        /\ edits \in 0..MaxEdits /\ crashes \in 0..MaxCrashes
    BY Limits DEF Init
  <2>3. issued \in [Steps -> Nat] /\ leave \in [Steps -> {"given", "released", "used"}]
        /\ result \in [Steps -> [token: Nat, visit: Nat]]
    BY NoOrderIs DEF Init
  <2> QED BY <1>4, <2>1, <2>2, <2>3, IdleIs DEF Init, Types, JobType
<1>6. RowsOK BY <1>1, <1>2 DEF RowsOK, RowOK, InFlightStatuses
<1>7. IsFiniteSet({}) /\ Cardinality({}) = 0 BY FS_EmptySet
<1>8. OrdersOK BY <1>4, <1>7, IdleIs DEF OrdersOK
<1>9. JobOK /\ ~Sending BY <1>4, IdleIs DEF JobOK, QueueOK, Sending
<1>11. Capacity BY <1>3, <1>7, Limits DEF Capacity
<1>12. EndedMeansIdle BY <1>3 DEF EndedMeansIdle
<1> QED BY <1>5, <1>6, <1>8, <1>9, <1>11, <1>12 DEF IInv

LEMMA SendStepInv ==
  ASSUME IInv, NEW s \in Steps, SendStep(s)
  PROVE  IInv'
<1>1. CASE Stamp(s) /\ GotoCount(s) BY <1>1, StampInv
<1>2. CASE DispatchFails(s) /\ UNCHANGED history
  <2>1. UNCHANGED <<mission, room, plan, total, worker, orders, nudges, sweep, issued, result, leave, edits, crashes>>
    BY <1>2 DEF SendStep, history
  <2>2. job.pc = "next" /\ s \in job.queue BY DEF SendStep, IsNext
  <2> QED BY <1>2, <2>1, <2>2, FailsInv
<1> QED BY <1>1, <1>2 DEF SendStep

LEMMA NextInv == IInv /\ [Next]_vars => IInv'
<1> SUFFICES ASSUME IInv, [Next]_vars PROVE IInv' OBVIOUS
<1>1. CASE Server
  BY <1>1, TransitInv, UnblockInv, BlockInv, PumpInv, SendGateInv, StopInv, HoldReadyInv, SendStepInv, CountInv,
     PostInv, SavePlanInv, CloseInv
  DEF Server, RunnerStep
<1>2. CASE Reaper BY <1>2, ReconcileInv, SweepInv, EndsInv DEF Reaper
<1>3. CASE MemberSteps BY <1>3, ReportInv, ProgressInv DEF MemberSteps
<1>4. CASE UserSteps
  <2>1. PICK s \in Gates, v \in Verdicts : Decide(s, v) BY <1>4 DEF UserSteps
  <2>2. s \in Steps /\ v \in Verdicts \cup {NoVerdict} /\ "done" \in {"done", "failed", "blocked"}
    BY OrchestrationAssumption
  <2> QED BY <2>1, <2>2, OthersReportInv
<1>5. CASE OrchestratorSteps
  <2>1. ASSUME NEW s \in Steps, NEW st \in {"done", "failed", "blocked"}, NEW v \in AskedFor(s),
               OrchestratorReports(s, st, v)
        PROVE  IInv'
    <3>1. v \in Verdicts \cup {NoVerdict} BY AskedForIs
    <3> QED BY <2>1, <3>1, OthersReportInv
  <2>2. ASSUME NEW s \in Steps, (\E st \in {"skipped", "cancelled"} : SkipOrCancel(s, st)) \/ Amend(s) PROVE IInv'
    BY <2>2, SkipInv
  <2>3. ASSUME NEW s \in Steps, Retry(s) \/ \E w \in Workers : Reassign(s, w) PROVE IInv'
    BY <2>3, AgainInv
  <2> QED BY <1>5, <2>1, <2>2, <2>3, PlanInv, EndsInv DEF OrchestratorSteps
<1>6. CASE OperatorSteps BY <1>6, MissionInv, ResumeInv, EndsInv DEF OperatorSteps
<1>7. CASE (\E s \in Steps : Silence(s)) \/ Crash \/ UNCHANGED vars BY <1>7, SilenceInv, CrashInv, SweepInv
<1> QED BY <1>1, <1>2, <1>3, <1>4, <1>5, <1>6, <1>7 DEF Next

\* The inductive invariant of a mission's rows, its work orders and the operation
\* that holds its lock (withMissionLock).
THEOREM Inductive == Spec => []IInv
  BY InitInv, NextInv, PTL DEF Spec

\* For every graph, roster and limits, each row, order and operation of a
\* mission stays in its domain.
THEOREM TypeCorrect == Spec => []Types
<1>1. IInv => Types BY DEF IInv
<1> QED BY <1>1, Inductive, PTL

\* pump and reconcileStaleLease: max_parallel_steps holds for the mission and
\* max_concurrent for each slot, through recoveries, loops, retries,
\* reassignments, reopened missions and crashes.
THEOREM WithinCapacity == Spec => []Capacity
<1>1. IInv => Capacity BY DEF IInv
<1> QED BY <1>1, Inductive, PTL

\* dispatchStep: every work order that is out was counted before it was posted,
\* wherever the server stopped.
THEOREM OrdersCounted == Spec => []OrdersAreCounted
<1>1. IInv => OrdersAreCounted
  <2> SUFFICES ASSUME IInv PROVE Cardinality(orders) <= total BY DEF OrdersAreCounted
  <2>1. Cardinality(orders) \in Nat /\ total \in Nat BY FS_CardinalityType DEF IInv, OrdersOK, Types
  <2> QED BY <2>1 DEF IInv, OrdersOK
<1> QED BY <1>1, Inductive, PTL

\* reportStep and applyGraphTransitions: a result on record belongs to the pass
\* the step is in, however late the reports of earlier passes come.
THEOREM ResultsAreCurrent == Spec => []ResultOfThisPass
<1>1. IInv => ResultOfThisPass BY DEF IInv, RowsOK, RowOK, ResultOfThisPass
<1> QED BY <1>1, Inductive, PTL

\* cancelMission, completeMission, failMissionExternally: a mission that ended
\* has no step in flight.
THEOREM EndedIsIdle == Spec => []EndedMeansIdle
<1>1. IInv => EndedMeansIdle BY DEF IInv
<1> QED BY <1>1, Inductive, PTL
-----------------------------------------------------------------------------
(* What a step may do.                                                     *)

\* Only the runner's count spends a visit.
LEMMA VisitsSpent ==
  ASSUME [Next]_vars, ~Count
  PROVE  total' = total
<1>1. CASE Server
  BY <1>1 DEF Server, RunnerStep, Transit, Unblock, Block, Pump, Post, SendGate, Stop, HoldReady, SendStep,
     SavePlan, CloseMission, rows
<1>2. CASE Reaper BY <1>2 DEF Reaper, Reconcile, Nudge, GiveUp, FailMission, rows
<1>3. CASE MemberSteps \/ UserSteps BY <1>3 DEF MemberSteps, UserSteps, Report, Progress, Decide, Record
<1>4. CASE OrchestratorSteps
  BY <1>4 DEF OrchestratorSteps, SubmitPlan, SkipOrCancel, Reassign, OrchestratorReports, Record, Amend, Retry,
     Edit, CompleteMission
<1>5. CASE OperatorSteps
  BY <1>5 DEF OperatorSteps, Start, PauseMission, ResumeMission, CancelMission, ReopenMission
<1>6. CASE (\E s \in Steps : Silence(s)) \/ Crash \/ UNCHANGED vars BY <1>6 DEF Silence, Crash, vars, rows
<1> QED BY <1>1, <1>2, <1>3, <1>4, <1>5, <1>6 DEF Next

\* Only a report puts a result on record.
LEMMA ResultsRecorded ==
  ASSUME IInv, [Next]_vars,
         ~\E o \in orders, st \in {"done", "failed", "blocked"} : \E v \in AskedFor(o.step) : Report(o, st, v)
  PROVE  \A s \in Steps : result'[s] \in {result[s], NoOrder}
<1>0. result \in [Steps -> [token: Nat, visit: Nat]] BY DEF IInv, Types
<1>1. CASE Server
  <2>1. CASE Transit BY <2>1 DEF Transit
  <2>2. CASE \E s \in Steps : SendGate(s) \/ Stop(s) \/ HoldReady(s) \/ SendStep(s)
    BY <1>0, <2>2 DEF SendGate, OpenGate, Stop, HoldReady, SendStep, Stamp, history
  <2>3. CASE Unblock \/ Block \/ Pump \/ Count \/ Post \/ SavePlan \/ CloseMission
    BY <2>3 DEF Unblock, Block, Pump, Count, Post, SavePlan, CloseMission, history
  <2> QED BY <1>1, <2>1, <2>2, <2>3 DEF Server, RunnerStep
<1>2. CASE Reaper BY <1>2 DEF Reaper, Reconcile, Nudge, GiveUp, FailMission, history
<1>3. CASE MemberSteps BY <1>3 DEF MemberSteps, Progress, history
<1>4. CASE UserSteps BY <1>0, <1>4 DEF UserSteps, Decide, Record
<1>5. CASE OrchestratorSteps
  BY <1>0, <1>5 DEF OrchestratorSteps, SubmitPlan, SkipOrCancel, Reassign, OrchestratorReports, Record, Amend, Retry,
     Again, CompleteMission, history
<1>6. CASE OperatorSteps
  BY <1>6 DEF OperatorSteps, Start, PauseMission, ResumeMission, CancelMission, ReopenMission, history
<1>7. CASE (\E s \in Steps : Silence(s)) \/ Crash \/ UNCHANGED vars BY <1>7 DEF Silence, Crash, vars, history
<1> QED BY <1>1, <1>2, <1>3, <1>4, <1>5, <1>6, <1>7 DEF Next

\* Only a dispatch issues a lease token.
LEMMA TokensIssued ==
  ASSUME [Next]_vars, ~\E s \in Steps : SendStep(s)
  PROVE  issued' = issued
<1>1. CASE Server
  BY <1>1 DEF Server, RunnerStep, Transit, Unblock, Block, Pump, Count, Post, SendGate, OpenGate, Stop, HoldReady,
     SavePlan, CloseMission, history
<1>2. CASE Reaper BY <1>2 DEF Reaper, Reconcile, Nudge, GiveUp, FailMission, history
<1>3. CASE MemberSteps \/ UserSteps BY <1>3 DEF MemberSteps, UserSteps, Report, Progress, Decide, Record, history
<1>4. CASE OrchestratorSteps
  BY <1>4 DEF OrchestratorSteps, SubmitPlan, SkipOrCancel, Reassign, OrchestratorReports, Record, Amend, Retry,
     Edit, CompleteMission, history
<1>5. CASE OperatorSteps
  BY <1>5 DEF OperatorSteps, Start, PauseMission, ResumeMission, CancelMission, ReopenMission, history
<1>6. CASE (\E s \in Steps : Silence(s)) \/ Crash \/ UNCHANGED vars BY <1>6 DEF Silence, Crash, vars, history
<1> QED BY <1>1, <1>2, <1>3, <1>4, <1>5, <1>6 DEF Next

\* retry_policy 'manual': after an attempt of a manual step has started, the next
\* one starts only if somebody has decided so since, a loop has come back to the
\* step, or its automatic block was lifted.
THEOREM ManualStepsRunOnce == Spec => ManualRunsOnce
<1> DEFINE OnlyWithLeave == \A s \in Manual : issued'[s] # issued[s] => leave[s] # "used"
<1>1. ASSUME IInv, [Next]_vars PROVE OnlyWithLeave
  <2> SUFFICES ASSUME NEW s \in Manual, issued'[s] # issued[s] PROVE leave[s] # "used"
    OBVIOUS
  <2>0. /\ Types /\ JobOK /\ RowsOK /\ s \in Steps /\ issued \in [Steps -> Nat] /\ step \in [Steps -> StepRow]
    BY <1>1, OrchestrationAssumption DEF IInv, Types
  <2>1. PICK t \in Steps : SendStep(t) BY <1>1, TokensIssued
  <2>2. issued' = issued \/ issued' = [issued EXCEPT ![t] = issued[t] + 1]
    BY <2>1 DEF SendStep, Stamp, history
  <2>3. s = t BY <2>0, <2>2
  <2>4. job.pc = "next" /\ s \in job.queue BY <2>1, <2>3 DEF SendStep, IsNext
  <2>5. Open(s, step) BY <2>0, <2>4 DEF JobOK, QueueOK
  <2>6. step[s].status \in Statuses BY <2>0 DEF StepRow, Statuses
  <2>7. step[s].status \in Waiting BY <2>5, <2>6 DEF Waiting, Open, Statuses
  <2> QED BY <2>0, <2>7 DEF RowsOK, RowOK
<1> QED BY <1>1, Inductive, PTL DEF Spec, ManualRunsOnce

\* pump and dispatchStep: a visit beyond max_total_visits is spent only by the
\* recovery of a lost lease, however many steps are ready at once.
THEOREM BudgetIsKept == Spec => BudgetKept
<1>1. ASSUME IInv, [Next]_vars PROVE [total' > total /\ ~job.recover => total < Budget]_vars
  <2>1. CASE Count BY <1>1, <2>1 DEF IInv, JobOK, Count
  <2>2. CASE ~Count
    <3>1. total' = total /\ total \in Nat BY <1>1, <2>2, VisitsSpent DEF IInv, Types
    <3> QED BY <3>1
  <2> QED BY <2>1, <2>2
<1> QED BY <1>1, Inductive, PTL DEF Spec, BudgetKept

\* requireFreshLease and the token a dispatch issues: a step in flight takes its
\* result from a report on its newest work order, and from no other.
THEOREM LeaseFences == Spec => Fenced
<1> DEFINE FencedStep ==
      \A s \in InFlight(step) : result'[s] # result[s] /\ result'[s] # NoOrder => result'[s].token = issued[s]
<1>1. ASSUME IInv, [Next]_vars PROVE FencedStep
  <2> SUFFICES ASSUME NEW s \in InFlight(step), result'[s] # result[s], result'[s] # NoOrder
               PROVE  result'[s].token = issued[s]
    OBVIOUS
  <2>0. /\ s \in Steps /\ step[s].token = issued[s] /\ issued[s] \in Nat /\ issued[s] > 0
        /\ result \in [Steps -> [token: Nat, visit: Nat]]
    BY <1>1 DEF InFlight, IInv, RowsOK, RowOK, Types
  <2>1. PICK o \in orders, st \in {"done", "failed", "blocked"} : \E v \in AskedFor(o.step) : Report(o, st, v)
    BY <1>1, <2>0, ResultsRecorded
  <2>2. /\ o.step \in Steps /\ o.token = o.attempt
        /\ FreshLease(o.step, o.token)
        /\ result' = [result EXCEPT ![o.step] = [token |-> o.attempt, visit |-> o.visit]]
    BY <1>1, <2>1 DEF Report, Record, IInv, Types, OrdersOK
  <2>3. o.step = s BY <2>0, <2>2
  <2>4. o.token = issued[s] BY <2>0, <2>2, <2>3 DEF FreshLease, EmptyToken
  <2> QED BY <2>0, <2>2, <2>3, <2>4
<1> QED BY <1>1, Inductive, PTL DEF Spec, Fenced
-----------------------------------------------------------------------------
(* The cap on the passes of a loop.                                        *)

\* Visits of a row that no loop has come back to.
SameVisits(st) == \A s \in Steps : st[s].visit = step[s].visit
NoNewPass == \A s \in Steps : step'[s].visit \in {step[s].visit, 0, 1}

LEMMA SetKeepsVisits ==
  ASSUME Types, NEW s \in Steps, NEW status \in Statuses
  PROVE  SameVisits(Set(step, s, status))
<1> DEFINE st == Set(step, s, status)
<1>1. st[s].visit = step[s].visit /\ \A t \in Steps : t # s => st[t] = step[t] BY TypesOf, SetIs
<1> HIDE DEF st
<1>2. \A t \in Steps : st[t].visit = step[t].visit BY <1>1
<1> QED BY <1>2 DEF SameVisits, st

LEMMA SetAllKeepsVisits ==
  ASSUME Types, NEW S \in SUBSET Steps
  PROVE  SameVisits(SetAll(step, S, "cancelled"))
<1>1. "cancelled" \in Statuses BY DEF Statuses, TerminalStatuses
<1> QED BY <1>1, TypesOf, SetAllIs DEF SameVisits

LEMMA FailsKeepsVisits ==
  ASSUME Types, NEW s \in Steps, DispatchFails(s) \/ Finalize(s)
  PROVE  NoNewPass
<1>1. PICK status \in {"failed", "needs_recovery"} :
        step' = Set(step, s, status) \/ step' = [Set(step, s, status) EXCEPT ![s].token = EmptyToken]
  BY DEF DispatchFails, Finalize, GivenUpStatus
<1>2. status \in Statuses BY DEF Statuses, TerminalStatuses
<1> DEFINE st == Set(step, s, status)
<1>3. st \in [Steps -> StepRow] /\ SameVisits(st) BY <1>2, SetIs, SetKeepsVisits, TypesOf
<1>4. step' = st \/ step' = [st EXCEPT ![s] = [st[s] EXCEPT !.token = EmptyToken]] BY <1>1
<1> HIDE DEF st
<1>5. [st[s] EXCEPT !.token = EmptyToken].visit = st[s].visit BY <1>3 DEF StepRow
<1> QED BY <1>3, <1>4, <1>5 DEF NoNewPass, SameVisits

\* Only a loop takes a step to a pass beyond its first.
LEMMA PassesBegun ==
  ASSUME IInv, [Next]_vars, ~Transit
  PROVE  NoNewPass
<1>0. Types /\ step \in [Steps -> StepRow] /\ JobOK BY TypesOf DEF IInv
<1>1. ASSUME step' = step PROVE NoNewPass BY <1>1 DEF NoNewPass
<1>2. ASSUME NEW s \in Steps, NEW status \in Statuses, step' = Set(step, s, status) PROVE NoNewPass
  BY <1>0, <1>2, SetKeepsVisits DEF NoNewPass, SameVisits
<1>3. CASE Server
  <2>1. CASE Unblock
    <3>1. ASSUME NEW s \in Steps PROVE [step[s] EXCEPT !.status = "pending", !.auto = FALSE].visit = step[s].visit
      BY <1>0 DEF StepRow
    <3> QED BY <2>1, <3>1 DEF Unblock, NoNewPass
  <2>2. CASE Block
    <3>1. ASSUME NEW s \in Steps PROVE [step[s] EXCEPT !.status = "blocked", !.auto = TRUE].visit = step[s].visit
      BY <1>0 DEF StepRow
    <3> QED BY <2>2, <3>1 DEF Block, NoNewPass
  <2>3. ASSUME NEW s \in Steps, SendGate(s) PROVE NoNewPass
    <3>1. CASE OpenGate(s)
      <4> DEFINE row == [step[s] EXCEPT !.status = "awaiting_user", !.verdict = NoVerdict,
                                        !.visit = IF step[s].visit = 0 THEN 1 ELSE step[s].visit]
      <4>1. step' = [step EXCEPT ![s] = row] BY <3>1 DEF OpenGate
      <4>2. row.visit \in {step[s].visit, 1} BY <1>0 DEF StepRow
      <4> HIDE DEF row
      <4> QED BY <1>0, <4>1, <4>2 DEF NoNewPass
    <3> QED BY <1>1, <2>3, <3>1 DEF SendGate
  <2>4. ASSUME NEW s \in Steps, HoldReady(s) PROVE NoNewPass
    BY <1>2, <2>4 DEF HoldReady, Statuses
  <2>5. ASSUME NEW s \in Steps, SendStep(s) PROVE NoNewPass
    <3>1. CASE Stamp(s)
      <4> DEFINE row == [step[s] EXCEPT !.status = "dispatched", !.attempt = step[s].attempt + 1,
                                        !.token = NewToken(s),
                                        !.visit = IF step[s].visit = 0 THEN 1 ELSE step[s].visit, !.lease = "fresh"]
      <4>1. step' = [step EXCEPT ![s] = row] BY <3>1 DEF Stamp
      <4>2. row.visit \in {step[s].visit, 1} BY <1>0 DEF StepRow
      <4> HIDE DEF row
      <4> QED BY <1>0, <4>1, <4>2 DEF NoNewPass
    <3> QED BY <1>0, <2>5, <3>1, FailsKeepsVisits DEF SendStep
  <2>6. CASE Post
    <3>1. job.step \in Steps BY <1>0, <2>6 DEF Post, JobOK, Sending
    <3> QED BY <1>0, <1>1, <2>6, <3>1, FailsKeepsVisits DEF Post
  <2>7. CASE Pump \/ Count \/ SavePlan \/ CloseMission \/ \E s \in Steps : Stop(s)
    BY <1>1, <2>7 DEF Pump, Count, SavePlan, CloseMission, Stop, rows
  <2> QED BY <1>3, <2>1, <2>2, <2>3, <2>4, <2>5, <2>6, <2>7 DEF Server, RunnerStep
<1>4. ASSUME NEW S \in SUBSET Steps, step' = SetAll(step, S, "cancelled") PROVE NoNewPass
  BY <1>0, <1>4, SetAllKeepsVisits DEF NoNewPass, SameVisits
<1>5. InFlight(step) \subseteq Steps /\ Unfinished(step) \subseteq Steps BY DEF InFlight, Unfinished
<1>6. ASSUME NEW s \in Steps, NEW lease, step' = [step EXCEPT ![s].lease = lease] PROVE NoNewPass
  <2>1. step' = [step EXCEPT ![s] = [step[s] EXCEPT !.lease = lease]] BY <1>6
  <2>2. [step[s] EXCEPT !.lease = lease].visit = step[s].visit BY <1>0 DEF StepRow
  <2> QED BY <1>0, <2>1, <2>2 DEF NoNewPass
<1>7. CASE Reaper
  <2>1. ASSUME NEW s \in Steps, Reconcile(s) PROVE NoNewPass
    <3>1. Finalize(s) \/ \E lease \in Leases : step' = [step EXCEPT ![s].lease = lease]
      BY <2>1 DEF Reconcile, Leases
    <3> QED BY <1>0, <1>6, <3>1, FailsKeepsVisits
  <2>2. CASE FailMission BY <1>1, <1>4, <1>5, <2>2 DEF FailMission, End
  <2>3. CASE \E r \in {"planning", "running"} : Nudge(r) \/ GiveUp(r) BY <1>1, <2>3 DEF Nudge, GiveUp, rows
  <2> QED BY <1>7, <2>1, <2>2, <2>3 DEF Reaper
<1>8. ASSUME NEW s \in Steps, NEW status \in {"done", "failed", "blocked"}, NEW v, NEW by, Record(s, status, v, by)
      PROVE  NoNewPass
  <2> DEFINE st == Set(step, s, status)
  <2>1. status \in Statuses BY DEF Statuses, TerminalStatuses, SatisfyingStatuses
  <2>2. st \in [Steps -> StepRow] /\ SameVisits(st) BY <1>0, <2>1, SetIs, SetKeepsVisits
  <2>3. step' = [st EXCEPT ![s] = [st[s] EXCEPT !.verdict = v]] BY <1>8 DEF Record
  <2> HIDE DEF st
  <2>4. [st[s] EXCEPT !.verdict = v].visit = st[s].visit BY <2>2 DEF StepRow
  <2> QED BY <2>2, <2>3, <2>4 DEF NoNewPass, SameVisits
<1>9. \A o \in orders : o.step \in Steps BY <1>0 DEF Types
<1>10. CASE MemberSteps
  <2>1. ASSUME NEW o \in orders, Progress(o) PROVE NoNewPass
    BY <1>2, <1>9, <2>1 DEF Progress, Statuses, InFlightStatuses
  <2> QED BY <1>8, <1>9, <1>10, <2>1 DEF MemberSteps, Report
<1>11. CASE UserSteps
  <2>1. \A s \in Gates : s \in Steps BY OrchestrationAssumption
  <2> QED BY <1>8, <1>11, <2>1 DEF UserSteps, Decide
<1>12. CASE OrchestratorSteps
  <2>1. CASE SubmitPlan
    <3>1. [Absent EXCEPT !.status = "pending"].visit = 0 BY DEF Absent
    <3> QED BY <2>1, <3>1 DEF SubmitPlan, NoNewPass
  <2>2. {"skipped", "cancelled", "pending"} \subseteq Statuses BY DEF Statuses, TerminalStatuses, SatisfyingStatuses
  <2>3. ASSUME NEW s \in Steps, (\E st \in {"skipped", "cancelled"} : SkipOrCancel(s, st)) \/ Amend(s)
        PROVE  NoNewPass
    BY <1>1, <1>2, <2>2, <2>3 DEF SkipOrCancel, Amend
  <2>4. ASSUME NEW s \in Steps, Retry(s) \/ \E w \in Workers : Reassign(s, w) PROVE NoNewPass
    BY <1>1, <1>2, <2>2, <2>4 DEF Retry, Reassign, Again
  <2>5. CASE \E end \in {"completed", "failed"} : CompleteMission(end) BY <1>4, <1>5, <2>5 DEF CompleteMission, End
  <2>6. ASSUME NEW s \in Steps, NEW st \in {"done", "failed", "blocked"}, NEW v \in AskedFor(s),
               OrchestratorReports(s, st, v)
        PROVE  NoNewPass
    BY <1>8, <2>6 DEF OrchestratorReports
  <2> QED BY <1>12, <2>1, <2>3, <2>4, <2>5, <2>6 DEF OrchestratorSteps
<1>13. CASE OperatorSteps
  BY <1>1, <1>4, <1>5, <1>13 DEF OperatorSteps, Start, PauseMission, ResumeMission, CancelMission, ReopenMission, End
<1>14. CASE (\E s \in Steps : Silence(s)) \/ Crash \/ UNCHANGED vars
  <2>1. ASSUME NEW s \in Steps, Silence(s) PROVE NoNewPass
    BY <1>6, <2>1 DEF Silence
  <2> QED BY <1>1, <1>14, <2>1 DEF Crash, vars, rows
<1> QED BY <1>3, <1>7, <1>10, <1>11, <1>12, <1>13, <1>14 DEF Next

\* The passes of an outermost loop stay within the max_visits of its target.
Capped == \A e \in Outermost : step[e.to].visit <= MaxVisits

LEMMA OutermostIs == \A e \in Outermost : e \in Edges /\ e.loop /\ e.to \in Steps
  BY GraphAssumption DEF Outermost, EdgeType

LEMMA TransitCapped ==
  ASSUME IInv, Transit, Capped
  PROVE  Capped'
<1> SUFFICES ASSUME NEW e \in Outermost PROVE step'[e.to].visit <= MaxVisits BY DEF Capped
<1> DEFINE t == e.to
           body == Reentered(job.step)
<1>1. t \in Steps /\ step[t] \in StepRow BY OutermostIs, TypesOf DEF IInv
<1>2. step[t].visit <= MaxVisits BY DEF Capped
<1> DEFINE row == [step[t] EXCEPT !.status = "pending", !.visit = step[t].visit + 1, !.attempt = 0,
                                  !.verdict = NoVerdict, !.lease = "fresh"]
<1>3. step'[t] = IF t \in body THEN row ELSE step[t] BY <1>1 DEF Transit
<1>4. row.visit = step[t].visit + 1 BY <1>1 DEF StepRow
<1>5. t \in body => step[t].visit + 1 <= MaxVisits
  <2> SUFFICES ASSUME t \in body PROVE step[t].visit + 1 <= MaxVisits OBVIOUS
  <2>1. PICK f \in Edges : f.loop /\ t \in LoopBody(f) /\ step[f.to].visit + 1 <= MaxVisits
    <3> DEFINE fired == {f \in FiredLoopBacks(job.step, step) : step[f.to].visit + 1 <= MaxVisits}
               bodies == {LoopBody(f) : f \in fired}
    <3>1. t \in UNION bodies BY DEF Reentered
    <3>2. \A B \in bodies : \E f \in fired : B = LoopBody(f) OBVIOUS
    <3>3. \A f \in fired : f \in Edges /\ f.loop /\ step[f.to].visit + 1 <= MaxVisits BY DEF FiredLoopBacks
    <3> HIDE DEF bodies, fired
    <3> QED BY <3>1, <3>2, <3>3
  <2>2. t = f.to BY <2>1 DEF Outermost
  <2> QED BY <2>1, <2>2
<1> HIDE DEF row, body
<1> QED BY <1>2, <1>3, <1>4, <1>5

\* applyGraphTransitions: in every graph, a loop whose target no loop to another
\* node resets comes back at most max_visits times, whatever lies between the passes.
THEOREM LoopsAreCapped == Spec => []TypeOK
<1>1. Init => Capped
  <2>1. \A e \in Outermost : e.to \in Steps BY OutermostIs
  <2>2. Absent.visit = 0 /\ MaxVisits \in Nat BY OrchestrationAssumption DEF Absent
  <2> QED BY <2>1, <2>2 DEF Init, Capped
<1>2. ASSUME IInv, Capped, [Next]_vars PROVE Capped'
  <2>1. CASE Transit BY <1>2, <2>1, TransitCapped
  <2>2. CASE ~Transit
    <3>1. NoNewPass BY <1>2, <2>2, PassesBegun
    <3>2. \A e \in Outermost : e.to \in Steps BY OutermostIs
    <3>3. MaxVisits \in Nat /\ 1 <= MaxVisits BY OrchestrationAssumption
    <3> SUFFICES ASSUME NEW e \in Outermost PROVE step'[e.to].visit <= MaxVisits BY DEF Capped
    <3>4. step'[e.to].visit \in {step[e.to].visit, 0, 1} /\ step[e.to].visit <= MaxVisits
      BY <1>2, <3>1, <3>2 DEF NoNewPass, Capped
    <3> QED BY <3>3, <3>4
  <2> QED BY <2>1, <2>2
<1>3. IInv /\ Capped => TypeOK BY DEF IInv, Capped, TypeOK
<1> QED BY <1>1, <1>2, <1>3, Inductive, PTL DEF Spec
=============================================================================

------------------------ MODULE TicketQueueProofs ------------------------
(***************************************************************************)
(* Proofs about the ticket queue, for any tickets, agents and processes:   *)
(* the atomic claim starts a queued ticket once, and a single pump keeps   *)
(* the capacity of every agent.                                            *)
(***************************************************************************)
EXTENDS TicketQueue, FiniteSetTheorems, TLAPS

\* Everything a step of SpecBypass may be, and so a step of Spec.
BypassStep == [NextBypass]_vars

-----------------------------------------------------------------------------
(* Types.                                                                  *)

\* The records a worker goes through are worker states.
LEMMA WorkerRecords ==
  ASSUME NEW q \in SUBSET Tickets, NEW k \in [Tickets -> Agents \cup {NoAgent}],
         NEW h \in BOOLEAN, NEW r \in [Agents -> Nat], NEW ts \in SUBSET Tickets,
         NEW s \in {"idle", "count", "loop", "guard", "prepare", "sent"}
  PROVE  At(s, q, k, h, r, ts) \in WorkerState
BY DEF WorkerState, At

\* The resting state of a worker is one.
LEMMA IdleRecord == Idle \in WorkerState /\ NoCounts \in [Agents -> Nat]
<1>1. NoCounts \in [Agents -> Nat] BY DEF NoCounts
<1> QED BY <1>1, WorkerRecords DEF Idle

\* The fields of a worker state are what they should be.
LEMMA WorkerFields ==
  ASSUME NEW r \in WorkerState
  PROVE  /\ r.queue \in SUBSET Tickets /\ r.t \in SUBSET Tickets
         /\ r.who \in [Tickets -> Agents \cup {NoAgent}]
         /\ r.held \in BOOLEAN /\ r.running \in [Agents -> Nat]
         /\ r.at \in {"idle", "count", "loop", "guard", "prepare", "sent"}
BY DEF WorkerState

\* The tickets running for an agent are finitely many.
LEMMA RunningFinite ==
  ASSUME NEW a
  PROVE  IsFiniteSet(Running(a)) /\ Cardinality(Running(a)) \in Nat
<1>1. Running(a) \subseteq Tickets BY DEF Running
<1> QED BY <1>1, FS_Subset, FS_CardinalityType, ConstantsAssumption

\* Initially every variable is in its domain.
LEMMA InitType == Init => TypeOK
<1> SUFFICES ASSUME Init PROVE TypeOK OBVIOUS
<1>1. worker \in [Workers -> WorkerState] BY IdleRecord DEF Init
<1> QED BY <1>1 DEF Init, TypeOK, Status

\* The counts stay counts when a claim is added to them.
LEMMA CountedType ==
  ASSUME NEW r \in [Agents -> Nat], NEW a
  PROVE  /\ Counted(r, a) \in [Agents -> Nat]
         /\ \A b \in Agents : Counted(r, a)[b] = IF b = a THEN r[b] + 1 ELSE r[b]
<1>1. Counted(r, a) = [b \in Agents |-> IF b = a THEN r[b] + 1 ELSE r[b]]
  BY DEF Counted
<1> QED BY <1>1

\* Putting one worker into a proper state leaves all of them in proper states.
LEMMA BecomeType ==
  ASSUME TypeOK, NEW w \in Workers, NEW r \in WorkerState, Become(w, r)
  PROVE  worker' \in [Workers -> WorkerState]
BY DEF TypeOK, Become

\* Pump steps keep every variable in its domain.
LEMMA PumpType ==
  ASSUME TypeOK, NEW p \in Pumps, Pump(p) PROVE TypeOK'
<1>0. p \in Workers /\ worker[p] \in WorkerState BY DEF Workers, TypeOK
<1>1. CASE \E K \in {Agents} \cup {{a} : a \in Agents} : PumpRead(p, K)
  <2>1. PICK K : PumpRead(p, K) BY <1>1
  <2>2. PICK q \in Snapshots(K) : Become(p, At("count", q, assignee, FALSE, NoCounts, {}))
    BY <2>1 DEF PumpRead
  <2>3. q \in SUBSET Tickets BY DEF Snapshots, QueuedFor, Queued
  <2>4. assignee \in [Tickets -> Agents \cup {NoAgent}] BY DEF TypeOK
  <2>5. At("count", q, assignee, FALSE, NoCounts, {}) \in WorkerState
    BY <2>3, <2>4, IdleRecord, WorkerRecords
  <2>6. worker' \in [Workers -> WorkerState] BY <1>0, <2>2, <2>5, BecomeType
  <2> QED BY <2>1, <2>6 DEF PumpRead, rows, world, TypeOK
<1>2. CASE PumpCount(p)
  <2>1. [a \in Agents |-> Cardinality(Running(a))] \in [Agents -> Nat] BY RunningFinite
  <2>2. At("loop", worker[p].queue, worker[p].who, paused,
           [a \in Agents |-> Cardinality(Running(a))], {}) \in WorkerState
    BY <1>0, <2>1, WorkerFields, WorkerRecords DEF TypeOK
  <2>3. worker' \in [Workers -> WorkerState] BY <1>0, <1>2, <2>2, BecomeType DEF PumpCount, RunningCounts
  <2> QED BY <1>2, <2>3 DEF PumpCount, rows, world, TypeOK
<1>3. CASE PumpEnd(p)
  <2>1. worker' \in [Workers -> WorkerState] BY <1>0, <1>3, IdleRecord, BecomeType DEF PumpEnd
  <2> QED BY <1>3, <2>1 DEF PumpEnd, rows, world, TypeOK
<1>4. ASSUME NEW t \in Tickets, PumpSkip(p, t) PROVE TypeOK'
  <2>1. At("loop", worker[p].queue \ {t}, worker[p].who, worker[p].held,
           worker[p].running, {}) \in WorkerState
    BY <1>0, WorkerFields, WorkerRecords
  <2>2. worker' \in [Workers -> WorkerState] BY <1>0, <1>4, <2>1, BecomeType DEF PumpSkip
  <2> QED BY <1>4, <2>2 DEF PumpSkip, rows, world, TypeOK
<1>5. ASSUME NEW t \in Tickets, PumpClaim(p, t) PROVE TypeOK'
  <2>1. worker[p].running \in [Agents -> Nat] BY <1>0, WorkerFields
  <2>2. Counted(worker[p].running, worker[p].who[t]) \in [Agents -> Nat] BY <2>1, CountedType
  <2>3. At("guard", worker[p].queue \ {t}, worker[p].who, worker[p].held,
           Counted(worker[p].running, worker[p].who[t]), {t}) \in WorkerState
    BY <1>0, <2>2, WorkerFields, WorkerRecords
  <2>4. worker' \in [Workers -> WorkerState] BY <1>0, <1>5, <2>3, BecomeType DEF PumpClaim
  <2>5. status' \in [Tickets -> Status] BY <1>5 DEF PumpClaim, Status, TypeOK
  <2>6. starts' \in [Tickets -> Nat] BY <1>5 DEF PumpClaim, TypeOK
  <2> QED BY <1>5, <2>4, <2>5, <2>6 DEF PumpClaim, world, TypeOK
<1> QED BY <1>1, <1>2, <1>3, <1>4, <1>5 DEF Pump, PumpBody

\* dispatch() leaves a worker in a proper state.
LEMMA DispatchType ==
  ASSUME TypeOK, NEW w \in Workers, Dispatch(w) PROVE TypeOK'
<1>0. worker[w] \in WorkerState BY DEF TypeOK
<1>1. (IF w \in Pumps THEN Back(w) ELSE Idle) \in WorkerState
  <2>1. Back(w) \in WorkerState BY <1>0, WorkerFields, WorkerRecords DEF Back
  <2> QED BY <2>1, IdleRecord
<1>2. \A s \in {"prepare", "sent"} : Onward(w, s) \in WorkerState
  BY <1>0, WorkerFields, WorkerRecords DEF Onward
<1>3. worker' \in [Workers -> WorkerState]
  BY <1>1, <1>2, BecomeType DEF Dispatch, DispatchRefused, DispatchPrepare, DispatchFails,
     Emit, DispatchReturns, AfterSend
<1>4. UNCHANGED <<rows, world, starts, edit>>
  BY DEF Dispatch, DispatchRefused, DispatchPrepare, DispatchFails, Emit, DispatchReturns
<1> QED BY <1>3, <1>4 DEF rows, world, TypeOK

\* A call of dispatch() by anyone else leaves the workers in proper states.
LEMMA SendType ==
  ASSUME TypeOK, NEW c \in Callers, NEW t \in Tickets, NEW flags, NEW gone,
         NEW keys \in [Tickets -> Agents], Send(c, t, flags, gone, keys)
  PROVE  worker' \in [Workers -> WorkerState]
<1>1. At("guard", {}, keys, FALSE, NoCounts, {t}) \in WorkerState
  <2>1. keys \in [Tickets -> Agents \cup {NoAgent}] OBVIOUS
  <2> QED BY <2>1, IdleRecord, WorkerRecords
<1>2. c \in Workers BY DEF Workers
<1> QED BY <1>1, <1>2, BecomeType DEF Send, TypeOK

\* Every other step keeps every variable in its domain.
LEMMA WorldType ==
  ASSUME TypeOK,
         \/ \E c \in Callers, t \in Tickets : Resend(c, t)
         \/ \E t \in Tickets : Pend(t) \/ Archive(t) \/ Restore(t) \/ \E s \in Status : Move(t, s)
         \/ Pause
         \/ \E a \in Agents : HostFlips(a)
  PROVE  TypeOK'
<1> USE DEF TypeOK
<1>1. CASE \E c \in Callers, t \in Tickets : Resend(c, t)
  <2>1. PICK c \in Callers, t \in Tickets : Resend(c, t) BY <1>1
  <2>2. Send(c, t, pending, archived, assignee) BY <2>1 DEF Resend
  <2>3. worker' \in [Workers -> WorkerState] BY <2>2, SendType
  <2> QED BY <2>1, <2>3 DEF Resend, rows, world
<1>2. ASSUME NEW t \in Tickets, Pend(t) PROVE TypeOK' BY <1>2 DEF Pend, world
<1>3. ASSUME NEW t \in Tickets, Archive(t) PROVE TypeOK' BY <1>3 DEF Archive, world
<1>4. ASSUME NEW t \in Tickets, Restore(t) PROVE TypeOK' BY <1>4 DEF Restore, world
<1>5. ASSUME NEW t \in Tickets, NEW s \in Status, Move(t, s) PROVE TypeOK'
  <2>1. starts' \in [Tickets -> Nat] BY <1>5 DEF Move
  <2> QED BY <1>5, <2>1 DEF Move, world
<1>6. CASE Pause BY <1>6 DEF Pause, rows
<1>7. ASSUME NEW a \in Agents, HostFlips(a) PROVE TypeOK' BY <1>7 DEF HostFlips, rows
<1> QED BY <1>1, <1>2, <1>3, <1>4, <1>5, <1>6, <1>7

\* So does a step past the queue.
LEMMA BypassType ==
  ASSUME TypeOK, NEW c \in Callers, NEW t \in Tickets,
         UserStart(c, t) \/ Unpend(c, t) \/ \E a \in Agents : Reassign(c, t, a)
  PROVE  TypeOK'
<1> USE DEF TypeOK
<1>1. CASE UserStart(c, t)
  <2>1. Send(c, t, pending, archived, assignee) BY <1>1 DEF UserStart
  <2>2. worker' \in [Workers -> WorkerState] BY <2>1, SendType
  <2> QED BY <1>1, <2>2 DEF UserStart, world, Status
<1>2. CASE Unpend(c, t)
  <2>1. Send(c, t, pending', archived, assignee) BY <1>2 DEF Unpend
  <2>2. worker' \in [Workers -> WorkerState] BY <2>1, SendType
  <2> QED BY <1>2, <2>2 DEF Unpend, world
<1>3. ASSUME NEW a \in Agents, Reassign(c, t, a) PROVE TypeOK'
  <2>1. assignee' \in [Tickets -> Agents] BY <1>3 DEF Reassign
  <2>2. CASE status[t] = "in_progress"
    <3>1. Send(c, t, pending, archived, assignee') BY <1>3, <2>2 DEF Reassign
    <3>2. worker' \in [Workers -> WorkerState] BY <2>1, <3>1, SendType
    <3> QED BY <1>3, <2>1, <3>2 DEF Reassign, world
  <2>3. CASE status[t] # "in_progress"
    BY <1>3, <2>1, <2>3 DEF Reassign, world
  <2> QED BY <2>2, <2>3
<1> QED BY <1>1, <1>2, <1>3

\* And one that changes a single row without sending it.
LEMMA QuietType ==
  ASSUME TypeOK, NEW t \in Tickets, AgentStart(t) \/ Unarchive(t)
  PROVE  TypeOK'
BY DEF TypeOK, AgentStart, Unarchive, world, Status

\* Every step of the bypass specification keeps the types.
LEMMA TypeStep == TypeOK /\ BypassStep => TypeOK'
<1> SUFFICES ASSUME TypeOK, BypassStep PROVE TypeOK' OBVIOUS
<1>1. CASE UNCHANGED vars BY <1>1 DEF TypeOK, vars, rows, world
<1>2. CASE Next BY <1>2, PumpType, DispatchType, WorldType DEF Next
<1>3. CASE \E c \in Callers, t \in Tickets :
             UserStart(c, t) \/ Unpend(c, t) \/ \E a \in Agents : Reassign(c, t, a)
  BY <1>3, BypassType
<1>4. CASE \E t \in Tickets : AgentStart(t) \/ Unarchive(t) BY <1>4, QuietType
<1> QED BY <1>1, <1>2, <1>3, <1>4 DEF BypassStep, NextBypass

\* The rows, the workers and the counts of the queue keep their types under
\* every route into progress, whatever the number of processes.
THEOREM TypeCorrect == SpecBypass => []TypeOK
<1>1. TypeOK /\ [NextBypass]_vars => TypeOK' BY TypeStep DEF BypassStep
<1> QED BY <1>1, InitType, PTL DEF SpecBypass

-----------------------------------------------------------------------------
(* The claim.                                                              *)

\* A ticket in todo has not been claimed since it was put there.
QueuedIsFresh == \A t \in Tickets : status[t] = "todo" => starts[t] = 0

\* No step of any route starts a ticket twice.
LEMMA StartStep ==
  TypeOK /\ QueuedIsFresh /\ StartedOnce /\ BypassStep => (QueuedIsFresh /\ StartedOnce)'
<1> SUFFICES ASSUME TypeOK, QueuedIsFresh, StartedOnce, BypassStep
             PROVE  (QueuedIsFresh /\ StartedOnce)'
  OBVIOUS
<1> USE DEF TypeOK, QueuedIsFresh, StartedOnce
<1>1. CASE UNCHANGED <<status, starts>> BY <1>1
<1>2. ASSUME NEW p \in Pumps, NEW t \in Tickets, PumpClaim(p, t)
      PROVE  (QueuedIsFresh /\ StartedOnce)'
  BY <1>2 DEF PumpClaim, Claims
<1>3. ASSUME NEW t \in Tickets, NEW s \in Status, Move(t, s)
      PROVE  (QueuedIsFresh /\ StartedOnce)'
  BY <1>3 DEF Move
<1>4. ASSUME NEW c \in Callers, NEW t \in Tickets, UserStart(c, t)
      PROVE  (QueuedIsFresh /\ StartedOnce)'
  BY <1>4 DEF UserStart
<1>5. ASSUME NEW p \in Pumps, Pump(p) PROVE (QueuedIsFresh /\ StartedOnce)'
  <2>1. CASE \E K \in {Agents} \cup {{a} : a \in Agents} : PumpRead(p, K)
    BY <1>1, <2>1 DEF PumpRead, rows
  <2>2. CASE PumpCount(p) BY <1>1, <2>2 DEF PumpCount, rows
  <2>3. CASE PumpEnd(p) BY <1>1, <2>3 DEF PumpEnd, rows
  <2>4. CASE \E t \in Tickets : PumpSkip(p, t) BY <1>1, <2>4 DEF PumpSkip, rows
  <2>5. CASE \E t \in Tickets : PumpClaim(p, t) BY <1>2, <2>5
  <2> QED BY <1>5, <2>1, <2>2, <2>3, <2>4, <2>5 DEF Pump, PumpBody
<1>6. ASSUME NEW w \in Workers, Dispatch(w) PROVE UNCHANGED <<status, starts>>
  BY <1>6 DEF Dispatch, DispatchRefused, DispatchPrepare, DispatchFails, Emit,
              DispatchReturns, rows
<1>7. CASE Next
  <2>1. CASE \E p \in Pumps : Pump(p) BY <1>5, <2>1
  <2>2. CASE \E w \in Workers : Dispatch(w) BY <1>1, <1>6, <2>2
  <2>3. CASE \E c \in Callers, t \in Tickets : Resend(c, t) BY <1>1, <2>3 DEF Resend, rows
  <2>4. CASE \E t \in Tickets : Pend(t) \/ Archive(t) \/ Restore(t)
    BY <1>1, <2>4 DEF Pend, Archive, Restore
  <2>5. CASE \E t \in Tickets, s \in Status : Move(t, s) BY <1>3, <2>5
  <2>6. CASE Pause BY <1>1, <2>6 DEF Pause, rows
  <2>7. CASE \E a \in Agents : HostFlips(a) BY <1>1, <2>7 DEF HostFlips, rows
  <2> QED BY <1>7, <2>1, <2>2, <2>3, <2>4, <2>5, <2>6, <2>7 DEF Next
<1>8. CASE \E c \in Callers, t \in Tickets :
             Unpend(c, t) \/ \E a \in Agents : Reassign(c, t, a)
  BY <1>1, <1>8 DEF Unpend, Reassign
<1>9. CASE UNCHANGED vars BY <1>1, <1>9 DEF vars, rows
<1>10. ASSUME NEW t \in Tickets, AgentStart(t) PROVE (QueuedIsFresh /\ StartedOnce)'
  BY <1>10 DEF AgentStart
<1>11. ASSUME NEW t \in Tickets, Unarchive(t) PROVE (QueuedIsFresh /\ StartedOnce)'
  BY <1>1, <1>11 DEF Unarchive
<1> QED BY <1>4, <1>7, <1>8, <1>9, <1>10, <1>11 DEF BypassStep, NextBypass

\* The conditional update of pump(): with any number of server processes, and
\* with users and agents starting, restoring and reassigning tickets past the
\* queue, a ticket put into todo is claimed at most once.
THEOREM ClaimIsAtomic == SpecBypass => []StartedOnce
<1>1. Init => TypeOK /\ QueuedIsFresh /\ StartedOnce
  <2>1. Init => QueuedIsFresh /\ StartedOnce BY DEF Init, QueuedIsFresh, StartedOnce
  <2> QED BY <2>1, InitType
<1>2. TypeOK /\ QueuedIsFresh /\ StartedOnce /\ [NextBypass]_vars
        => (TypeOK /\ QueuedIsFresh /\ StartedOnce)'
  BY TypeStep, StartStep DEF BypassStep
<1> QED BY <1>1, <1>2, PTL DEF SpecBypass

-----------------------------------------------------------------------------
(* Capacity.                                                               *)

Counting == {"loop", "guard", "prepare", "sent"}

\* A step that starts nothing and leaves the counts of the pumps alone.
LEMMA Releases ==
  ASSUME TypeOK, TypeOK', Capacity, CountsAreSafe,
         \A a \in Agents : Running(a)' \subseteq Running(a),
         \A p \in Pumps : worker'[p].at \in Counting =>
            worker[p].at \in Counting /\ worker'[p].running = worker[p].running
  PROVE  (Capacity /\ CountsAreSafe)'
<1>1. \A a \in Agents : /\ Cardinality(Running(a)') <= Cardinality(Running(a))
                        /\ Cardinality(Running(a)) \in Nat
                        /\ Cardinality(Running(a)') \in Nat
  <2> TAKE a \in Agents
  <2>1. IsFiniteSet(Running(a)) /\ Cardinality(Running(a)) \in Nat BY RunningFinite
  <2>2. Running(a)' \subseteq Running(a) OBVIOUS
  <2> QED BY <2>1, <2>2, FS_Subset, FS_CardinalityType
<1>2. Capacity'
  <2>1. Cap \in Nat BY ConstantsAssumption
  <2> QED BY <1>1, <2>1 DEF Capacity
<1>3. ASSUME NEW p \in Pumps, worker'[p].at \in Counting, NEW a \in Agents
      PROVE  Cardinality(Running(a)') <= worker'[p].running[a]
  <2>1. worker[p].at \in Counting /\ worker'[p].running = worker[p].running BY <1>3
  <2>2. Cardinality(Running(a)) <= worker[p].running[a] BY <1>3, <2>1 DEF CountsAreSafe, Counting
  <2>3. worker[p].running[a] \in Nat BY <1>3 DEF TypeOK, WorkerState, Workers
  <2> QED BY <1>1, <1>3, <2>1, <2>2, <2>3
<1>4. CountsAreSafe' BY <1>3 DEF CountsAreSafe, Counting
<1> QED BY <1>2, <1>4

\* The assignees a pump has read are still right: under Spec nobody reassigns.
WhoIsCurrent == \A p \in Pumps : worker[p].at # "idle" => worker[p].who = assignee

CountInv == TypeOK /\ WhoIsCurrent /\ Capacity /\ CountsAreSafe

\* A step that leaves the rows alone leaves what is running alone.
LEMMA SameRows ==
  ASSUME UNCHANGED rows PROVE \A a \in Agents : Running(a)' = Running(a)
BY DEF rows, Running

\* The steps of the pump, when it is the only one.
LEMMA PumpCapacity ==
  ASSUME CountInv, TypeOK', \A p, q \in Pumps : p = q, NEW p \in Pumps, Pump(p)
  PROVE  (WhoIsCurrent /\ Capacity /\ CountsAreSafe)'
<1> USE DEF CountInv
<1>0. p \in Workers /\ worker[p] \in WorkerState /\ \A q \in Pumps : q = p
  BY DEF Workers, TypeOK
<1>a. ASSUME NEW r \in WorkerState, Become(p, r), UNCHANGED rows,
             r.at \in Counting => worker[p].at \in Counting /\ r.running = worker[p].running,
             r.at # "idle" => r.who = assignee
      PROVE  (WhoIsCurrent /\ Capacity /\ CountsAreSafe)'
  <2>1. worker'[p] = r BY <1>0, <1>a DEF Become, TypeOK
  <2>2. WhoIsCurrent' BY <1>0, <1>a, <2>1 DEF WhoIsCurrent, rows
  <2>3. \A a \in Agents : Running(a)' \subseteq Running(a) BY <1>a, SameRows
  <2>4. \A q \in Pumps : worker'[q].at \in Counting =>
           worker[q].at \in Counting /\ worker'[q].running = worker[q].running
    BY <1>0, <1>a, <2>1
  <2> QED BY <2>2, <2>3, <2>4, Releases
<1>1. CASE \E K \in {Agents} \cup {{a} : a \in Agents} : PumpRead(p, K)
  <2>1. PICK K : PumpRead(p, K) BY <1>1
  <2>2. PICK q \in Snapshots(K) : Become(p, At("count", q, assignee, FALSE, NoCounts, {}))
    BY <2>1 DEF PumpRead
  <2>3. q \in SUBSET Tickets BY DEF Snapshots, QueuedFor, Queued
  <2>4. At("count", q, assignee, FALSE, NoCounts, {}) \in WorkerState
    BY <2>3, IdleRecord, WorkerRecords DEF TypeOK
  <2>5. At("count", q, assignee, FALSE, NoCounts, {}).at = "count"
        /\ At("count", q, assignee, FALSE, NoCounts, {}).who = assignee
    BY DEF At
  <2> QED BY <1>a, <2>1, <2>2, <2>4, <2>5 DEF PumpRead, Counting
<1>2. CASE PumpCount(p)
  <2> DEFINE n == [a \in Agents |-> Cardinality(Running(a))]
             r == At("loop", worker[p].queue, worker[p].who, paused, n, {})
  <2>1. n \in [Agents -> Nat] BY RunningFinite
  <2>2. r.at = "loop" /\ r.who = worker[p].who /\ r.running = n BY DEF At
  <2>3. worker'[p] = r BY <1>0, <1>2 DEF PumpCount, RunningCounts, Become, TypeOK
  <2>4. UNCHANGED rows BY <1>2 DEF PumpCount
  <2>5. worker[p].who = assignee BY <1>2 DEF PumpCount, WhoIsCurrent
  <2>6. WhoIsCurrent' BY <1>0, <2>2, <2>3, <2>4, <2>5 DEF WhoIsCurrent, rows
  <2>7. Capacity' BY <2>4, SameRows DEF Capacity
  <2>8. \A a \in Agents : Cardinality(Running(a)') <= n[a]
    BY <2>4, SameRows, RunningFinite
  <2>9. CountsAreSafe' BY <1>0, <2>2, <2>3, <2>8 DEF CountsAreSafe
  <2> QED BY <2>6, <2>7, <2>9
<1>3. CASE PumpEnd(p)
  BY <1>3, <1>a, IdleRecord DEF PumpEnd, Idle, At, Counting
<1>4. ASSUME NEW t \in Tickets, PumpSkip(p, t)
      PROVE  (WhoIsCurrent /\ Capacity /\ CountsAreSafe)'
  <2> DEFINE r == At("loop", worker[p].queue \ {t}, worker[p].who, worker[p].held,
                     worker[p].running, {})
  <2>1. r \in WorkerState BY <1>0, WorkerFields, WorkerRecords
  <2>2. r.at = "loop" /\ r.who = worker[p].who /\ r.running = worker[p].running BY DEF At
  <2>3. worker[p].at = "loop" /\ Become(p, r) /\ UNCHANGED rows BY <1>4 DEF PumpSkip, InTurn
  <2>4. worker[p].who = assignee BY <2>3 DEF WhoIsCurrent
  <2> HIDE DEF r
  <2> QED BY <1>a, <2>1, <2>2, <2>3, <2>4 DEF Counting
<1>5. ASSUME NEW t \in Tickets, PumpClaim(p, t)
      PROVE  (WhoIsCurrent /\ Capacity /\ CountsAreSafe)'
  <2>1. worker[p].at = "loop" BY <1>5 DEF PumpClaim, InTurn
  <2>2. PICK b \in Agents : b = worker[p].who[t] /\ b = assignee[t]
    BY <2>1 DEF WhoIsCurrent, TypeOK
  <2> DEFINE r == At("guard", worker[p].queue \ {t}, worker[p].who, worker[p].held,
                     Counted(worker[p].running, worker[p].who[t]), {t})
  <2>4. worker[p].running \in [Agents -> Nat] BY <1>0, WorkerFields
  <2>5. worker[p].running[b] < Cap BY <1>5, <2>2 DEF PumpClaim, Eligible, HasRoom
  <2>6. \A a \in Agents : Cardinality(Running(a)) <= worker[p].running[a]
    BY <2>1 DEF CountsAreSafe
  <2>7. r.at = "guard" /\ r.who = worker[p].who /\ r.running = Counted(worker[p].running, b)
    BY <2>2 DEF At
  <2>8. worker'[p] = r BY <1>0, <1>5 DEF PumpClaim, Become, TypeOK
  <2> HIDE DEF r
  <2>9. \A a \in Agents : a # b => Running(a)' \subseteq Running(a)
    BY <1>5, <2>2 DEF PumpClaim, Running, TypeOK
  <2>10. Running(b)' \subseteq Running(b) \cup {t}
    BY <1>5, <2>2 DEF PumpClaim, Running, TypeOK
  <2>11. \A a \in Agents : Cardinality(Running(a)') <= r.running[a]
    <3> TAKE a \in Agents
    <3>1. IsFiniteSet(Running(a)) /\ Cardinality(Running(a)) \in Nat BY RunningFinite
    <3>2. worker[p].running[a] \in Nat BY <2>4
    <3>3. r.running[a] = IF a = b THEN worker[p].running[a] + 1 ELSE worker[p].running[a]
      BY <2>4, <2>7, CountedType
    <3>4. CASE a # b
      <4>1. Cardinality(Running(a)') <= Cardinality(Running(a))
            /\ Cardinality(Running(a)') \in Nat
        BY <2>9, <3>1, <3>4, FS_Subset, FS_CardinalityType
      <4> QED BY <2>6, <3>1, <3>2, <3>3, <3>4, <4>1
    <3>5. CASE a = b
      <4>1. IsFiniteSet(Running(a) \cup {t})
            /\ Cardinality(Running(a) \cup {t}) <= Cardinality(Running(a)) + 1
            /\ Cardinality(Running(a) \cup {t}) \in Nat
        <5>1. /\ IsFiniteSet(Running(a) \cup {t})
              /\ Cardinality(Running(a) \cup {t}) =
                   IF t \in Running(a) THEN Cardinality(Running(a)) ELSE Cardinality(Running(a)) + 1
          BY <3>1, FS_AddElement
        <5> QED BY <3>1, <5>1
      <4>2. Cardinality(Running(a)') <= Cardinality(Running(a) \cup {t})
            /\ Cardinality(Running(a)') \in Nat
        BY <2>10, <3>5, <4>1, FS_Subset, FS_CardinalityType
      <4> QED BY <2>6, <3>1, <3>2, <3>3, <3>5, <4>1, <4>2
    <3> QED BY <3>4, <3>5
  <2>12. CountsAreSafe' BY <1>0, <2>8, <2>11 DEF CountsAreSafe
  <2>13. Capacity'
    <3> SUFFICES ASSUME NEW a \in Agents PROVE Cardinality(Running(a)') <= Cap
      BY DEF Capacity
    <3>1. IsFiniteSet(Running(a)) /\ Cardinality(Running(a)) \in Nat BY RunningFinite
    <3>2. Cap \in Nat BY ConstantsAssumption
    <3>3. CASE a # b
      <4>1. Cardinality(Running(a)') <= Cardinality(Running(a))
            /\ Cardinality(Running(a)') \in Nat
        BY <2>9, <3>1, <3>3, FS_Subset, FS_CardinalityType
      <4>2. Cardinality(Running(a)) <= Cap BY DEF Capacity
      <4> QED BY <3>1, <3>2, <4>1, <4>2
    <3>4. CASE a = b
      <4>1. r.running[a] = worker[p].running[a] + 1 BY <2>4, <2>7, <3>4, CountedType
      <4>2. worker[p].running[a] \in Nat BY <2>4
      <4>3. r.running[a] <= Cap /\ r.running[a] \in Nat BY <2>5, <3>2, <3>4, <4>1, <4>2
      <4>4. IsFiniteSet(Running(a) \cup {t}) BY <3>1, FS_AddElement
      <4>5. Cardinality(Running(a)') \in Nat
        BY <2>10, <3>4, <4>4, FS_Subset, FS_CardinalityType
      <4>6. Cardinality(Running(a)') <= r.running[a] BY <2>11
      <4> QED BY <3>2, <4>3, <4>5, <4>6
    <3> QED BY <3>3, <3>4
  <2>14. WhoIsCurrent'
    <3>1. assignee' = assignee BY <1>5 DEF PumpClaim
    <3>2. worker[p].who = assignee BY <2>1 DEF WhoIsCurrent
    <3> QED BY <1>0, <2>7, <2>8, <3>1, <3>2 DEF WhoIsCurrent
  <2> QED BY <2>12, <2>13, <2>14
<1> QED BY <1>1, <1>2, <1>3, <1>4, <1>5 DEF Pump, PumpBody

\* Nothing else the queue's environment does can start a ticket.
LEMMA OthersCapacity ==
  ASSUME CountInv, TypeOK',
         \/ \E w \in Workers : Dispatch(w)
         \/ \E c \in Callers, t \in Tickets : Resend(c, t)
         \/ \E t \in Tickets : Pend(t) \/ Archive(t) \/ Restore(t) \/ \E s \in Status : Move(t, s)
         \/ Pause
         \/ \E a \in Agents : HostFlips(a)
         \/ UNCHANGED vars
  PROVE  (WhoIsCurrent /\ Capacity /\ CountsAreSafe)'
<1> USE DEF CountInv
<1>a. ASSUME UNCHANGED assignee, \A a \in Agents : Running(a)' \subseteq Running(a),
             \A p \in Pumps : \/ worker'[p] = worker[p]
                             \/ /\ worker[p].at \in Counting
                                /\ worker'[p].running = worker[p].running
                                /\ worker'[p].who = worker[p].who
      PROVE  (WhoIsCurrent /\ Capacity /\ CountsAreSafe)'
  <2>1. WhoIsCurrent' BY <1>a DEF WhoIsCurrent, Counting
  <2> QED BY <1>a, <2>1, Releases
<1>1. ASSUME NEW w \in Workers, Dispatch(w)
      PROVE  (WhoIsCurrent /\ Capacity /\ CountsAreSafe)'
  <2>1. UNCHANGED rows
    BY <1>1 DEF Dispatch, DispatchRefused, DispatchPrepare, DispatchFails, Emit, DispatchReturns
  <2>2. worker[w].at \in Counting
    BY <1>1 DEF Dispatch, DispatchRefused, DispatchPrepare, DispatchFails, Emit,
                DispatchReturns, Counting
  <2>3. PICK r : /\ Become(w, r)
                 /\ w \in Pumps => r.running = worker[w].running /\ r.who = worker[w].who
    <3>1. \A s : Onward(w, s).running = worker[w].running /\ Onward(w, s).who = worker[w].who
      BY DEF Onward, At
    <3>2. Back(w).running = worker[w].running /\ Back(w).who = worker[w].who BY DEF Back, At
    <3>3. CASE DispatchPrepare(w) BY <3>1, <3>3 DEF DispatchPrepare
    <3>4. CASE Emit(w) BY <3>1, <3>4 DEF Emit
    <3>5. CASE AfterSend(w) BY <3>2, <3>5 DEF AfterSend
    <3> QED BY <1>1, <3>3, <3>4, <3>5 DEF Dispatch, DispatchRefused, DispatchFails, DispatchReturns
  <2>4. worker' = [worker EXCEPT ![w] = r] BY <2>3 DEF Become
  <2>5. \A p \in Pumps : p \in Workers BY DEF Workers
  <2>6. \A p \in Pumps : \/ worker'[p] = worker[p]
                          \/ /\ worker[p].at \in Counting
                             /\ worker'[p].running = worker[p].running
                             /\ worker'[p].who = worker[p].who
    BY <2>2, <2>3, <2>4, <2>5 DEF TypeOK
  <2>7. UNCHANGED assignee BY <2>1 DEF rows
  <2>8. \A a \in Agents : Running(a)' \subseteq Running(a) BY <2>1, SameRows
  <2> QED BY <1>a, <2>6, <2>7, <2>8
<1>2. ASSUME NEW c \in Callers, NEW t \in Tickets, Resend(c, t)
      PROVE  (WhoIsCurrent /\ Capacity /\ CountsAreSafe)'
  <2>1. UNCHANGED rows BY <1>2 DEF Resend
  <2>2. \A p \in Pumps : p # c BY ConstantsAssumption
  <2>3. \A p \in Pumps : worker'[p] = worker[p]
    BY <1>2, <2>2 DEF Resend, Send, Become, TypeOK, Workers
  <2>4. UNCHANGED assignee BY <2>1 DEF rows
  <2>5. \A a \in Agents : Running(a)' \subseteq Running(a) BY <2>1, SameRows
  <2> QED BY <1>a, <2>3, <2>4, <2>5
<1>3. ASSUME NEW t \in Tickets, Pend(t) \/ Archive(t) \/ Restore(t) \/ \E s \in Status : Move(t, s)
      PROVE  (WhoIsCurrent /\ Capacity /\ CountsAreSafe)'
  <2>1. UNCHANGED <<worker, assignee>> BY <1>3 DEF Pend, Archive, Restore, Move
  <2>2. \A a \in Agents : Running(a)' \subseteq Running(a)
    <3>1. CASE Pend(t) BY <3>1 DEF Pend, Running
    <3>2. CASE Archive(t) BY <3>2 DEF Archive, Running
    <3>3. CASE Restore(t) BY <3>3 DEF Restore, Running
    <3>4. ASSUME NEW s \in Status, Move(t, s)
          PROVE  \A a \in Agents : Running(a)' \subseteq Running(a)
      BY <3>4 DEF Move, Running, TypeOK
    <3> QED BY <1>3, <3>1, <3>2, <3>3, <3>4
  <2> QED BY <1>a, <2>1, <2>2
<1>4. CASE UNCHANGED <<rows, worker>>
  <2>1. \A a \in Agents : Running(a)' \subseteq Running(a) BY <1>4, SameRows
  <2> QED BY <1>a, <1>4, <2>1 DEF rows
<1> QED BY <1>1, <1>2, <1>3, <1>4 DEF Pause, HostFlips, vars

\* pump() and runningCounts: with one server process, whatever people do to
\* queued or running tickets short of starting or reassigning them themselves
\* or restoring one that was parked in progress, no agent identity ever has more
\* than its cap of running tickets.
THEOREM CapacityKept ==
  ASSUME \A p, q \in Pumps : p = q
  PROVE  Spec => [](Capacity /\ CountsAreSafe)
<1>1. Init => CountInv
  <2> SUFFICES ASSUME Init PROVE CountInv OBVIOUS
  <2>1. TypeOK BY InitType
  <2>2. \A p \in Pumps : worker[p].at = "idle" BY DEF Init, Workers, Idle, At
  <2>3. \A a \in Agents : Running(a) = {} BY DEF Init, Running
  <2>4. Cap \in Nat BY ConstantsAssumption
  <2>5. Capacity BY <2>3, <2>4, FS_EmptySet DEF Capacity
  <2> QED BY <2>1, <2>2, <2>5 DEF CountInv, WhoIsCurrent, CountsAreSafe
<1>2. CountInv /\ [Next]_vars => CountInv'
  <2> SUFFICES ASSUME CountInv, [Next]_vars PROVE CountInv' OBVIOUS
  <2>1. TypeOK' BY TypeStep DEF CountInv, BypassStep, NextBypass
  <2>2. CASE \E p \in Pumps : Pump(p) BY <2>1, <2>2, PumpCapacity DEF CountInv
  <2>3. CASE ~ \E p \in Pumps : Pump(p) BY <2>1, <2>3, OthersCapacity DEF CountInv, Next
  <2> QED BY <2>2, <2>3
<1>3. CountInv => Capacity /\ CountsAreSafe BY DEF CountInv
<1> QED BY <1>1, <1>2, <1>3, PTL DEF Spec
=============================================================================

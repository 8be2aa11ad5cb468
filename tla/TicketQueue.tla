---------------------------- MODULE TicketQueue ----------------------------
(***************************************************************************)
(* The queue half of TicketDispatchService: pump() takes a snapshot of the *)
(* todo tickets, claims those whose agent has capacity and dispatches      *)
(* them; the other callers of dispatch() re-send tickets in progress.      *)
(* Around them, what TicketService and the controllers do to the rows.     *)
(*                                                                         *)
(* A worker is a pump of one server process (its pumpChain runs one pump   *)
(* at a time) or one other call of dispatch().  Each await between a read  *)
(* and the write that relies on it separates two actions.                  *)
(***************************************************************************)
EXTENDS Integers, FiniteSets

CONSTANTS Tickets,      \* numbered in queue order: priority, position, created_at
          Agents, NoAgent,
          Pumps,        \* server processes
          Callers,      \* other dispatch() calls that may overlap
          Cap,          \* account.max_concurrent_tickets_per_agent
          Take          \* rows pump() reads at most (500 in the code)

ASSUME ConstantsAssumption ==
  /\ Cap \in Nat \ {0} /\ Take \in Nat \ {0}
  /\ NoAgent \notin Agents /\ Pumps \cap Callers = {}
  /\ IsFiniteSet(Tickets) /\ Tickets \subseteq Nat

VARIABLES status,       \* "todo", "in_progress", or "off" (backlog, review, done)
          pending,      \* tickets with any pending flag
          archived,     \* tickets with archived_at
          assignee,     \* assignee_key of each ticket
          paused,       \* account.dispatch_paused_at
          quiesced,     \* InstanceQuiesceService
          online,       \* agents whose host is reachable
          worker,       \* what each pump or caller holds
          starts,       \* claims of a ticket since it was last put into todo
          edit          \* the row a whole-row save in progress has read

rows == <<status, pending, archived, assignee>>
world == <<paused, quiesced, online>>
vars == <<rows, world, worker, starts, edit>>

Workers == Pumps \cup Callers
Status == {"todo", "in_progress", "off"}

Running(a) ==
  {t \in Tickets \ (pending \cup archived) : status[t] = "in_progress" /\ assignee[t] = a}
Queued ==
  {t \in Tickets \ (pending \cup archived) : status[t] = "todo"}

\* Where a worker is, the rows still to visit, the assignees and the counts as
\* it read them, and the ticket it is sending.
At(at, queue, who, held, running, t) ==
  [at |-> at, queue |-> queue, who |-> who, held |-> held, running |-> running, t |-> t]
NoCounts == [a \in Agents |-> 0]
Idle == At("idle", {}, [t \in Tickets |-> NoAgent], FALSE, NoCounts, {})
Become(w, r) == worker' = [worker EXCEPT ![w] = r]
\* The same worker at another point.
Onward(w, at) ==
  At(at, worker[w].queue, worker[w].who, worker[w].held, worker[w].running, worker[w].t)

Init ==
  /\ status \in [Tickets -> {"todo", "off"}]
  /\ pending = {} /\ archived = {}
  /\ assignee \in [Tickets -> Agents]
  /\ paused = FALSE /\ quiesced = FALSE /\ online = Agents
  /\ worker = [w \in Workers |-> Idle]
  /\ starts = [t \in Tickets |-> 0]
  /\ edit = {}

-----------------------------------------------------------------------------
(* pump().  `who` is the assignee of every ticket as the snapshot read it. *)

\* What the query over the pump's scope may return: all queued rows, or any
\* Take of them when there are more, since it has no ORDER BY.
QueuedFor(K) == {t \in Queued : assignee[t] \in K}
Snapshots(K) ==
  IF Cardinality(QueuedFor(K)) <= Take
    THEN {QueuedFor(K)}
    ELSE {q \in SUBSET QueuedFor(K) : Cardinality(q) = Take}

PumpRead(p, K) ==
  /\ worker[p].at = "idle"
  /\ ~quiesced
  /\ \E q \in Snapshots(K) \ {{}} :
       Become(p, At("count", q, assignee, FALSE, NoCounts, {}))
  /\ UNCHANGED <<rows, world, starts, edit>>

\* accountsById and runningCounts, read once for the whole loop.
\* Seeded fault: an agent that runs nothing has no count.
CountsOfBusy == [a \in {b \in Agents : Running(b) # {}} |-> Cardinality(Running(a))]
RunningCounts == [a \in Agents |-> Cardinality(Running(a))]

PumpCount(p) ==
  /\ worker[p].at = "count"
  /\ Become(p, At("loop", worker[p].queue, worker[p].who, paused, RunningCounts, {}))
  /\ UNCHANGED <<rows, world, starts, edit>>

\* The capacity test, and the counts once a ticket of agent a was claimed.
\* Seeded faults: one ticket too many; one too few.
Roomy(running, a) == running[a] <= Cap
Tight(running, a) == running[a] + 1 < Cap
HasRoom(running, a) == running[a] < Cap
Counted(running, a) == [running EXCEPT ![a] = @ + 1]

\* Is ticket t, whose turn it is, tried at all.
Eligible(p, t) ==
  LET a == worker[p].who[t]
  IN ~worker[p].held /\ HasRoom(worker[p].running, a) /\ a \in online

\* The claim's WHERE clause.
\* Seeded fault: the claim goes by the snapshot alone.
ClaimsBlindly(t) == TRUE
Claims(t) == status[t] = "todo"

\* queued.sort and the for loop over it.
InTurn(p, t) ==
  /\ worker[p].at = "loop"
  /\ t \in worker[p].queue /\ \A u \in worker[p].queue : t <= u

\* The ticket whose turn it is: skipped, ...
PumpSkip(p, t) ==
  /\ InTurn(p, t)
  /\ ~(Eligible(p, t) /\ Claims(t))
  /\ Become(p, At("loop", worker[p].queue \ {t}, worker[p].who, worker[p].held,
                  worker[p].running, {}))
  /\ UNCHANGED <<rows, world, starts, edit>>

\* ... or claimed: the conditional update to in_progress, then dispatch().
PumpClaim(p, t) ==
  /\ InTurn(p, t)
  /\ Eligible(p, t) /\ Claims(t)
  /\ status' = [status EXCEPT ![t] = "in_progress"]
  /\ starts' = [starts EXCEPT ![t] = @ + 1]
  /\ Become(p, At("guard", worker[p].queue \ {t}, worker[p].who, worker[p].held,
                  Counted(worker[p].running, worker[p].who[t]), {t}))
  /\ UNCHANGED <<pending, archived, assignee, world, edit>>

PumpEnd(p) ==
  /\ worker[p].at = "loop" /\ worker[p].queue = {}
  /\ Become(p, Idle)
  /\ UNCHANGED <<rows, world, starts, edit>>

-----------------------------------------------------------------------------
(* dispatch(), on the row its caller read.                                 *)

\* A pump goes on with its loop, any other caller returns.
Back(w) == At("loop", worker[w].queue, worker[w].who, worker[w].held, worker[w].running, {})
AfterSend(w) == Become(w, IF w \in Pumps THEN Back(w) ELSE Idle)

\* Account paused, instance quiesced or host unreachable: not sent.
Blocked(w) == paused \/ quiesced \/ \E t \in worker[w].t : worker[w].who[t] \notin online

DispatchRefused(w) ==
  /\ worker[w].at = "guard" /\ Blocked(w)
  /\ AfterSend(w)
  /\ UNCHANGED <<rows, world, starts, edit>>

\* provisionSlotIdentity waits for the host, PREPARE_ACK_TIMEOUT_MS at most.
DispatchPrepare(w) ==
  /\ worker[w].at = "guard" /\ ~Blocked(w)
  /\ Become(w, Onward(w, "prepare"))
  /\ UNCHANGED <<rows, world, starts, edit>>

\* The host refused, or the payload could not be built.
DispatchFails(w) ==
  /\ worker[w].at = "prepare"
  /\ AfterSend(w)
  /\ UNCHANGED <<rows, world, starts, edit>>

\* trigger_emitted row, last_dispatched_at, then the agent_trigger to `who`.
Emit(w) ==
  /\ worker[w].at = "prepare"
  /\ Become(w, Onward(w, "sent"))
  /\ UNCHANGED <<rows, world, starts, edit>>

DispatchReturns(w) ==
  /\ worker[w].at = "sent"
  /\ AfterSend(w)
  /\ UNCHANGED <<rows, world, starts, edit>>

\* A dispatch() call begins with the row of t as it is, or as just written.
Send(c, t, flags, gone, keys) ==
  /\ worker[c].at = "idle"
  /\ IF t \in flags \cup gone
       THEN UNCHANGED worker
       ELSE Become(c, At("guard", {}, keys, FALSE, NoCounts, {t}))

\* onComment, manualTrigger, resumeTicket and the supervisor, on a ticket in
\* progress.
Resend(c, t) ==
  /\ status[t] = "in_progress"
  /\ Send(c, t, pending, archived, assignee)
  /\ UNCHANGED <<rows, world, starts, edit>>

-----------------------------------------------------------------------------
(* What people and agents do to the rows.                                  *)

\* TicketService.move within the statuses that are not in progress.
Move(t, s) ==
  /\ t \notin archived /\ s # status[t] /\ s # "in_progress"
  /\ status' = [status EXCEPT ![t] = s]
  /\ starts' = [starts EXCEPT ![t] = IF s = "todo" THEN 0 ELSE @]
  /\ UNCHANGED <<pending, archived, assignee, world, worker, edit>>

\* TicketService.pend, and the prerequisite and CI-wait flags going up.
Pend(t) ==
  /\ t \notin archived \cup pending
  /\ pending' = pending \cup {t}
  /\ UNCHANGED <<status, archived, assignee, world, worker, starts, edit>>

Archive(t) ==
  /\ t \notin archived
  /\ archived' = archived \cup {t}
  /\ UNCHANGED <<status, pending, assignee, world, worker, starts, edit>>

\* unpend, and unarchiveTicket, of a ticket that is not in progress.
Restore(t) ==
  /\ t \in pending \cup archived /\ status[t] # "in_progress"
  /\ \/ pending' = pending \ {t} /\ t \in pending /\ UNCHANGED archived
     \/ archived' = archived \ {t} /\ t \in archived /\ UNCHANGED pending
  /\ UNCHANGED <<status, assignee, world, worker, starts, edit>>

Pause ==
  /\ \/ paused' = ~paused /\ UNCHANGED quiesced
     \/ quiesced' = ~quiesced /\ UNCHANGED paused
  /\ UNCHANGED <<rows, online, worker, starts, edit>>

HostFlips(a) ==
  /\ online' = IF a \in online THEN online \ {a} ELSE online \cup {a}
  /\ UNCHANGED <<rows, paused, quiesced, worker, starts, edit>>

\* TicketService.update of the assignee; a ticket in progress is re-sent.
Reassign(c, t, a) ==
  /\ t \notin archived /\ a # assignee[t]
  /\ assignee' = [assignee EXCEPT ![t] = a]
  /\ IF status[t] = "in_progress"
       THEN Send(c, t, pending, archived, assignee')
       ELSE UNCHANGED worker
  /\ UNCHANGED <<status, pending, archived, world, starts, edit>>

\* A user drops a ticket into In Progress: sent whatever the agent's load.
UserStart(c, t) ==
  /\ t \notin archived /\ status[t] # "in_progress"
  /\ status' = [status EXCEPT ![t] = "in_progress"]
  /\ Send(c, t, pending, archived, assignee)
  /\ UNCHANGED <<pending, archived, assignee, world, starts, edit>>

\* An agent moves a ticket into In Progress: nothing is sent.
AgentStart(t) ==
  /\ t \notin archived /\ status[t] # "in_progress"
  /\ status' = [status EXCEPT ![t] = "in_progress"]
  /\ UNCHANGED <<pending, archived, assignee, world, worker, starts, edit>>

\* unarchiveTicket of a ticket that was archived while in progress.
Unarchive(t) ==
  /\ t \in archived /\ status[t] = "in_progress"
  /\ archived' = archived \ {t}
  /\ UNCHANGED <<status, pending, assignee, world, worker, starts, edit>>

\* unpend of a ticket in progress: the flag is cleared, then resumeTicket.
Unpend(c, t) ==
  /\ t \in pending /\ status[t] = "in_progress"
  /\ pending' = pending \ {t}
  /\ Send(c, t, pending', archived, assignee)
  /\ UNCHANGED <<status, archived, assignee, world, starts, edit>>

\* TicketService.update of a field the queue does not look at: the row is read,
\* and later every column is written back.
EditRead(t) ==
  /\ edit = {} /\ t \notin archived
  /\ edit' = {[t |-> t, s |-> status[t], p |-> t \in pending, a |-> assignee[t]]}
  /\ UNCHANGED <<rows, world, worker, starts>>

EditSave ==
  /\ \E e \in edit :
       /\ status' = [status EXCEPT ![e.t] = e.s]
       /\ pending' = IF e.p THEN pending \cup {e.t} ELSE pending \ {e.t}
       /\ archived' = archived \ {e.t}
       /\ assignee' = [assignee EXCEPT ![e.t] = e.a]
  /\ edit' = {}
  /\ UNCHANGED <<world, worker, starts>>

-----------------------------------------------------------------------------
PumpBody(p) ==
  PumpCount(p) \/ PumpEnd(p) \/ \E t \in Tickets : PumpSkip(p, t) \/ PumpClaim(p, t)
Pump(p) ==
  \/ \E K \in {Agents} \cup {{a} : a \in Agents} : PumpRead(p, K)
  \/ PumpBody(p)

Dispatch(w) ==
  \/ DispatchRefused(w) \/ DispatchPrepare(w) \/ DispatchFails(w)
  \/ Emit(w) \/ DispatchReturns(w)

\* The queue alone: nobody puts a ticket into progress but the pump.
Next ==
  \/ \E p \in Pumps : Pump(p)
  \/ \E w \in Workers : Dispatch(w)
  \/ \E c \in Callers, t \in Tickets : Resend(c, t)
  \/ \E t \in Tickets : Pend(t) \/ Archive(t) \/ Restore(t) \/ \E s \in Status : Move(t, s)
  \/ Pause
  \/ \E a \in Agents : HostFlips(a)

Spec == Init /\ [][Next]_vars

\* With reassignments as well.
SpecReassign ==
  Init /\ [][Next \/ \E c \in Callers, t \in Tickets, a \in Agents : Reassign(c, t, a)]_vars

\* With every route that puts a ticket into progress past the queue.
NextBypass ==
  \/ Next
  \/ \E t \in Tickets : AgentStart(t) \/ Unarchive(t)
  \/ \E c \in Callers, t \in Tickets :
       UserStart(c, t) \/ Unpend(c, t) \/ \E a \in Agents : Reassign(c, t, a)
SpecBypass == Init /\ [][NextBypass]_vars

\* With whole-row saves that overlap the pump.
SpecEdits == Init /\ [][Next \/ EditSave \/ \E t \in Tickets : EditRead(t)]_vars

\* setInterval asks for an unscoped pump for ever, pumpChain serves requests in
\* order so that scoped pumps cannot starve it, and the awaits come back.
Sweeps ==
  /\ \A p \in Pumps : SF_vars(PumpRead(p, Agents)) /\ WF_vars(PumpBody(p))
  /\ \A w \in Workers : WF_vars(Dispatch(w))
FairSpec == Spec /\ Sweeps

-----------------------------------------------------------------------------
(* Properties.                                                             *)

WorkerState ==
  [at: {"idle", "count", "loop", "guard", "prepare", "sent"}, queue: SUBSET Tickets,
   who: [Tickets -> Agents \cup {NoAgent}], held: BOOLEAN, running: [Agents -> Nat], t: SUBSET Tickets]

\* Every variable stays in its domain, and a worker that sends holds a ticket.
TypeOK ==
  /\ status \in [Tickets -> Status]
  /\ pending \subseteq Tickets /\ archived \subseteq Tickets
  /\ assignee \in [Tickets -> Agents]
  /\ paused \in BOOLEAN /\ quiesced \in BOOLEAN /\ online \subseteq Agents
  /\ worker \in [Workers -> WorkerState]
  /\ starts \in [Tickets -> Nat]
  /\ edit \subseteq [t: Tickets, s: Status, p: BOOLEAN, a: Agents]

\* pump() and runningCounts: no agent identity has more than
\* max_concurrent_tickets_per_agent running tickets.
Capacity == \A a \in Agents : Cardinality(Running(a)) <= Cap

\* The counts a pump works with never fall below what is really running, which
\* is why its own arithmetic is enough to keep the capacity.
CountsAreSafe ==
  \A p \in Pumps : worker[p].at \in {"loop", "guard", "prepare", "sent"} =>
    \A a \in Agents : Cardinality(Running(a)) <= worker[p].running[a]

\* The atomic claim: a ticket put into todo is started once, by one pump.
StartedOnce == \A t \in Tickets : starts[t] <= 1

\* docs/tickets.md: a pending or archived ticket is never dispatched.
NeverSentWhileBlocked ==
  [][\A w \in Workers : Emit(w) => worker[w].t \cap (pending \cup archived) = {}]_vars

\* A ticket that could run: queued, its host up, its agent with a free slot.
Startable(t) ==
  /\ t \in Queued /\ assignee[t] \in online /\ ~paused /\ ~quiesced
  /\ Cardinality(Running(assignee[t])) < Cap

\* The periodic sweep: once only the pumps and dispatches act, a ticket that
\* could run does not stay that way for ever.
OnlyWorkersAct == <>[][worker' # worker]_vars
QueueDrains == OnlyWorkersAct => \A t \in Tickets : Startable(t) ~> ~Startable(t)
=============================================================================

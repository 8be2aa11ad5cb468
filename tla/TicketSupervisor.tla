-------------------------- MODULE TicketSupervisor --------------------------
(***************************************************************************)
(* The supervisor half of TicketDispatchService on one ticket: supervise() *)
(* re-sends a ticket whose agent went silent and parks it for a human      *)
(* after MAX_SUPERVISOR_REDISPATCHES; applyManagerAck() records what the   *)
(* Runtime Host answered; progress resets the count.                       *)
(*                                                                         *)
(* A tick is one sweep interval.  Timestamps are kept as ages in ticks,    *)
(* each saturating at the largest age the code tells apart.  A handler     *)
(* that writes under a WHERE clause remembers which of the columns it      *)
(* compares still hold the values it read.                                 *)
(***************************************************************************)
EXTENDS Integers, FiniteSets, FiniteSetsExt

CONSTANTS Sweeps,       \* sweeps that may overlap: setInterval does not wait
          Callers,      \* other dispatch() calls that may overlap
          MaxRedispatches,  \* MAX_SUPERVISOR_REDISPATCHES
          Stale,        \* account.supervisor_stale_ms
          Resend,       \* account.supervisor_resend_ms
          Probe,        \* the 5 minutes between probes of a live process
          AckTtl,       \* SUPERVISOR_LIVE_ACK_TTL_MS
          Quiet,        \* SUPERVISOR_LIVE_QUIET_LIMIT_MS
          NackWait,     \* NACK_RETRY_BASE_MS
          Transit,      \* bound: answers of the host in transit at a time
          Env           \* what the environment does in this instance

ASSUME ConstantsAssumption ==
  /\ {MaxRedispatches, Stale, Resend, Probe, AckTtl, Quiet, NackWait, Transit} \subseteq Nat \ {0}
  /\ IsFiniteSet(Sweeps) /\ Sweeps \cap Callers = {}
  /\ Env \subseteq {"offline", "pause", "progress", "output", "strand", "nack", "ack",
                    "user", "replay"}

VARIABLES busy,         \* in_progress, assigned, not archived
          pend,         \* any pending flag
          n,            \* supervisor_redispatches
          since, live,  \* ages of supervisor_live_since and supervisor_live_at
          disp,         \* age of the latest trigger_emitted row
          signal,       \* age of the latest of trigger, comment and output
          output,       \* age of the latest output if newer than since, else Null
          strand,       \* hasLiveRoleStrand
          online, paused,
          reset,        \* an agent's comment or update whose activity is not handled yet
          nack,         \* time left of nackRetryAt, and whether its nack was current
          open,         \* triggers sent and not answered: TRUE that of the latest row, FALSE an older one
          acks,         \* answers of the host in transit
          logged,       \* the latest row's trigger has a dispatch_ack_suppressed row
          mine,         \* the latest row names the current assignee
          worker,       \* sweeps and other dispatch() calls
          ack,          \* the ack handler
          looked,       \* sweeps that had their turn in this interval
          reached       \* a supervisor trigger was sent since the count was zero

row == <<busy, pend, n, since, live>>
ages == <<disp, signal, output>>
host == <<online, paused, strand>>
answers == <<open, acks, logged, mine, ack>>
vars == <<row, ages, host, reset, nack, answers, worker, looked, reached>>

Workers == Sweeps \cup Callers
Null == -1
Longest == Max({Stale, Resend, Probe})
\* Counts past the limit matter only as equal or not: they saturate here.
MaxCount == MaxRedispatches + Cardinality(Sweeps) + 1
NoNack == [left |-> Null, cur |-> TRUE]

Columns == {"disp", "live", "owner", "progress"}
\* cur: the trigger is that of the latest trigger_emitted row.
IdleWorker == [at |-> "idle", n |-> 0, by |-> "caller", cur |-> FALSE, same |-> {}]
IdleAck == [at |-> "idle", kind |-> "processed", cur |-> FALSE, n |-> 0, same |-> {}]

Init ==
  /\ busy = TRUE /\ pend = FALSE /\ n = 0 /\ since = Null /\ live = Null
  /\ disp = 0 /\ signal = 0 /\ output = Null
  /\ online = TRUE /\ paused = FALSE /\ strand = FALSE /\ reset = FALSE
  /\ nack = NoNack /\ open = {TRUE} /\ acks = {} /\ logged = FALSE /\ mine = TRUE /\ ack = IdleAck
  /\ worker = [w \in Workers |-> IdleWorker] /\ looked = {} /\ reached = FALSE

\* A write to columns C: whoever read them earlier holds old values now.
Touch(C) == [w \in Workers |-> [worker[w] EXCEPT !.same = @ \ C]]
TouchAck(C) == [ack EXCEPT !.same = @ \ C]
Become(w, r) == worker' = [worker EXCEPT ![w] = r]

\* A caller that read the row of a ticket in progress is about to dispatch it.
Sending(by) == [at |-> "guard", n |-> 0, by |-> by, cur |-> FALSE, same |-> {"owner"}]

\* supervisor_redispatches: 0, supervisor_live_since: null, supervisor_live_at: null.
\* Columns that were null already still hold what others read.
\* Seeded fault: the count is taken back by one only.
StepBack == n' = n - 1 /\ since' = Null /\ live' = Null /\ output' = Null /\ reached' = FALSE
StartOver == n' = 0 /\ since' = Null /\ live' = Null /\ output' = Null /\ reached' = FALSE
StartedOver == {"progress"} \cup (IF since = Null /\ live = Null THEN {} ELSE {"live"})

-----------------------------------------------------------------------------
(* supervise().                                                            *)

\* The row is read and passes the query; the account is not paused.
Turn(s) ==
  /\ worker[s].at = "idle" /\ s \notin looked /\ busy /\ ~pend /\ ~paused
  /\ looked' = looked \cup {s}

\* The host refused the last dispatch and the delay is over.
SuperviseNack(s) ==
  /\ Turn(s) /\ nack.left = 0
  /\ nack' = NoNack
  /\ Become(s, Sending(IF nack.cur THEN "nack" ELSE "stale nack"))
  /\ UNCHANGED <<row, ages, host, reset, answers, reached>>

LiveConfirmed == live # Null /\ live < AckTtl
Silent(m) ==
  LET cadence == IF m > 0 THEN Resend ELSE Stale
  IN signal >= (IF LiveConfirmed THEN Min({cadence, Probe}) ELSE cadence)

\* Seeded fault: the tries are not looked at.
NeverUsedUp(m) == FALSE
TriesUsedUp(m) == m >= MaxRedispatches /\ ~LiveConfirmed

\* What becomes of a ticket with m tries used and a lease of age a.
Verdict(m, a) ==
  LET next(at, by) == [at |-> at, n |-> m, by |-> by, cur |-> FALSE, same |-> Columns \ {"disp"}]
  IN IF LiveConfirmed /\ a # Null /\ a >= Quiet THEN next("park", "quiet")
     ELSE IF strand \/ ~Silent(m) THEN IdleWorker
     ELSE IF TriesUsedUp(m) THEN next("park", "stopped")
     ELSE next("claim", "supervisor")

\* Output since the lease began is progress: the lease and the count start
\* over, then the ticket is judged.
Judge(s) ==
  /\ nack.left = Null /\ Turn(s)
  /\ IF output # Null
       THEN /\ since' = output /\ output' = Null /\ n' = 0 /\ reached' = FALSE
            /\ worker' = [Touch({"live", "progress"}) EXCEPT ![s] = Verdict(0, output)]
            /\ ack' = TouchAck({"live"})
       ELSE /\ Become(s, Verdict(n, since))
            /\ UNCHANGED <<since, output, n, reached, ack>>
  /\ UNCHANGED <<busy, pend, live, disp, signal, host, reset, nack, open, acks, logged, mine>>

\* parkStalled: the WHERE clause (its second look at the output comes in the
\* same step as the verdict).
\* Seeded fault: the ticket is parked whatever happened since the read.
ParksBlindly(s) == busy /\ ~pend
Parks(s) ==
  /\ busy /\ ~pend /\ n = worker[s].n
  /\ {"live", "owner"} \subseteq worker[s].same

ParkStalled(s) ==
  /\ worker[s].at = "park"
  /\ IF Parks(s)
       THEN pend' = TRUE /\ n' = 0 /\ reached' = FALSE
       ELSE UNCHANGED <<pend, n, reached>>
  /\ Become(s, IdleWorker)
  /\ UNCHANGED <<busy, since, live, ages, host, reset, nack, answers, looked>>

\* The count is claimed before the ticket is sent.
ClaimResend(s) ==
  /\ worker[s].at = "claim"
  /\ IF n = worker[s].n
       THEN n' = Min({n + 1, MaxCount}) /\ Become(s, [Sending("supervisor") EXCEPT !.same = @ \cap worker[s].same])
       ELSE UNCHANGED n /\ Become(s, IdleWorker)
  /\ UNCHANGED <<busy, pend, since, live, ages, host, reset, nack, answers, looked, reached>>

-----------------------------------------------------------------------------
(* dispatch() of a row already read, and every caller of it but supervise. *)

DispatchGuard(w) ==
  /\ worker[w].at = "guard"
  /\ IF online /\ ~paused
       THEN Become(w, [worker[w] EXCEPT !.at = "prepare"])
       ELSE Become(w, IdleWorker)
  /\ UNCHANGED <<row, ages, host, reset, nack, answers, looked, reached>>

\* The host refused the runtime or the payload could not be built.
DispatchFails(w) ==
  /\ worker[w].at = "prepare"
  /\ Become(w, IdleWorker)
  /\ UNCHANGED <<row, ages, host, reset, nack, answers, looked, reached>>

\* The correlation row is written first: the triggers of all other rows, in
\* transit or about to be sent, are older ones from here on ...
EmitRow(w) ==
  /\ worker[w].at = "prepare"
  /\ worker' = [v \in Workers |->
                  IF v = w THEN [worker[w] EXCEPT !.at = "row", !.cur = TRUE]
                  ELSE [worker[v] EXCEPT !.cur = FALSE]]
  /\ open' = {FALSE : c \in open}
  /\ acks' = {[cur |-> FALSE, kind |-> a.kind] : a \in acks}
  /\ ack' = [ack EXCEPT !.cur = FALSE]
  /\ disp' = 0 /\ logged' = FALSE /\ mine' = ("owner" \in worker[w].same)
  /\ UNCHANGED <<row, signal, output, host, reset, nack, looked, reached>>

\* ... then last_dispatched_at, then the trigger is emitted; two dispatches may
\* get here in another order than their rows.
EmitSend(w) ==
  /\ worker[w].at = "row"
  /\ signal' = 0
  /\ LET kept == worker[w].by = "supervisor" \/ (since = Null /\ live = Null)
         written == {"disp"} \cup (IF kept THEN {} ELSE {"live"})
     IN /\ since' = (IF kept THEN since ELSE Null) /\ live' = (IF kept THEN live ELSE Null)
        /\ output' = IF kept THEN output ELSE Null
        /\ worker' = [Touch(written) EXCEPT ![w] = IdleWorker]
        /\ ack' = TouchAck(written)
  /\ open' = open \cup {worker[w].cur}
  /\ reached' = (reached \/ (worker[w].by = "supervisor" /\ n > 0))
  /\ UNCHANGED <<busy, pend, n, disp, host, reset, nack, acks, logged, mine, looked>>

\* A human's comment on a ticket in progress re-sends it.
HumanComment(c) ==
  /\ "user" \in Env /\ worker[c].at = "idle" /\ busy /\ ~pend
  /\ signal' = 0 /\ Become(c, Sending("caller"))
  /\ UNCHANGED <<row, disp, output, host, reset, nack, answers, looked, reached>>

\* manualTrigger and resumeTicket read the row and dispatch it.
Resume(c) ==
  /\ "user" \in Env /\ worker[c].at = "idle" /\ busy /\ ~pend
  /\ Become(c, Sending("caller"))
  /\ UNCHANGED <<row, ages, host, reset, nack, answers, looked, reached>>

\* unpend: the save, then resumeTicket.
Unpend(c) ==
  /\ "user" \in Env /\ worker[c].at = "idle" /\ pend /\ pend' = FALSE
  /\ StartOver /\ ack' = TouchAck(StartedOver)
  /\ worker' = [Touch(StartedOver) EXCEPT ![c] = IF busy THEN Sending("caller") ELSE @]
  /\ UNCHANGED <<busy, disp, signal, host, reset, nack, open, acks, logged, mine, looked>>

\* update of the assignee: the save, then dispatch of a ticket in progress.
Reassign(c) ==
  /\ "user" \in Env /\ worker[c].at = "idle" /\ mine' = FALSE
  /\ StartOver /\ ack' = TouchAck(StartedOver \cup {"owner"})
  /\ worker' = [Touch(StartedOver \cup {"owner"}) EXCEPT
                  ![c] = IF busy /\ ~pend THEN Sending("caller") ELSE @]
  /\ UNCHANGED <<busy, pend, disp, signal, host, reset, nack, open, acks, logged, looked>>

\* move to any other status than in progress.
Leave ==
  /\ "user" \in Env /\ busy' = FALSE
  /\ StartOver /\ worker' = Touch(StartedOver) /\ ack' = TouchAck(StartedOver)
  /\ UNCHANGED <<pend, disp, signal, host, reset, nack, open, acks, logged, mine, looked>>

\* A human's move back into progress, which is sent at once.
Enter(c) ==
  /\ "user" \in Env /\ worker[c].at = "idle" /\ ~busy /\ busy' = TRUE
  /\ IF pend THEN UNCHANGED worker ELSE Become(c, Sending("caller"))
  /\ UNCHANGED <<pend, n, since, live, ages, host, reset, nack, answers, looked, reached>>

-----------------------------------------------------------------------------
(* Progress of the agent.                                                  *)

\* An agent's comment (a signal) or update (not one) is committed and its
\* activity emitted.
AgentActs ==
  /\ "progress" \in Env /\ busy
  /\ signal' \in {0, signal} /\ reset' = TRUE
  /\ UNCHANGED <<row, disp, output, host, nack, answers, worker, looked, reached>>

\* onActivity and onComment: the count starts over.
ProgressHandled ==
  /\ reset /\ reset' = FALSE
  /\ IF n > 0 \/ since # Null
       THEN StartOver /\ worker' = Touch(StartedOver) /\ ack' = TouchAck(StartedOver)
       ELSE UNCHANGED <<n, since, live, output, reached, worker, ack>>
  /\ UNCHANGED <<busy, pend, disp, signal, host, nack, open, acks, logged, mine, looked>>

\* External: the agent prints something, or its strand appears or goes.
AgentOutput ==
  /\ "output" \in Env /\ signal' = 0
  /\ output' = IF since = Null THEN Null ELSE 0
  /\ UNCHANGED <<row, disp, host, reset, nack, answers, worker, looked, reached>>

StrandFlips ==
  /\ "strand" \in Env /\ strand' = ~strand
  /\ UNCHANGED <<row, ages, online, paused, reset, nack, answers, worker, looked, reached>>

\* External: the Runtime Host goes or comes; the account is paused or resumed.
HostFlips ==
  /\ "offline" \in Env /\ online' = ~online
  /\ UNCHANGED <<row, ages, paused, strand, reset, nack, answers, worker, looked, reached>>

PauseFlips ==
  /\ "pause" \in Env /\ paused' = ~paused
  /\ UNCHANGED <<row, ages, online, strand, reset, nack, answers, worker, looked, reached>>

-----------------------------------------------------------------------------
(* The host's answers.                                                     *)

\* External: the host answers each trigger it was sent, once; it may post a
\* notice of a suppressed one as a comment.
HostAnswers(kind) ==
  /\ (IF kind = "nack" THEN "nack" ELSE "ack") \in Env
  /\ Cardinality(acks) < Transit
  /\ \E c \in open : open' = open \ {c} /\ acks' = acks \cup {[cur |-> c, kind |-> kind]}
  /\ signal' \in (IF kind = "suppressed" THEN {0, signal} ELSE {signal})
  /\ UNCHANGED <<row, disp, output, host, reset, nack, logged, mine, ack, worker, looked, reached>>

\* applyManagerAck: the reads.  The answer must name the trigger of the latest
\* trigger_emitted row, and that row the current assignee.
Latest(a) == a.cur /\ mine

AckRead(a) ==
  /\ ack.at = "idle" /\ a \in acks
  /\ acks' = IF "replay" \in Env THEN acks ELSE acks \ {a}
  /\ LET ignored == ~busy \/ pend \/ ~Latest(a) \/ disp >= AckTtl \/ logged
         step == CASE a.kind = "suppressed" -> IF ignored THEN "idle" ELSE "renew"
                   [] a.kind = "processed" /\ since # Null /\ Latest(a) -> "release"
                   [] OTHER -> "log"
     IN ack' = IF step = "idle" THEN IdleAck
               ELSE [at |-> step, kind |-> a.kind, cur |-> a.cur, n |-> n,
                     same |-> Columns \ {"progress"}]
  /\ UNCHANGED <<row, ages, host, reset, nack, open, logged, mine, worker, looked, reached>>

\* The WHERE clause of the lease renewal.
\* Seeded fault: last_dispatched_at is not compared.
RenewsAnyDispatch ==
  /\ busy /\ ~pend /\ n = ack.n /\ {"owner", "live"} \subseteq ack.same
Renews ==
  /\ busy /\ ~pend /\ n = ack.n /\ {"owner", "live", "disp"} \subseteq ack.same

AckRenew ==
  /\ ack.at = "renew"
  /\ IF Renews
       THEN /\ since' = (IF since = Null THEN 0 ELSE since) /\ live' = 0
            /\ worker' = Touch({"live"})
            /\ ack' = [ack EXCEPT !.at = "log"]
       ELSE ack' = IdleAck /\ UNCHANGED <<since, live, worker>>
  /\ UNCHANGED <<busy, pend, n, ages, host, reset, nack, open, acks, logged, mine, looked, reached>>

AckRelease ==
  /\ ack.at = "release"
  /\ IF {"owner", "live", "disp"} \subseteq ack.same
       THEN since' = Null /\ live' = Null /\ output' = Null /\ worker' = Touch({"live"})
       ELSE UNCHANGED <<since, live, output, worker>>
  /\ ack' = [ack EXCEPT !.at = "log"]
  /\ UNCHANGED <<busy, pend, n, disp, signal, host, reset, nack, open, acks, logged, mine, looked, reached>>

\* The ack row, then the retry of a nack is scheduled or dropped.
AckLog ==
  /\ ack.at = "log"
  /\ logged' = (logged \/ (ack.kind = "suppressed" /\ ack.cur))
  /\ nack' = IF ack.kind = "nack" THEN [left |-> NackWait, cur |-> ack.cur] ELSE NoNack
  /\ ack' = IdleAck
  /\ UNCHANGED <<row, ages, host, reset, open, acks, mine, worker, looked, reached>>

-----------------------------------------------------------------------------
Older(x, top) == IF x = Null \/ x = top THEN x ELSE x + 1

\* The next sweep interval begins.  A database write that was issued is over
\* by then; only the host's preparation of a runtime may take longer.
Tick ==
  /\ ack.at = "idle" /\ \A w \in Workers : worker[w].at \in {"idle", "prepare"}
  /\ since' = Older(since, Quiet) /\ live' = Older(live, AckTtl)
  /\ disp' = Older(disp, AckTtl) /\ signal' = Older(signal, Longest)
  /\ output' = Older(output, Quiet)
  /\ nack' = [nack EXCEPT !.left = IF @ > 0 THEN @ - 1 ELSE @]
  /\ looked' = {}
  /\ UNCHANGED <<busy, pend, n, host, reset, answers, worker, reached>>

Supervise(s) == SuperviseNack(s) \/ Judge(s) \/ ParkStalled(s) \/ ClaimResend(s)
Dispatch(w) == DispatchGuard(w) \/ DispatchFails(w) \/ EmitRow(w) \/ EmitSend(w)
HandleAck == (\E a \in acks : AckRead(a)) \/ AckRenew \/ AckRelease \/ AckLog
Users ==
  Leave \/ \E c \in Callers :
             HumanComment(c) \/ Resume(c) \/ Unpend(c) \/ Reassign(c) \/ Enter(c)
Agent == AgentActs \/ AgentOutput \/ StrandFlips

Next ==
  \/ \E s \in Sweeps : Supervise(s)
  \/ \E w \in Workers : Dispatch(w)
  \/ HandleAck \/ ProgressHandled
  \/ Users \/ Agent \/ HostFlips \/ PauseFlips
  \/ \E kind \in {"processed", "suppressed", "nack"} : HostAnswers(kind)
  \/ Tick

Spec == Init /\ [][Next]_vars

\* Time passes, setInterval runs the sweep for ever, and awaits come back.
FairSpec ==
  /\ Spec
  /\ SF_vars(Tick) /\ WF_vars(HandleAck) /\ WF_vars(ProgressHandled)
  /\ \A s \in Sweeps : WF_vars(Supervise(s))
  /\ \A w \in Workers : WF_vars(Dispatch(w))

-----------------------------------------------------------------------------
(* Properties.                                                             *)

\* Every variable stays in its domain.
TypeOK ==
  /\ {busy, pend, strand, reset, online, paused, logged, mine, reached} \subseteq BOOLEAN
  /\ open \subseteq BOOLEAN
  /\ n \in 0..MaxCount /\ looked \subseteq Sweeps
  /\ since \in Null..Quiet /\ output \in Null..Quiet /\ live \in Null..AckTtl
  /\ disp \in 0..AckTtl /\ signal \in 0..Longest
  /\ nack \in [left: Null..NackWait, cur: BOOLEAN]
  /\ acks \subseteq [cur: BOOLEAN, kind: {"processed", "suppressed", "nack"}]
  /\ worker \in [Workers ->
       [at: {"idle", "park", "claim", "guard", "prepare", "row"}, n: 0..MaxCount,
        by: {"caller", "supervisor", "nack", "stale nack", "quiet", "stopped"},
        cur: BOOLEAN, same: SUBSET Columns]]
  /\ ack \in [at: {"idle", "renew", "release", "log"}, cur: BOOLEAN, n: 0..MaxCount,
              kind: {"processed", "suppressed", "nack"}, same: SUBSET Columns]

\* applyManagerAck: the lease of the live process is renewed by the answer to
\* the latest trigger_emitted row only.  A row written since the answer was read
\* shows in last_dispatched_at a moment later: until then, and no longer, the
\* answer to the row before may still renew.
StaleAckNeverRenews ==
  [][AckRenew /\ ack'.at = "log"
       => ack.cur \/ \E w \in Workers : worker[w].at = "row" /\ worker[w].cur]_vars

\* parkStalled: progress recorded after a sweep read the ticket is never
\* overridden by that sweep parking it.
ParkRespectsProgress ==
  [][\A s \in Sweeps : ParkStalled(s) /\ pend' # pend => "progress" \in worker[s].same]_vars

\* noteOffline, "the ticket waits until it reconnects": a ticket parked because
\* its assignee stopped was sent to it at least once.
ParkedAfterSending ==
  [][\A s \in Sweeps :
       ParkStalled(s) /\ pend' # pend /\ worker[s].by = "stopped" => reached]_vars

\* applyManagerAck, "Delayed/replayed ACKs must not renew a lease or revive
\* work": a re-send after a nack answers the last trigger.
StaleNackNeverRevives == \A s \in Sweeps : worker[s].by # "stale nack"

\* supervise(): a ticket on a host that is up can stay under supervision for
\* ever only if its agent keeps showing signs of life, the host keeps replacing
\* a quiet process, or the host keeps refusing the dispatch (the re-send after a
\* nack is not counted as a try); else a human sees it.
Stalled == busy /\ ~pend /\ online /\ ~paused /\ ~strand
StalledReachesHuman ==
  <>[]Stalled => []<><<Agent \/ AckRelease \/ \E s \in Sweeps : SuperviseNack(s)>>_vars
=============================================================================

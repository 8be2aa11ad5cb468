------------------------------- MODULE CiWait -------------------------------
(***************************************************************************)
(* The durable "blocked on one external CI run" wait of one ticket:        *)
(* CiWaitService (register, cancel, the two compare-and-set primitives)    *)
(* and CiWaitResumeService (the poll sweep that resolves and delivers it). *)
(*                                                                         *)
(* Every await of the code is a step boundary.  Sweeps may overlap (the    *)
(* interval timer has no re-entry guard, and several server processes may  *)
(* share the database), a process may crash between any two steps, and     *)
(* whole-row saves of other requests may land in between.                  *)
(***************************************************************************)
EXTENDS Integers, FiniteSets

CONSTANTS Sweeps,       \* overlapping executions of sweep()
          Callers,      \* concurrent await_ci_run / cancel_ci_wait requests
          Editors,      \* concurrent whole-row saves of other ticket requests
          Stamps,       \* millisecond timestamps: resolved_at, first_failure_at
          AlertAfter,   \* CI_WAIT_ALERT_AFTER_FAILURES
          MaxReg,       \* bound: registrations
          MaxFails,     \* bound: consecutive unreadable polls
          MaxAlerts,    \* bound: alert comments
          MaxResumes,   \* bound: resume calls for one wait
          MaxCrashes    \* bound: process crashes

\* The alert threshold is positive and within its bound; 0 is not a timestamp.
ASSUME ConstantsAssumption ==
  /\ MaxReg \in Nat /\ MaxAlerts \in Nat /\ MaxResumes \in Nat /\ MaxCrashes \in Nat
  /\ AlertAfter \in Nat \ {0} /\ MaxFails \in Nat
  /\ AlertAfter <= MaxFails
  /\ Stamps \subseteq Nat \ {0}

VARIABLES pending,      \* Ticket.pending_ci_wait
          ctx,          \* Ticket.ci_wait_context, NoCtx for ''
          archived,     \* Ticket.archived_at # null
          aged,         \* the active wait is older than CI_WAIT_MAX_AGE_MS
          regs,         \* registrations made so far; the next one is regs + 1
          comments,     \* resolution comments, by wait and dedupe key
          alerts,       \* poll-failure alert comments, by dedupe key
          resumed,      \* how often _deliver called resumeTicket for each wait
          dropped,      \* waits cleared by a save, never delivered
          sw,           \* sweeps in progress
          req,          \* requests in progress
          crashes       \* crashes so far

vars == <<pending, ctx, archived, aged, regs, comments, alerts, resumed, dropped, sw, req, crashes>>

\* The registrations made so far are the numbers 1 .. regs.
Regs == 1..MaxReg

\* A context is compared as a JSON string, that is, by all of its fields.
\* reg identifies the registration (registered_at and the run); owner is
\* FALSE when parseCiWaitContext finds no owner/repo/run_id; at is
\* outcome.resolved_at (0: no outcome); the rest is poll_issue.
Context == [reg: 0..MaxReg, owner: BOOLEAN, at: {0} \cup Stamps,
            fails: 0..MaxFails, first: {0} \cup Stamps, alerted: BOOLEAN]

\* A context with an outcome (or none: 0) and no poll issue.
Plain(r, owner, at) == [reg |-> r, owner |-> owner, at |-> at, fails |-> 0, first |-> 0, alerted |-> FALSE]

Registered(r) == Plain(r, TRUE, 0)
NoCtx == Plain(0, FALSE, 0)

Idle == [pc |-> "idle", raw |-> NoCtx, next |-> NoCtx, now |-> 0]
NoReq == [pc |-> "idle", pending |-> FALSE, ctx |-> NoCtx, archived |-> FALSE]

Init ==
  /\ pending = FALSE /\ ctx = NoCtx /\ archived = FALSE /\ aged = FALSE
  /\ regs = 0 /\ comments = {} /\ alerts = {} /\ dropped = {} /\ crashes = 0
  /\ resumed = [r \in Regs |-> 0]
  /\ sw = [s \in Sweeps |-> Idle]
  /\ req = [c \in Callers \cup Editors |-> NoReq]

-----------------------------------------------------------------------------
(* CiWaitService: the requests of agents.  Both read the row, decide, and  *)
(* save it in a later step.                                                *)

ReadRow(c, pc) ==
  req' = [req EXCEPT ![c] = [pc |-> pc, pending |-> pending, ctx |-> ctx, archived |-> archived]]

EndRequest(c) == req' = [req EXCEPT ![c] = NoReq]

RegisterRead(c) ==
  /\ req[c].pc = "idle" /\ regs < MaxReg
  /\ ~archived /\ ~pending
  /\ ReadRow(c, "register")
  /\ UNCHANGED <<pending, ctx, archived, aged, regs, comments, alerts, resumed, dropped, sw, crashes>>

\* A save that replaces an active wait by anything else drops that wait.
DroppedBy(p, x) == IF pending /\ ~(p /\ x.reg = ctx.reg) THEN dropped \cup {ctx.reg} ELSE dropped

RegisterSave(c) ==
  /\ req[c].pc = "register" /\ regs < MaxReg
  /\ regs' = regs + 1
  /\ pending' = TRUE
  /\ ctx' = Registered(regs + 1)
  /\ archived' = req[c].archived
  /\ aged' = FALSE
  /\ dropped' = DroppedBy(TRUE, Registered(regs + 1))
  /\ EndRequest(c)
  /\ UNCHANGED <<comments, alerts, resumed, sw, crashes>>

CancelRead(c) ==
  /\ req[c].pc = "idle"
  /\ pending
  /\ ReadRow(c, "cancel")
  /\ UNCHANGED <<pending, ctx, archived, aged, regs, comments, alerts, resumed, dropped, sw, crashes>>

CancelSave(c) ==
  /\ req[c].pc = "cancel"
  /\ pending' = FALSE
  /\ ctx' = NoCtx
  /\ archived' = req[c].archived
  /\ dropped' = DroppedBy(FALSE, NoCtx)
  /\ EndRequest(c)
  /\ UNCHANGED <<aged, regs, comments, alerts, resumed, sw, crashes>>

-----------------------------------------------------------------------------
(* CiWaitResumeService: one sweep, as it handles this ticket.              *)

\* new Date(nowMs): a millisecond no earlier comment or sweep has used.
UsedStamps == {k.at : k \in comments} \cup alerts \cup {ctx.at, ctx.first}
                \cup {sw[s].now : s \in Sweeps}
Now == CHOOSE n \in Stamps : n \notin UsedStamps

Goto(s, pc, raw, next) == sw' = [sw EXCEPT ![s] = [pc |-> pc, raw |-> raw, next |-> next, now |-> sw[s].now]]

Done(s) == sw' = [sw EXCEPT ![s] = Idle]

SweepStart(s) ==
  /\ sw[s].pc = "idle"
  /\ pending /\ ~archived
  /\ Stamps \ UsedStamps # {}
  /\ sw' = [sw EXCEPT ![s] = [pc |-> "evaluate", raw |-> ctx, next |-> NoCtx, now |-> Now]]
  /\ UNCHANGED <<pending, ctx, archived, aged, regs, comments, alerts, resumed, dropped, req, crashes>>

\* ctx?.outcome: parseCiWaitContext returns null when the owner is empty, so an
\* outcome recorded for an unparseable context is not seen again.
HasOutcome(x) == x.owner /\ x.at # 0

Polled(x, fails, first, alerted) ==
  [reg |-> x.reg, owner |-> x.owner, at |-> x.at, fails |-> fails, first |-> first, alerted |-> alerted]

\* The next context, after each way an evaluation can go.
Unparseable(s) == Plain(sw[s].raw.reg, FALSE, sw[s].now)
Resolved(s) == Plain(sw[s].raw.reg, TRUE, sw[s].now)
Readable(s) == Plain(sw[s].raw.reg, TRUE, 0)

\* Seeded fault: giving up on an old wait without recording an outcome.
TimedOutSilently(s) == sw[s].raw
TimedOut(s) == [sw[s].raw EXCEPT !.at = sw[s].now]

FirstFailure(s) == IF sw[s].raw.first = 0 THEN sw[s].now ELSE sw[s].raw.first

\* Seeded fault: alerted is recorded before the alert comment is inserted.
UnreadableAlerted(s) ==
  Polled(sw[s].raw, sw[s].raw.fails + 1, FirstFailure(s), sw[s].raw.fails + 1 >= AlertAfter)
Unreadable(s) == Polled(sw[s].raw, sw[s].raw.fails + 1, FirstFailure(s), sw[s].raw.alerted)

EvaluateOne(s) ==
  /\ sw[s].pc = "evaluate"
  /\ LET x == sw[s].raw
         Record(next) == Goto(s, "record", x, next)
     IN \/ HasOutcome(x) /\ Goto(s, "deliver", x, NoCtx)
        \/ ~x.owner /\ Record(Unparseable(s))
        \/ x.owner /\ x.at = 0 /\ aged /\ Record(TimedOut(s))
        \/ x.owner /\ x.at = 0 /\ ~aged
             /\ \/ x.fails < MaxFails /\ Record(Unreadable(s))
                \/ x.fails > 0 /\ Record(Readable(s))
                \/ x.fails = 0 /\ Done(s)
                \/ Record(Resolved(s))
  /\ UNCHANGED <<pending, ctx, archived, aged, regs, comments, alerts, resumed, dropped, req, crashes>>

\* CiWaitService.tryUpdateContext, the compare-and-set on the exact context.
TryUpdateContext(s) ==
  /\ pending /\ ctx = sw[s].raw
  /\ ctx' = sw[s].next
  /\ UNCHANGED <<pending, archived, aged, regs, comments, alerts, resumed, dropped, req, crashes>>

MustAlert(x) == x.at = 0 /\ ~x.alerted /\ x.fails >= AlertAfter

RecordContext(s) ==
  /\ sw[s].pc = "record"
  /\ \/ /\ TryUpdateContext(s)
        /\ \/ sw[s].next.at # 0 /\ Goto(s, "deliver", sw[s].next, NoCtx)
           \/ MustAlert(sw[s].next) /\ Goto(s, "alert", sw[s].next, NoCtx)
           \/ sw[s].next.at = 0 /\ ~MustAlert(sw[s].next) /\ Done(s)
     \/ /\ ~(pending /\ ctx = sw[s].raw)
        /\ Done(s)
        /\ UNCHANGED <<pending, ctx, archived, aged, regs, comments, alerts, resumed, dropped, req, crashes>>

\* _postPollFailureAlert: an insert that ignores an existing dedupe key.
PostAlert(s) ==
  /\ sw[s].pc = "alert"
  /\ \/ /\ Cardinality(alerts) < MaxAlerts \/ sw[s].raw.first \in alerts
        /\ alerts' = alerts \cup {sw[s].raw.first}
        /\ Goto(s, "mark", sw[s].raw, [sw[s].raw EXCEPT !.alerted = TRUE])
     \/ /\ Done(s)
        /\ UNCHANGED alerts
  /\ UNCHANGED <<pending, ctx, archived, aged, regs, comments, resumed, dropped, req, crashes>>

MarkAlerted(s) ==
  /\ sw[s].pc = "mark"
  /\ Done(s)
  /\ \/ TryUpdateContext(s)
     \/ /\ ~(pending /\ ctx = sw[s].raw)
        /\ UNCHANGED <<pending, ctx, archived, aged, regs, comments, alerts, resumed, dropped, req, crashes>>

\* Seeded faults: the claim pins the flag only, or nothing at all.
ClaimsFlagOnly(s) == pending
ClaimsAlways(s) == sw[s].raw.at # 0
\* The claim of CiWaitService.claimDelivery: the exact context must still be there.
Claims(s) == pending /\ ctx = sw[s].raw

\* Seeded fault: the comment is left to a step after the transaction.
CommentLater(s) == UNCHANGED comments
\* One transaction: the claim and, when it wins, the comment insert, which
\* ignores an existing dedupe key (the ticket and outcome.resolved_at).
InsertComment(s) ==
  comments' = IF \E k \in comments : k.at = sw[s].raw.at THEN comments
              ELSE comments \cup {[reg |-> sw[s].raw.reg, at |-> sw[s].raw.at]}

ClaimDelivery(s) ==
  /\ sw[s].pc = "deliver"
  /\ Claims(s)
  /\ pending' = FALSE
  /\ ctx' = NoCtx
  /\ InsertComment(s)
  /\ Goto(s, "resume", sw[s].raw, NoCtx)
  /\ UNCHANGED <<archived, aged, regs, alerts, resumed, dropped, req, crashes>>

\* The claim lost its race, or the transaction rolled back.
DeliverNothing(s) ==
  /\ sw[s].pc = "deliver"
  /\ Done(s)
  /\ UNCHANGED <<pending, ctx, archived, aged, regs, comments, alerts, resumed, dropped, req, crashes>>

\* Best effort: resumeTicket may also throw.
Resume(s) ==
  /\ sw[s].pc = "resume"
  /\ \/ /\ resumed[sw[s].raw.reg] < MaxResumes
        /\ resumed' = [resumed EXCEPT ![sw[s].raw.reg] = @ + 1]
     \/ UNCHANGED resumed
  /\ Done(s)
  /\ UNCHANGED <<pending, ctx, archived, aged, regs, comments, alerts, dropped, req, crashes>>

-----------------------------------------------------------------------------
(* The environment: time, crashes, a damaged row, and other requests.      *)

MaxAgePasses ==
  /\ pending /\ ~aged
  /\ aged' = TRUE
  /\ UNCHANGED <<pending, ctx, archived, regs, comments, alerts, resumed, dropped, sw, req, crashes>>

Crash ==
  /\ crashes < MaxCrashes
  /\ \/ \E s \in Sweeps : sw[s].pc # "idle"
     \/ \E c \in Callers \cup Editors : req[c].pc # "idle"
  /\ sw' = [s \in Sweeps |-> Idle]
  /\ req' = [c \in Callers \cup Editors |-> NoReq]
  /\ crashes' = crashes + 1
  /\ UNCHANGED <<pending, ctx, archived, aged, regs, comments, alerts, resumed, dropped>>

\* A row whose context no longer parses: the case the sweep's error outcome is for.
ContextDamaged ==
  /\ pending /\ ctx.owner /\ ctx.at = 0
  /\ ctx' = Plain(ctx.reg, FALSE, 0)
  /\ UNCHANGED <<pending, archived, aged, regs, comments, alerts, resumed, dropped, sw, req, crashes>>

\* TicketService.update, pend, unpend, move and the archive routes: read the
\* row, change other columns (or archived_at), save the whole row.
EditRead(e) ==
  /\ req[e].pc = "idle"
  /\ ReadRow(e, "edit")
  /\ UNCHANGED <<pending, ctx, archived, aged, regs, comments, alerts, resumed, dropped, sw, crashes>>

EditSave(e) ==
  /\ req[e].pc = "edit"
  /\ pending' = req[e].pending
  /\ ctx' = req[e].ctx
  /\ archived' \in BOOLEAN
  /\ dropped' = DroppedBy(req[e].pending, req[e].ctx)
  /\ EndRequest(e)
  /\ UNCHANGED <<aged, regs, comments, alerts, resumed, sw, crashes>>

-----------------------------------------------------------------------------
Request(c) == RegisterRead(c) \/ RegisterSave(c) \/ CancelRead(c) \/ CancelSave(c)

Sweep(s) ==
  \/ SweepStart(s) \/ EvaluateOne(s) \/ RecordContext(s) \/ PostAlert(s)
  \/ MarkAlerted(s) \/ ClaimDelivery(s) \/ DeliverNothing(s) \/ Resume(s)

Edit(e) == EditRead(e) \/ EditSave(e)

\* The service and its sweep, under crashes and damage but with no other writer.
Next ==
  \/ \E c \in Callers : Request(c)
  \/ \E s \in Sweeps : Sweep(s)
  \/ MaxAgePasses \/ Crash \/ ContextDamaged

Spec == Init /\ [][Next]_vars

\* The same with whole-row saves of other requests.
NextEdits == Next \/ \E e \in Editors : Edit(e)

SpecEdits == Init /\ [][NextEdits]_vars

\* The interval timer keeps starting sweeps, a started one keeps going, time
\* passes, and a delivery transaction does not fail for ever.
Fairness ==
  /\ \A s \in Sweeps : WF_vars(Sweep(s)) /\ SF_vars(ClaimDelivery(s))
  /\ WF_vars(MaxAgePasses)

FairSpec == Spec /\ Fairness
FairSpecEdits == SpecEdits /\ Fairness

-----------------------------------------------------------------------------
(* Properties.                                                             *)

SweepState == [pc: {"idle", "evaluate", "record", "alert", "mark", "deliver", "resume"},
               raw: Context, next: Context, now: {0} \cup Stamps]
RequestState == [pc: {"idle", "register", "cancel", "edit"},
                 pending: BOOLEAN, ctx: Context, archived: BOOLEAN]

\* Every variable stays in its domain; a flagged row always names a registration.
TypeOK ==
  /\ pending \in BOOLEAN /\ archived \in BOOLEAN /\ aged \in BOOLEAN
  /\ ctx \in Context
  /\ regs \in 0..MaxReg
  /\ comments \subseteq [reg: Regs, at: Stamps]
  /\ alerts \subseteq Stamps
  /\ resumed \in [Regs -> 0..MaxResumes]
  /\ dropped \subseteq Regs
  /\ sw \in [Sweeps -> SweepState]
  /\ req \in [Callers \cup Editors -> RequestState]
  /\ crashes \in 0..MaxCrashes

Active(r) == pending /\ ctx.reg = r
Delivered(r) == \E k \in comments : k.reg = r

\* _deliver: a wait gets one resolution comment at most, and at most one direct
\* resume call, however sweeps overlap and wherever the process crashes.
DeliveredAtMostOnce ==
  \A r \in Regs :
    /\ \A k, l \in comments : k.reg = r /\ l.reg = r => k = l
    /\ resumed[r] <= 1
    /\ resumed[r] = 1 => Delivered(r)

\* claimDelivery: a registered wait is still active, or was delivered, or was
\* cleared by a request, and never two of these: a crash between recording the
\* outcome and delivering it, or a delivery of an older wait, loses nothing.
OneFate ==
  \A r \in 1..regs :
    /\ Active(r) \/ Delivered(r) \/ r \in dropped
    /\ ~(Active(r) /\ Delivered(r))
    /\ ~(r \in dropped /\ (Active(r) \/ Delivered(r)))

\* The wait implements ExactlyOnce: what became of each registration.
FateOf(r) ==
  IF Delivered(r) THEN "delivered"
  ELSE IF r \in dropped THEN "cleared"
  ELSE IF Active(r) THEN "open" ELSE "none"

Promise == INSTANCE ExactlyOnce WITH made <- regs, fate <- [r \in Regs |-> FateOf(r)]

\* CiWaitResumeService, "a resolved wait must be delivered EXACTLY ONCE even
\* though a crash can land at any point": every step of the service is a step
\* of ExactlyOnce or invisible to it.
ImplementsExactlyOnce == Promise!Spec

\* _trackPollFailure: alerted is only ever recorded for a streak whose alert
\* comment is in the database, so a failed insert is retried.
AlertedIsPosted == ctx.alerted => ctx.first \in alerts

\* claimDelivery: a sweep clears the flag only for the wait whose outcome it
\* holds, and its comment appears in the same step.
ClearedByItsOwnDelivery ==
  [][\A s \in Sweeps :
       pending /\ ~pending' /\ sw[s].pc = "deliver" /\ sw'[s] # sw[s]
         => /\ ctx.reg = sw[s].raw.reg
            /\ \E k \in comments' : k.reg = ctx.reg]_vars

\* The bounded wait: every registered wait is delivered, cleared by a request,
\* or sits on an archived ticket.
WaitEnds == \A r \in Regs : Active(r) ~> (~Active(r) \/ archived)

\* registerWait: an active wait is never replaced by another registration.
NeverOverwritten == [][pending /\ pending' => ctx'.reg = ctx.reg]_vars

\* CiWaitOutcome.resolved_at: once recorded, the outcome of a wait never changes.
OutcomeSetOnce ==
  [][pending /\ pending' /\ ctx'.reg = ctx.reg /\ ctx.at # 0 => ctx'.at = ctx.at]_vars
=============================================================================

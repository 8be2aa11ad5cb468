---------------------------- MODULE CiWaitProofs ----------------------------
(* Proofs about CiWait, for any number of sweeps, requests and waits. *)
EXTENDS CiWait, TLAPS

-----------------------------------------------------------------------------
(* The inductive invariant.                                                *)

\* The row and every in-flight copy of it name registrations already made.
KnownRegs ==
  /\ pending => ctx.reg \in 1..regs
  /\ \A k \in comments : k.reg \in 1..regs
  /\ dropped \subseteq 1..regs

\* What a sweep holds between two of its steps.
SweepHolds ==
  \A s \in Sweeps :
    /\ sw[s].pc # "idle" => sw[s].raw.reg \in 1..regs
    /\ sw[s].pc \in {"evaluate", "record"} => sw[s].now # 0
    /\ sw[s].pc \in {"record", "mark"} => sw[s].next.reg = sw[s].raw.reg
    /\ sw[s].pc = "record" => sw[s].next.at \in {0, sw[s].now}
    /\ sw[s].pc = "deliver" => sw[s].raw.at # 0
    /\ sw[s].pc \in {"alert", "mark"} => sw[s].raw.at = 0 /\ sw[s].next.at = 0

\* A failure streak has a first failure, and a streak marked alerted has its
\* alert comment: in the row and in the copies sweeps hold.
Posted(x) ==
  /\ x.fails # 0 => x.first # 0
  /\ x.alerted => x.first \in alerts

AlertsPosted ==
  /\ Posted(ctx)
  /\ \A s \in Sweeps : Posted(sw[s].raw) /\ Posted(sw[s].next)
  /\ \A s \in Sweeps : sw[s].pc = "alert" => sw[s].raw.fails # 0

\* A sweep that has not recorded its outcome yet owns its timestamp, and the
\* outcome waiting in the row has no comment yet.
FreshStamps ==
  /\ \A s \in Sweeps : sw[s].pc \in {"evaluate", "record"} =>
       /\ sw[s].now # ctx.at
       /\ \A k \in comments : k.at # sw[s].now
       /\ \A u \in Sweeps \ {s} : sw[u].now # sw[s].now
  /\ pending /\ ctx.at # 0 => \A k \in comments : k.at # ctx.at

\* A delivered wait is resumed by the one sweep that claimed it.
OneResume ==
  /\ \A s \in Sweeps : sw[s].pc = "resume" =>
       /\ Delivered(sw[s].raw.reg)
       /\ resumed[sw[s].raw.reg] = 0
       /\ \A u \in Sweeps \ {s} : sw[u].pc = "resume" => sw[u].raw.reg # sw[s].raw.reg
  /\ \A r \in Regs : ~Delivered(r) => resumed[r] = 0

IInv ==
  /\ TypeOK /\ KnownRegs /\ SweepHolds /\ AlertsPosted /\ FreshStamps /\ OneResume
  /\ OneFate /\ DeliveredAtMostOnce

-----------------------------------------------------------------------------
(* Facts about the data.                                                   *)

\* The operators that build a context build one.
LEMMA ContextFacts ==
  /\ NoCtx \in Context
  /\ \A r \in 0..MaxReg, o \in BOOLEAN, a \in {0} \cup Stamps : Plain(r, o, a) \in Context
  BY ConstantsAssumption DEF NoCtx, Plain, Context

\* The empty context names no registration and holds no outcome.
LEMMA NoCtxFields == NoCtx.reg = 0 /\ NoCtx.at = 0
  BY DEF NoCtx, Plain

\* A context without a poll issue has nothing to post.
LEMMA PlainPosted ==
  ASSUME NEW r, NEW o, NEW a
  PROVE  Posted(Plain(r, o, a))
  BY DEF Posted, Plain

\* The empty context has nothing to post.
LEMMA NoCtxPosted == Posted(NoCtx)
  BY PlainPosted DEF NoCtx

\* The row as the rest of the argument sees it; a step that keeps it keeps
\* everything that is said about waits alone.
row == <<pending, ctx, regs, comments, dropped, resumed>>

\* A step that keeps the row keeps what is said about waits.
LEMMA RowUnchanged ==
  ASSUME IInv, UNCHANGED row
  PROVE  KnownRegs' /\ OneFate' /\ DeliveredAtMostOnce'
  BY DEF IInv, row, KnownRegs, OneFate, DeliveredAtMostOnce, Active, Delivered

-----------------------------------------------------------------------------
(* One lemma per action.                                                   *)

\* The service starts in the invariant.
THEOREM InitIInv == Init => IInv
<1> SUFFICES ASSUME Init PROVE IInv
  OBVIOUS
<1> USE ConstantsAssumption, ContextFacts, NoCtxFields DEF Init
<1>1. TypeOK
  <2>1. Idle \in SweepState /\ NoReq \in RequestState
    BY DEF Idle, NoReq, SweepState, RequestState
  <2>2. resumed \in [Regs -> 0..MaxResumes]
    BY DEF Regs
  <2>3. sw \in [Sweeps -> SweepState] /\ req \in [Callers \cup Editors -> RequestState]
    BY <2>1
  <2>4. regs \in 0..MaxReg /\ crashes \in 0..MaxCrashes
    OBVIOUS
  <2> QED
    BY <2>2, <2>3, <2>4 DEF TypeOK
<1>2. KnownRegs /\ OneFate /\ DeliveredAtMostOnce
  BY DEF KnownRegs, OneFate, DeliveredAtMostOnce, Regs, Delivered
<1>3. SweepHolds /\ FreshStamps /\ OneResume /\ AlertsPosted
  BY NoCtxPosted DEF SweepHolds, FreshStamps, OneResume, AlertsPosted, Idle
<1> QED
  BY <1>1, <1>2, <1>3 DEF IInv

\* A sweep that starts takes a fresh timestamp and a context of the row.
LEMMA SweepStartStep == ASSUME IInv, NEW s \in Sweeps, SweepStart(s) PROVE IInv'
<1> USE ConstantsAssumption, ContextFacts, NoCtxFields DEF SweepStart
<1>1. Now \in Stamps /\ Now \notin UsedStamps
  BY DEF Now
<1>2. TypeOK'
  BY <1>1 DEF IInv, TypeOK, SweepState
<1>3. KnownRegs' /\ OneFate' /\ DeliveredAtMostOnce'
  BY RowUnchanged DEF row
<1>4. SweepHolds'
  BY <1>1 DEF IInv, TypeOK, SweepHolds, KnownRegs
<1>5. FreshStamps'
  BY <1>1 DEF IInv, TypeOK, FreshStamps, UsedStamps
<1>6. OneResume'
  BY DEF IInv, TypeOK, OneResume, Delivered
<1>7. AlertsPosted'
  BY NoCtxPosted DEF IInv, TypeOK, AlertsPosted, Posted
<1> QED
  BY <1>2, <1>3, <1>4, <1>5, <1>6, <1>7 DEF IInv

\* The next context an evaluation prepares is of the same registration.
LEMMA EvaluateOneStep == ASSUME IInv, NEW s \in Sweeps, EvaluateOne(s) PROVE IInv'
<1> DEFINE x == sw[s].raw
<1>0. /\ sw[s] \in SweepState /\ x \in Context /\ sw[s].now \in Stamps
      /\ x.reg \in 1..regs /\ x.reg \in 0..MaxReg
  BY ConstantsAssumption DEF IInv, TypeOK, SweepHolds, EvaluateOne, SweepState, Context
<1>1. \/ Done(s)
      \/ x.at # 0 /\ Goto(s, "deliver", x, NoCtx)
      \/ \E y \in Context : /\ y.reg = x.reg /\ y.at \in {0, sw[s].now}
                            /\ Posted(y) /\ Goto(s, "record", x, y)
  <2>1. Unparseable(s) \in Context /\ Resolved(s) \in Context /\ Readable(s) \in Context
    BY <1>0, ContextFacts DEF Unparseable, Resolved, Readable
  <2>2. /\ Unparseable(s).reg = x.reg /\ Unparseable(s).at = sw[s].now
        /\ Resolved(s).reg = x.reg /\ Resolved(s).at = sw[s].now
        /\ Readable(s).reg = x.reg /\ Readable(s).at = 0
    BY DEF Unparseable, Resolved, Readable, Plain
  <2>3. TimedOut(s) \in Context /\ TimedOut(s).reg = x.reg /\ TimedOut(s).at = sw[s].now
    BY <1>0 DEF TimedOut, Context
  <2>4. x.fails < MaxFails /\ x.at = 0 =>
          Unreadable(s) \in Context /\ Unreadable(s).reg = x.reg /\ Unreadable(s).at = 0
    BY <1>0, ConstantsAssumption DEF Unreadable, Polled, FirstFailure, Context
  <2>5. Posted(Unparseable(s)) /\ Posted(Resolved(s)) /\ Posted(Readable(s))
    BY PlainPosted DEF Unparseable, Resolved, Readable
  <2>6. Posted(x)
    BY DEF IInv, AlertsPosted
  <2>7. Posted(TimedOut(s))
    BY <2>6, <1>0 DEF TimedOut, Posted, Context
  <2>8. Posted(Unreadable(s))
    BY <2>6, <1>0, ConstantsAssumption DEF Unreadable, Polled, FirstFailure, Posted, Context, IInv, TypeOK
  <2> QED
    BY <2>1, <2>2, <2>3, <2>4, <2>5, <2>7, <2>8 DEF EvaluateOne, HasOutcome
<1>2. TypeOK'
  BY <1>0, <1>1, ContextFacts DEF IInv, TypeOK, SweepState, Done, Idle, Goto, EvaluateOne
<1>3. KnownRegs' /\ OneFate' /\ DeliveredAtMostOnce'
  BY RowUnchanged DEF row, EvaluateOne
<1>4. SweepHolds'
  BY <1>0, <1>1 DEF IInv, TypeOK, SweepHolds, EvaluateOne, Done, Idle, Goto
<1>5. FreshStamps'
  BY <1>0, <1>1 DEF IInv, TypeOK, SweepHolds, FreshStamps, EvaluateOne, Done, Idle, Goto
<1>6. OneResume'
  BY <1>1 DEF IInv, TypeOK, OneResume, Delivered, EvaluateOne, Done, Idle, Goto
<1>7. AlertsPosted'
  BY <1>0, <1>1, NoCtxPosted DEF IInv, TypeOK, AlertsPosted, Posted, EvaluateOne, Done, Idle, Goto
<1> QED
  BY <1>2, <1>3, <1>4, <1>5, <1>6, <1>7 DEF IInv

\* tryUpdateContext puts a sweep's own context into the row, or nothing.
LEMMA RecordContextStep == ASSUME IInv, NEW s \in Sweeps, RecordContext(s) PROVE IInv'
<1> DEFINE y == sw[s].next
<1>0. /\ sw[s] \in SweepState /\ y \in Context /\ sw[s].raw \in Context
      /\ sw[s].now # 0 /\ y.reg = sw[s].raw.reg /\ y.at \in {0, sw[s].now}
      /\ sw[s].raw.reg \in 1..regs
  BY DEF IInv, TypeOK, SweepHolds, RecordContext, SweepState
<1>1. \/ Done(s)
      \/ y.at # 0 /\ Goto(s, "deliver", y, NoCtx)
      \/ y.at = 0 /\ y.fails # 0 /\ Goto(s, "alert", y, NoCtx)
  BY <1>0, ConstantsAssumption DEF RecordContext, MustAlert, Context
<1>2. \/ ctx' = ctx /\ pending' = pending
      \/ pending /\ pending' /\ ctx = sw[s].raw /\ ctx' = y
  BY DEF RecordContext, TryUpdateContext
<1>3. UNCHANGED <<archived, aged, regs, comments, alerts, resumed, dropped, req, crashes>>
  BY DEF RecordContext, TryUpdateContext
<1> HIDE DEF y
<1>4. TypeOK'
  <2>1. pending' \in BOOLEAN /\ ctx' \in Context
    BY <1>0, <1>2 DEF IInv, TypeOK
  <2>2. sw' \in [Sweeps -> SweepState]
    BY <1>0, <1>1, ContextFacts DEF IInv, TypeOK, SweepState, Done, Idle, Goto
  <2> QED
    BY <2>1, <2>2, <1>3 DEF IInv, TypeOK
<1>5. pending' = pending /\ (pending => ctx'.reg = ctx.reg)
  BY <1>0, <1>2
<1>6. KnownRegs' /\ OneFate' /\ DeliveredAtMostOnce'
  BY <1>3, <1>5 DEF IInv, KnownRegs, OneFate, DeliveredAtMostOnce, Active, Delivered
<1>7. SweepHolds'
  BY <1>0, <1>1, <1>3, NoCtxFields DEF IInv, TypeOK, SweepHolds, Done, Idle, Goto
<1>8. FreshStamps'
  <2>1. ASSUME NEW u \in Sweeps, sw'[u].pc \in {"evaluate", "record"}
        PROVE  u # s /\ sw'[u] = sw[u]
    BY <1>1, <2>1 DEF IInv, TypeOK, Done, Idle, Goto
  <2>2. \A u \in Sweeps : sw'[u].now \in {0, sw[u].now}
    BY <1>1 DEF IInv, TypeOK, Done, Idle, Goto
  <2>3. ASSUME NEW u \in Sweeps, sw'[u].pc \in {"evaluate", "record"}
        PROVE  /\ sw'[u].now # ctx'.at
               /\ \A k \in comments' : k.at # sw'[u].now
               /\ \A v \in Sweeps \ {u} : sw'[v].now # sw'[u].now
    <3>1. sw[u].now # 0 /\ sw[u].now # ctx.at /\ sw[u].now # sw[s].now
      BY <2>1, <2>3 DEF IInv, SweepHolds, FreshStamps, RecordContext
    <3> QED
      BY <3>1, <2>1, <2>2, <2>3, <1>0, <1>2, <1>3 DEF IInv, FreshStamps
  <2>4. pending' /\ ctx'.at # 0 => \A k \in comments' : k.at # ctx'.at
    BY <1>0, <1>2, <1>3 DEF IInv, FreshStamps, RecordContext
  <2> QED
    BY <2>3, <2>4 DEF FreshStamps
<1>9. OneResume'
  BY <1>1, <1>3 DEF IInv, TypeOK, OneResume, Delivered, Done, Idle, Goto
<1>10. AlertsPosted'
  BY <1>1, <1>2, <1>3, NoCtxPosted DEF IInv, TypeOK, AlertsPosted, Posted, Done, Idle, Goto, y
<1> QED
  BY <1>4, <1>6, <1>7, <1>8, <1>9, <1>10 DEF IInv

\* The alert comment is inserted before the streak may be marked.
LEMMA PostAlertStep == ASSUME IInv, NEW s \in Sweeps, PostAlert(s) PROVE IInv'
<1> DEFINE x == sw[s].raw
           y == [x EXCEPT !.alerted = TRUE]
<1>0. /\ sw[s] \in SweepState /\ x \in Context /\ x.at = 0 /\ x.reg \in 1..regs
      /\ Posted(x) /\ x.first \in Stamps
  BY DEF IInv, TypeOK, SweepHolds, AlertsPosted, Posted, PostAlert, SweepState, Context
<1>1. /\ y \in Context /\ y.reg = x.reg /\ y.at = 0
      /\ y.fails = x.fails /\ y.first = x.first
  BY <1>0 DEF Context
<1>2. \/ Done(s) /\ UNCHANGED alerts
      \/ Goto(s, "mark", x, y) /\ alerts' = alerts \cup {x.first}
  BY DEF PostAlert
<1>3. UNCHANGED <<pending, ctx, archived, aged, regs, comments, resumed, dropped, req, crashes>>
  BY DEF PostAlert
<1> HIDE DEF y
<1>4. TypeOK'
  BY <1>0, <1>1, <1>2, <1>3, ContextFacts DEF IInv, TypeOK, SweepState, Done, Idle, Goto
<1>5. KnownRegs' /\ OneFate' /\ DeliveredAtMostOnce'
  BY <1>3, RowUnchanged DEF row
<1>6. SweepHolds'
  BY <1>0, <1>1, <1>2, <1>3 DEF IInv, TypeOK, SweepHolds, Done, Idle, Goto
<1>7. FreshStamps'
  BY <1>2, <1>3 DEF IInv, TypeOK, SweepHolds, FreshStamps, PostAlert, Done, Idle, Goto
<1>8. OneResume'
  BY <1>2, <1>3 DEF IInv, TypeOK, OneResume, Delivered, Done, Idle, Goto
<1>9. AlertsPosted'
  <2>1. \A z : Posted(z) => Posted(z)'
    BY <1>2 DEF Posted
  <2> QED
    BY <1>0, <1>1, <1>2, <1>3, NoCtxPosted DEF IInv, TypeOK, AlertsPosted, Posted, Done, Idle, Goto
<1> QED
  BY <1>4, <1>5, <1>6, <1>7, <1>8, <1>9 DEF IInv

\* The streak that is marked is the one whose comment was inserted.
LEMMA MarkAlertedStep == ASSUME IInv, NEW s \in Sweeps, MarkAlerted(s) PROVE IInv'
<1> DEFINE y == sw[s].next
<1>0. /\ sw[s] \in SweepState /\ y \in Context /\ sw[s].raw \in Context
      /\ y.reg = sw[s].raw.reg /\ y.at = 0 /\ sw[s].raw.at = 0 /\ Posted(y)
  BY DEF IInv, TypeOK, SweepHolds, AlertsPosted, MarkAlerted, SweepState
<1>1. \/ ctx' = ctx /\ pending' = pending
      \/ pending /\ pending' /\ ctx = sw[s].raw /\ ctx' = y
  BY DEF MarkAlerted, TryUpdateContext
<1>2. UNCHANGED <<archived, aged, regs, comments, alerts, resumed, dropped, req, crashes>>
  BY DEF MarkAlerted, TryUpdateContext
<1>3. Done(s)
  BY DEF MarkAlerted
<1> HIDE DEF y
<1>4. TypeOK'
  BY <1>0, <1>1, <1>2, <1>3, ContextFacts DEF IInv, TypeOK, SweepState, Done, Idle
<1>5. pending' = pending /\ (pending => ctx'.reg = ctx.reg) /\ ctx'.at = ctx.at
  BY <1>0, <1>1
<1>6. KnownRegs' /\ OneFate' /\ DeliveredAtMostOnce'
  BY <1>2, <1>5 DEF IInv, KnownRegs, OneFate, DeliveredAtMostOnce, Active, Delivered
<1>7. SweepHolds' /\ OneResume'
  BY <1>2, <1>3 DEF IInv, TypeOK, SweepHolds, OneResume, Delivered, Done, Idle
<1>8. FreshStamps'
  BY <1>2, <1>3, <1>5 DEF IInv, TypeOK, SweepHolds, FreshStamps, Done, Idle
<1>9. AlertsPosted'
  BY <1>0, <1>1, <1>2, <1>3, NoCtxPosted DEF IInv, TypeOK, AlertsPosted, Posted, Done, Idle
<1> QED
  BY <1>4, <1>6, <1>7, <1>8, <1>9 DEF IInv

\* claimDelivery ends the wait of the row and adds its first and only comment.
LEMMA ClaimDeliveryStep == ASSUME IInv, NEW s \in Sweeps, ClaimDelivery(s) PROVE IInv'
<1> DEFINE x == sw[s].raw
           k == [reg |-> x.reg, at |-> x.at]
<1>0. /\ sw[s] \in SweepState /\ x \in Context /\ x.at \in Stamps
      /\ pending /\ ctx = x /\ x.reg \in 1..regs /\ x.reg \in Regs
  BY DEF IInv, TypeOK, KnownRegs, SweepHolds, ClaimDelivery, Claims, SweepState, Context, Regs
<1>1. comments' = comments \cup {k}
  BY <1>0, ConstantsAssumption DEF IInv, FreshStamps, ClaimDelivery, InsertComment
<1>2. /\ ~pending' /\ ctx' = NoCtx /\ Goto(s, "resume", x, NoCtx)
      /\ UNCHANGED <<archived, aged, regs, alerts, resumed, dropped, req, crashes>>
  BY DEF ClaimDelivery
<1>3. ~Delivered(x.reg) /\ x.reg \notin dropped
  BY <1>0 DEF IInv, OneFate, Active
<1>4. k.reg = x.reg /\ k.at = x.at /\ k \in [reg: Regs, at: Stamps]
  BY <1>0
<1> HIDE DEF k
<1>5. \A r : Delivered(r)' <=> (Delivered(r) \/ r = x.reg)
  BY <1>1, <1>4 DEF Delivered
<1>6. TypeOK'
  <2>1. pending' \in BOOLEAN
    BY DEF ClaimDelivery
  <2> QED
    BY <2>1, <1>0, <1>1, <1>2, <1>4, ContextFacts DEF IInv, TypeOK, SweepState, Goto
<1>7. KnownRegs'
  BY <1>0, <1>1, <1>2, <1>4 DEF IInv, KnownRegs
<1>8. OneFate'
  BY <1>0, <1>2, <1>3, <1>5 DEF IInv, OneFate, Active
<1>9. DeliveredAtMostOnce'
  BY <1>1, <1>2, <1>3, <1>4, <1>5 DEF IInv, DeliveredAtMostOnce, Delivered
<1>10. SweepHolds'
  BY <1>0, <1>2 DEF IInv, TypeOK, SweepHolds, Goto
<1>11. FreshStamps'
  BY <1>0, <1>1, <1>2, <1>4, NoCtxFields DEF IInv, TypeOK, SweepHolds, FreshStamps, Goto
<1>12. OneResume'
  <2>1. resumed[x.reg] = 0
    BY <1>0, <1>3 DEF IInv, OneResume
  <2>2. \A u \in Sweeps \ {s} : sw[u].pc = "resume" => sw[u].raw.reg # x.reg
    BY <1>3 DEF IInv, OneResume
  <2> QED
    BY <2>1, <2>2, <1>0, <1>2, <1>5 DEF IInv, TypeOK, OneResume, Goto
<1>13. AlertsPosted'
  BY <1>0, <1>2, NoCtxPosted DEF IInv, TypeOK, AlertsPosted, Posted, Goto
<1> QED
  BY <1>6, <1>7, <1>8, <1>9, <1>10, <1>11, <1>12, <1>13 DEF IInv

\* A lost claim changes nothing but the sweep.
LEMMA DeliverNothingStep == ASSUME IInv, NEW s \in Sweeps, DeliverNothing(s) PROVE IInv'
<1> USE DEF DeliverNothing, Done, Idle
<1>1. TypeOK'
  BY ContextFacts, ConstantsAssumption DEF IInv, TypeOK, SweepState
<1>2. KnownRegs' /\ OneFate' /\ DeliveredAtMostOnce'
  BY RowUnchanged DEF row
<1>3. SweepHolds' /\ OneResume'
  BY DEF IInv, TypeOK, SweepHolds, OneResume, Delivered
<1>4. FreshStamps'
  BY DEF IInv, TypeOK, SweepHolds, FreshStamps
<1>5. AlertsPosted'
  BY NoCtxPosted DEF IInv, TypeOK, AlertsPosted, Posted
<1> QED
  BY <1>1, <1>2, <1>3, <1>4, <1>5 DEF IInv

\* The sweep that claimed a wait is the only one to resume it.
LEMMA ResumeStep == ASSUME IInv, NEW s \in Sweeps, Resume(s) PROVE IInv'
<1> DEFINE q == sw[s].raw.reg
<1> \A u \in Sweeps : sw[u].pc = "resume" => sw[u].raw.reg \in 1..regs /\ sw[u].raw.reg \in Regs
  BY ConstantsAssumption DEF IInv, TypeOK, SweepHolds, Regs
<1>0. q \in 1..regs /\ q \in Regs /\ Delivered(q) /\ resumed[q] = 0
  BY DEF IInv, OneResume, Resume
<1>1. \/ resumed[q] < MaxResumes /\ resumed' = [resumed EXCEPT ![q] = resumed[q] + 1]
      \/ resumed' = resumed
  BY DEF Resume
<1>2. /\ Done(s)
      /\ UNCHANGED <<pending, ctx, archived, aged, regs, comments, alerts, dropped, req, crashes>>
  BY DEF Resume
<1>3. /\ resumed' \in [Regs -> 0..MaxResumes]
      /\ resumed'[q] <= 1
      /\ \A r \in Regs \ {q} : resumed'[r] = resumed[r]
  BY <1>0, <1>1, ConstantsAssumption DEF IInv, TypeOK
<1>4. TypeOK'
  BY <1>2, <1>3, ContextFacts DEF IInv, TypeOK, SweepState, Done, Idle
<1>5. KnownRegs' /\ OneFate'
  BY <1>2 DEF IInv, KnownRegs, OneFate, Active, Delivered
<1>6. DeliveredAtMostOnce'
  BY <1>0, <1>2, <1>3 DEF IInv, DeliveredAtMostOnce, Delivered
<1>7. SweepHolds'
  BY <1>2 DEF IInv, TypeOK, SweepHolds, Done, Idle
<1>8. FreshStamps'
  BY <1>2 DEF IInv, TypeOK, SweepHolds, FreshStamps, Done, Idle
<1>9. AlertsPosted'
  BY <1>2, NoCtxPosted DEF IInv, TypeOK, AlertsPosted, Posted, Done, Idle
<1>10. OneResume'
  <2>1. ASSUME NEW u \in Sweeps, sw'[u].pc = "resume"
        PROVE  u # s /\ sw'[u] = sw[u] /\ sw[u].raw.reg # q /\ sw[u].raw.reg \in Regs
    BY <2>1, <1>2 DEF IInv, TypeOK, OneResume, Resume, Done, Idle
  <2>2. \A r \in Regs : ~Delivered(r)' => resumed'[r] = 0
    BY <1>0, <1>2, <1>3 DEF IInv, OneResume, Delivered
  <2> QED
    BY <2>1, <2>2, <1>2, <1>3 DEF IInv, OneResume, Delivered
<1> QED
  BY <1>4, <1>5, <1>6, <1>7, <1>8, <1>9, <1>10 DEF IInv

\* registerWait and cancelWait end the active wait only by clearing it.
LEMMA RequestStep == ASSUME IInv, NEW c \in Callers, Request(c) PROVE IInv'
<1> c \in Callers \cup Editors
  OBVIOUS
<1> DEFINE kept == UNCHANGED <<alerts, comments, resumed, sw, crashes>>
<1>1. CASE RegisterRead(c) \/ CancelRead(c)
  <2>1. /\ UNCHANGED <<pending, ctx, archived, aged, regs, comments, alerts, resumed, dropped, sw, crashes>>
        /\ \E pc \in {"register", "cancel"} : ReadRow(c, pc)
    BY <1>1 DEF RegisterRead, CancelRead
  <2>2. TypeOK'
    BY <2>1 DEF IInv, TypeOK, ReadRow, RequestState
  <2>3. KnownRegs' /\ OneFate' /\ DeliveredAtMostOnce'
    BY <2>1, RowUnchanged DEF row
  <2>4. SweepHolds' /\ FreshStamps' /\ OneResume' /\ AlertsPosted'
    BY <2>1 DEF IInv, SweepHolds, FreshStamps, OneResume, Delivered, AlertsPosted, Posted
  <2> QED
    BY <2>2, <2>3, <2>4 DEF IInv
<1>2. CASE RegisterSave(c)
  <2>0. /\ regs \in Nat /\ regs + 1 \in Regs /\ regs' = regs + 1 /\ regs' \in 0..MaxReg
        /\ pending' /\ ctx' = Registered(regs + 1) /\ kept /\ EndRequest(c)
        /\ dropped' = DroppedBy(TRUE, Registered(regs + 1))
        /\ archived' = req[c].archived /\ aged' = FALSE
    BY <1>2, ConstantsAssumption DEF RegisterSave, IInv, TypeOK, Regs
  <2>1. ctx' \in Context /\ ctx'.reg = regs + 1 /\ ctx'.at = 0
    BY <2>0, ContextFacts, ConstantsAssumption DEF Registered, Plain, Regs
  <2>2. Posted(ctx)'
    BY <2>0 DEF Registered, Plain, Posted
  <2>3. dropped' = IF pending THEN dropped \cup {ctx.reg} ELSE dropped
    BY <2>0, <2>1 DEF DroppedBy, IInv, KnownRegs
  <2>4. dropped' \subseteq 1..regs /\ \A k \in comments : k.reg \in 1..regs
    BY <2>3 DEF IInv, KnownRegs
  <2>a. 1..regs \subseteq Regs /\ 1..regs \subseteq 1..(regs + 1) /\ regs + 1 \notin 1..regs
        /\ regs + 1 \in 1..(regs + 1)
    BY <2>0, ConstantsAssumption DEF Regs, IInv, TypeOK
  <2>5. TypeOK'
    <3>1. req' \in [Callers \cup Editors -> RequestState]
      BY <2>0, ContextFacts DEF IInv, TypeOK, EndRequest, NoReq, RequestState
    <3>2. pending' \in BOOLEAN /\ archived' \in BOOLEAN
      BY <1>2 DEF RegisterSave, IInv, TypeOK, RequestState
    <3>3. dropped' \subseteq Regs
      BY <2>4, <2>a
    <3> QED
      BY <3>1, <3>2, <3>3, <2>0, <2>1 DEF IInv, TypeOK
  <2>6. KnownRegs'
    BY <2>0, <2>1, <2>4, <2>a DEF KnownRegs
  <2>7. OneFate'
    <3>1. \A r : Delivered(r)' <=> Delivered(r)
      BY <2>0 DEF Delivered
    <3>2. ~Delivered(regs + 1) /\ regs + 1 \notin dropped'
      BY <2>4, <2>a DEF Delivered
    <3>3. \A r \in 1..(regs + 1) : r \in 1..regs \/ r = regs + 1
      BY <2>0
    <3>4. \A r \in 1..regs : r # regs + 1
      BY <2>0
    <3>5. \A r : Active(r)' <=> r = regs + 1
      BY <2>0, <2>1 DEF Active
    <3> QED
      BY <3>1, <3>2, <3>3, <3>4, <3>5, <2>0, <2>3 DEF IInv, OneFate, Active
  <2>8. SweepHolds'
    BY <2>0 DEF IInv, TypeOK, SweepHolds
  <2>9. FreshStamps' /\ OneResume' /\ DeliveredAtMostOnce' /\ AlertsPosted'
    BY <2>0, <2>1, <2>2 DEF IInv, SweepHolds, FreshStamps, OneResume, DeliveredAtMostOnce, Delivered, AlertsPosted, Posted
  <2> QED
    BY <2>5, <2>6, <2>7, <2>8, <2>9 DEF IInv
<1>3. CASE CancelSave(c)
  <2>0. /\ ~pending' /\ ctx' = NoCtx /\ kept /\ EndRequest(c) /\ UNCHANGED <<regs, aged>>
        /\ dropped' = IF pending THEN dropped \cup {ctx.reg} ELSE dropped
        /\ archived' = req[c].archived
    BY <1>3 DEF CancelSave, DroppedBy
  <2>1. dropped' \subseteq 1..regs
    BY <2>0 DEF IInv, KnownRegs
  <2>2. TypeOK'
    <3>1. req' \in [Callers \cup Editors -> RequestState]
      BY <2>0, ContextFacts DEF IInv, TypeOK, EndRequest, NoReq, RequestState
    <3>2. pending' \in BOOLEAN /\ archived' \in BOOLEAN
      BY <1>3 DEF CancelSave, IInv, TypeOK, RequestState
    <3>3. dropped' \subseteq Regs
      BY <2>1, ConstantsAssumption DEF Regs, IInv, TypeOK
    <3> QED
      BY <3>1, <3>2, <3>3, <2>0, ContextFacts DEF IInv, TypeOK
  <2>3. KnownRegs'
    BY <2>0, <2>1 DEF IInv, KnownRegs
  <2>4. OneFate'
    BY <2>0 DEF IInv, OneFate, Active, Delivered
  <2>5. SweepHolds' /\ FreshStamps' /\ OneResume' /\ DeliveredAtMostOnce' /\ AlertsPosted'
    BY <2>0, NoCtxFields, NoCtxPosted
       DEF IInv, SweepHolds, FreshStamps, OneResume, DeliveredAtMostOnce, Delivered, AlertsPosted, Posted
  <2> QED
    BY <2>2, <2>3, <2>4, <2>5 DEF IInv
<1> QED
  BY <1>1, <1>2, <1>3 DEF Request

\* Time, a crash or a damaged context costs no wait.
LEMMA EnvironmentStep == ASSUME IInv, MaxAgePasses \/ Crash \/ ContextDamaged PROVE IInv'
<1>1. CASE MaxAgePasses
  BY <1>1, RowUnchanged DEF MaxAgePasses, IInv, TypeOK, row, SweepHolds, FreshStamps, OneResume, Delivered, AlertsPosted, Posted
<1>2. CASE Crash
  <2>1. TypeOK'
    <3>1. Idle \in SweepState /\ NoReq \in RequestState
      BY ContextFacts DEF Idle, NoReq, SweepState, RequestState
    <3>2. crashes' \in 0..MaxCrashes
      BY <1>2, ConstantsAssumption DEF Crash, IInv, TypeOK
    <3> QED
      BY <1>2, <3>1, <3>2 DEF Crash, IInv, TypeOK
  <2>2. KnownRegs' /\ OneFate' /\ DeliveredAtMostOnce'
    BY <1>2, RowUnchanged DEF Crash, row
  <2>3. SweepHolds' /\ FreshStamps' /\ OneResume' /\ AlertsPosted'
    BY <1>2, NoCtxPosted DEF Crash, Idle, IInv, SweepHolds, FreshStamps, OneResume, Delivered, AlertsPosted, Posted
  <2> QED
    BY <2>1, <2>2, <2>3 DEF IInv
<1>3. CASE ContextDamaged
  <2>1. /\ ctx' = Plain(ctx.reg, FALSE, 0) /\ ctx.reg \in 0..MaxReg
        /\ UNCHANGED <<pending, archived, aged, regs, comments, alerts, resumed, dropped, sw, req, crashes>>
    BY <1>3 DEF ContextDamaged, IInv, TypeOK, Context
  <2>2. ctx' \in Context /\ ctx'.reg = ctx.reg /\ ctx'.at = 0
    BY <2>1, ContextFacts DEF Plain
  <2>3. Posted(ctx)'
    BY <2>1 DEF Plain, Posted
  <2>4. TypeOK' /\ KnownRegs' /\ OneFate' /\ DeliveredAtMostOnce'
    BY <2>1, <2>2 DEF IInv, TypeOK, KnownRegs, OneFate, DeliveredAtMostOnce, Active, Delivered
  <2>5. SweepHolds' /\ FreshStamps' /\ OneResume' /\ AlertsPosted'
    BY <2>1, <2>2, <2>3 DEF IInv, SweepHolds, FreshStamps, OneResume, Delivered, AlertsPosted, Posted
  <2> QED
    BY <2>4, <2>5 DEF IInv
<1> QED
  BY <1>1, <1>2, <1>3

-----------------------------------------------------------------------------
(* The theorems.                                                           *)

\* The invariant is inductive.
THEOREM IInvStep == IInv /\ [Next]_vars => IInv'
<1> SUFFICES ASSUME IInv, [Next]_vars PROVE IInv'
  OBVIOUS
<1>1. CASE UNCHANGED vars
  BY <1>1, RowUnchanged DEF vars, row, IInv, TypeOK, SweepHolds, FreshStamps, OneResume, Delivered, AlertsPosted, Posted
<1>2. ASSUME NEW s \in Sweeps, Sweep(s) PROVE IInv'
  BY <1>2, SweepStartStep, EvaluateOneStep, RecordContextStep, PostAlertStep,
     MarkAlertedStep, ClaimDeliveryStep, DeliverNothingStep, ResumeStep DEF Sweep
<1> QED
  BY <1>1, <1>2, RequestStep, EnvironmentStep DEF Next

\* CiWaitService and CiWaitResumeService keep every variable in its domain.
THEOREM TypeCorrect == Spec => []TypeOK
<1>1. IInv => TypeOK
  BY DEF IInv
<1> QED
  BY <1>1, InitIInv, IInvStep, PTL DEF Spec

\* However many sweeps overlap and wherever the process crashes, a wait gets at
\* most one resolution comment and one direct resume call (CiWaitResumeService._deliver).
THEOREM AtMostOnce == Spec => []DeliveredAtMostOnce
<1>1. IInv => DeliveredAtMostOnce
  BY DEF IInv
<1> QED
  BY <1>1, InitIInv, IInvStep, PTL DEF Spec

\* A registered wait is active, delivered or cleared, and never two of these
\* (CiWaitService.claimDelivery).
THEOREM FateIsUnique == Spec => []OneFate
<1>1. IInv => OneFate
  BY DEF IInv
<1> QED
  BY <1>1, InitIInv, IInvStep, PTL DEF Spec

\* A streak recorded as alerted has its alert comment (_trackPollFailure).
THEOREM AlertsArePosted == Spec => []AlertedIsPosted
<1>1. IInv => AlertedIsPosted
  BY DEF IInv, AlertsPosted, Posted, AlertedIsPosted
<1> QED
  BY <1>1, InitIInv, IInvStep, PTL DEF Spec

\* A delivery clears the wait whose outcome it holds and no other
\* (CiWaitService.claimDelivery).
THEOREM ClearsItsOwn == Spec => ClearedByItsOwnDelivery
<1>1. IInv /\ [Next]_vars =>
        [\A s \in Sweeps :
           pending /\ ~pending' /\ sw[s].pc = "deliver" /\ sw'[s] # sw[s]
             => /\ ctx.reg = sw[s].raw.reg
                /\ \E k \in comments' : k.reg = ctx.reg]_vars
  <2> SUFFICES ASSUME IInv, Next, NEW s \in Sweeps,
                      pending, ~pending', sw[s].pc = "deliver", sw'[s] # sw[s]
               PROVE  ctx.reg = sw[s].raw.reg /\ \E k \in comments' : k.reg = ctx.reg
    OBVIOUS
  <2>1. ClaimDelivery(s)
    <3>1. \A u \in Sweeps : Sweep(u) => (u = s \/ sw'[s] = sw[s])
      BY DEF IInv, TypeOK, Sweep, SweepStart, EvaluateOne, RecordContext, PostAlert, MarkAlerted,
             ClaimDelivery, DeliverNothing, Resume, Goto, Done
    <3>2. ~\E c \in Callers : Request(c)
      BY DEF Request, RegisterRead, RegisterSave, CancelRead, CancelSave
    <3>3. ~(MaxAgePasses \/ Crash \/ ContextDamaged)
      BY DEF MaxAgePasses, Crash, ContextDamaged
    <3> QED
      BY <3>1, <3>2, <3>3 DEF Next, Sweep, SweepStart, EvaluateOne, RecordContext, PostAlert,
         MarkAlerted, DeliverNothing, Resume
  <2>2. ctx = sw[s].raw /\ sw[s].raw.at # 0
    BY <2>1 DEF ClaimDelivery, Claims, IInv, SweepHolds
  <2>3. comments' = comments \cup {[reg |-> sw[s].raw.reg, at |-> sw[s].raw.at]}
    BY <2>1, <2>2 DEF ClaimDelivery, InsertComment, IInv, FreshStamps
  <2> DEFINE k == [reg |-> sw[s].raw.reg, at |-> sw[s].raw.at]
  <2>4. k.reg = sw[s].raw.reg /\ k \in comments'
    BY <2>3
  <2> HIDE DEF k
  <2> QED
    BY <2>2, <2>4
<1> QED
  BY <1>1, InitIInv, IInvStep, PTL DEF Spec, ClearedByItsOwnDelivery

fate == [r \in Regs |-> FateOf(r)]

\* An active wait is a registration, and a new one is not known yet.
LEMMA ActiveReg ==
  ASSUME IInv
  PROVE  /\ pending => ctx.reg \in Regs
         /\ regs + 1 \notin 1..regs
  BY ConstantsAssumption DEF IInv, TypeOK, KnownRegs, Regs

\* A wait that is active has the fate "open"; the other way round too.
LEMMA OpenFate ==
  ASSUME IInv, NEW r \in Regs
  PROVE  /\ fate[r] = "open" <=> Active(r)
         /\ Active(r) => ~Delivered(r) /\ r \notin dropped
  BY DEF fate, FateOf, IInv, OneFate, KnownRegs, Active

\* A step that keeps the fates' ingredients keeps the fates.
LEMMA SameFate ==
  ASSUME UNCHANGED <<comments, dropped, pending>>, pending => ctx'.reg = ctx.reg
  PROVE  fate' = fate
  BY DEF fate, FateOf, Active, Delivered

\* The service implements the abstract promise of ExactlyOnce.
THEOREM Implements == Spec => ImplementsExactlyOnce
<1>1. Init => Promise!Init
  BY DEF Init, Promise!Init, Promise!Regs, Regs, FateOf, Delivered, Active
<1>2. IInv /\ IInv' /\ [Next]_vars => [Promise!Next]_<<regs, fate>>
  <2> SUFFICES ASSUME IInv, IInv', [Next]_vars PROVE Promise!Next \/ UNCHANGED <<regs, fate>>
    OBVIOUS
  <2>1. CASE UNCHANGED vars
    BY <2>1, SameFate DEF vars
  <2>2. ASSUME NEW s \in Sweeps, Sweep(s) PROVE Promise!Next \/ UNCHANGED <<regs, fate>>
    <3>1. CASE ClaimDelivery(s)
      <4> DEFINE q == sw[s].raw.reg
      <4>1. q \in Regs /\ Active(q) /\ ctx = sw[s].raw /\ pending /\ ~pending' /\ UNCHANGED <<regs, dropped>>
        BY <3>1, ActiveReg DEF ClaimDelivery, Claims, Active
      <4>2. comments' = comments \cup {[reg |-> q, at |-> sw[s].raw.at]}
        BY <3>1, <4>1 DEF ClaimDelivery, InsertComment, IInv, FreshStamps, SweepHolds
      <4>3. \A r : Delivered(r)' <=> Delivered(r) \/ r = q
        <5> DEFINE k == [reg |-> q, at |-> sw[s].raw.at]
        <5>1. k.reg = q /\ comments' = comments \cup {k}
          BY <4>2
        <5> HIDE DEF k
        <5> QED
          BY <5>1 DEF Delivered
      <4>4. fate' = [fate EXCEPT ![q] = "delivered"]
        BY <4>1, <4>3 DEF fate, FateOf, Active
      <4> QED
        BY <4>1, <4>4, OpenFate DEF Promise!Next, Promise!End, Promise!Regs, Regs, fate
    <3>2. CASE RecordContext(s) \/ MarkAlerted(s)
      <4>1. /\ UNCHANGED <<comments, dropped, pending, regs>>
            /\ pending => ctx'.reg = ctx.reg
        BY <3>2 DEF RecordContext, MarkAlerted, TryUpdateContext, IInv, SweepHolds
      <4> QED
        BY <4>1, SameFate
    <3>3. CASE SweepStart(s) \/ EvaluateOne(s) \/ PostAlert(s) \/ DeliverNothing(s) \/ Resume(s)
      <4>1. UNCHANGED <<comments, dropped, pending, regs, ctx>>
        BY <3>3 DEF SweepStart, EvaluateOne, PostAlert, DeliverNothing, Resume
      <4> QED
        BY <4>1, SameFate
    <3> QED
      BY <2>2, <3>1, <3>2, <3>3 DEF Sweep
  <2>3. ASSUME NEW c \in Callers, Request(c) PROVE Promise!Next \/ UNCHANGED <<regs, fate>>
    <3>1. CASE RegisterRead(c) \/ CancelRead(c)
      <4>1. UNCHANGED <<comments, dropped, pending, regs, ctx>>
        BY <3>1 DEF RegisterRead, CancelRead
      <4> QED
        BY <4>1, SameFate
    <3>2. CASE RegisterSave(c)
      <4>1. /\ regs < MaxReg /\ regs' = regs + 1 /\ UNCHANGED comments
            /\ pending' /\ ctx'.reg = regs + 1
        BY <3>2 DEF RegisterSave, Registered, Plain
      <4>2. dropped' = IF pending THEN dropped \cup {ctx.reg} ELSE dropped
        <5>1. pending => ctx.reg # regs + 1
          BY DEF IInv, TypeOK, KnownRegs
        <5> QED
          BY <5>1, <3>2 DEF RegisterSave, DroppedBy, Registered, Plain
      <4>3. ~Delivered(regs + 1) /\ regs + 1 \notin dropped'
        BY <4>2, ActiveReg DEF IInv, KnownRegs, Delivered
      <4>4. fate' = [r \in Regs |-> IF r = regs + 1 THEN "open"
                                    ELSE IF fate[r] = "open" THEN "cleared" ELSE fate[r]]
        BY <4>1, <4>2, <4>3, OpenFate DEF fate, FateOf, Active, Delivered
      <4> QED
        BY <4>1, <4>4 DEF Promise!Next, Promise!Register, Promise!Regs, Regs, fate
    <3>3. CASE CancelSave(c)
      <4>1. /\ ~pending' /\ UNCHANGED <<comments, regs>>
            /\ dropped' = IF pending THEN dropped \cup {ctx.reg} ELSE dropped
        BY <3>3 DEF CancelSave, DroppedBy
      <4>2. CASE ~pending
        BY <4>1, <4>2 DEF fate, FateOf, Active, Delivered, IInv, TypeOK
      <4>3. CASE pending
        <5> DEFINE q == ctx.reg
        <5>1. q \in Regs /\ Active(q)
          BY <4>3, ActiveReg DEF Active
        <5>2. fate' = [fate EXCEPT ![q] = "cleared"]
          BY <5>1, <4>1, <4>3, OpenFate DEF fate, FateOf, Active, Delivered
        <5> QED
          BY <5>1, <5>2, <4>1, OpenFate DEF Promise!Next, Promise!End, Promise!Regs, Regs, fate
      <4> QED
        BY <4>2, <4>3
    <3> QED
      BY <2>3, <3>1, <3>2, <3>3 DEF Request
  <2>4. CASE MaxAgePasses \/ Crash \/ ContextDamaged
    <3>1. UNCHANGED <<comments, dropped, pending, regs>> /\ (pending => ctx'.reg = ctx.reg)
      BY <2>4 DEF MaxAgePasses, Crash, ContextDamaged, Plain
    <3> QED
      BY <3>1, SameFate
  <2> QED
    BY <2>1, <2>2, <2>3, <2>4 DEF Next
<1>3. Spec => []IInv
  BY InitIInv, IInvStep, PTL DEF Spec
<1> QED
  BY <1>1, <1>2, <1>3, PTL DEF Spec, ImplementsExactlyOnce, Promise!Spec, fate
=============================================================================

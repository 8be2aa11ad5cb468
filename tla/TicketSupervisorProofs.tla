----------------------- MODULE TicketSupervisorProofs -----------------------
(* Proofs about TicketSupervisor, for every setting of its limits.         *)
EXTENDS TicketSupervisor, FiniteSetTheorems, TLAPS

LEMMA MinOfTwo ==
  ASSUME NEW a \in Int, NEW b \in Int
  PROVE  Min({a, b}) = IF a <= b THEN a ELSE b
  BY DEF Min

LEMMA LongestIsNat == Longest \in Nat
<1> DEFINE S == {Stale, Resend, Probe}
<1>1. Stale \in Nat /\ Resend \in Nat /\ Probe \in Nat BY ConstantsAssumption
<1>2. \E x \in S : \A y \in S : x >= y BY <1>1
<1> QED BY <1>1, <1>2 DEF Longest, Max

LEMMA MaxCountIsNat == MaxCount \in Nat /\ MaxRedispatches \in Nat /\ MaxRedispatches > 0 /\ MaxRedispatches < MaxCount
  BY ConstantsAssumption, FS_CardinalityType DEF MaxCount

-----------------------------------------------------------------------------
(* Types.                                                                  *)

WorkerState ==
  [at: {"idle", "park", "claim", "guard", "prepare", "row"}, n: 0..MaxCount,
   by: {"caller", "supervisor", "nack", "stale nack", "quiet", "stopped"},
   cur: BOOLEAN, same: SUBSET Columns]
Answer == [cur: BOOLEAN, kind: {"processed", "suppressed", "nack"}]
AckState ==
  [at: {"idle", "renew", "release", "log"}, cur: BOOLEAN, n: 0..MaxCount,
   kind: {"processed", "suppressed", "nack"}, same: SUBSET Columns]

FlagsOK ==
  /\ busy \in BOOLEAN /\ pend \in BOOLEAN /\ strand \in BOOLEAN /\ reset \in BOOLEAN
  /\ online \in BOOLEAN /\ paused \in BOOLEAN /\ open \subseteq BOOLEAN /\ logged \in BOOLEAN
  /\ mine \in BOOLEAN /\ reached \in BOOLEAN
CountsOK ==
  /\ n \in 0..MaxCount /\ looked \subseteq Sweeps
  /\ since \in Null..Quiet /\ output \in Null..Quiet /\ live \in Null..AckTtl
  /\ disp \in 0..AckTtl /\ signal \in 0..Longest
AnswersOK ==
  /\ nack \in [left: Null..NackWait, cur: BOOLEAN]
  /\ acks \subseteq Answer /\ ack \in AckState
WorkersOK == worker \in [Workers -> WorkerState]

LEMMA TypeParts == TypeOK <=> FlagsOK /\ CountsOK /\ AnswersOK /\ WorkersOK
<1>1. {busy, pend, strand, reset, online, paused, logged, mine, reached} \subseteq BOOLEAN
      /\ open \subseteq BOOLEAN <=> FlagsOK
  BY DEF FlagsOK
<1> QED BY <1>1 DEF TypeOK, CountsOK, AnswersOK, WorkersOK, WorkerState, Answer, AckState

LEMMA FlagsStep ==
  ASSUME TypeOK, [Next]_vars
  PROVE  FlagsOK'
<1>0. FlagsOK BY TypeParts
<1> USE <1>0 DEF FlagsOK, vars, row, ages, host, answers, StartOver, Turn
<1>1. ASSUME NEW s \in Sweeps, Supervise(s) PROVE FlagsOK'
  <2>1. CASE Judge(s) BY <2>1 DEF Judge
  <2>2. CASE SuperviseNack(s) BY <2>2 DEF SuperviseNack
  <2>3. CASE ParkStalled(s) BY <2>3 DEF ParkStalled
  <2>4. CASE ClaimResend(s) BY <2>4 DEF ClaimResend
  <2> QED BY <1>1, <2>1, <2>2, <2>3, <2>4 DEF Supervise
<1>2. ASSUME NEW w \in Workers, Dispatch(w) PROVE FlagsOK'
  <2>1. CASE EmitRow(w)
    <3>1. mine' \in BOOLEAN
      <4>1. mine' = ("owner" \in worker[w].same) BY <2>1 DEF EmitRow
      <4> QED BY <4>1
    <3>2. open' \subseteq BOOLEAN /\ logged' \in BOOLEAN BY <2>1 DEF EmitRow
    <3> QED BY <2>1, <3>1, <3>2 DEF EmitRow
  <2>2. CASE EmitSend(w)
    <3>1. reached' \in BOOLEAN BY <2>2, Zenon DEF EmitSend
    <3>2. worker[w].cur \in BOOLEAN BY TypeParts, Zenon DEF WorkersOK, WorkerState
    <3>3. open' \subseteq BOOLEAN BY <2>2, <3>2 DEF EmitSend
    <3> QED BY <2>2, <3>1, <3>3 DEF EmitSend
  <2> QED BY <1>2, <2>1, <2>2 DEF Dispatch, DispatchGuard, DispatchFails
<1>3. CASE HandleAck
  <2>1. CASE AckLog
    <3>1. logged' \in BOOLEAN BY <2>1 DEF AckLog
    <3> QED BY <2>1, <3>1 DEF AckLog
  <2> QED BY <1>3, <2>1 DEF HandleAck, AckRead, AckRenew, AckRelease
<1>4. CASE ProgressHandled
  BY <1>4 DEF ProgressHandled
<1>5. CASE Users
  <2>1. CASE Leave BY <2>1 DEF Leave
  <2>2. ASSUME NEW c \in Callers, HumanComment(c) \/ Resume(c) \/ Unpend(c) PROVE FlagsOK'
    <3>1. CASE HumanComment(c) BY <3>1 DEF HumanComment
    <3>2. CASE Resume(c) BY <3>2 DEF Resume
    <3>3. CASE Unpend(c) BY <3>3 DEF Unpend
    <3> QED BY <2>2, <3>1, <3>2, <3>3
  <2>3. ASSUME NEW c \in Callers, Reassign(c) \/ Enter(c) PROVE FlagsOK'
    <3>1. CASE Reassign(c) BY <3>1 DEF Reassign
    <3>2. CASE Enter(c) BY <3>2 DEF Enter
    <3> QED BY <2>3, <3>1, <3>2
  <2> QED BY <1>5, <2>1, <2>2, <2>3 DEF Users
<1>6. CASE Agent \/ HostFlips \/ PauseFlips
  <2>1. CASE AgentActs \/ AgentOutput
    <3>1. CASE AgentActs BY <3>1 DEF AgentActs
    <3>2. CASE AgentOutput BY <3>2 DEF AgentOutput
    <3> QED BY <2>1, <3>1, <3>2
  <2>2. CASE StrandFlips
    <3>1. strand' \in BOOLEAN BY <2>2 DEF StrandFlips
    <3> QED BY <2>2, <3>1 DEF StrandFlips
  <2>3. CASE HostFlips
    <3>1. online' \in BOOLEAN BY <2>3 DEF HostFlips
    <3> QED BY <2>3, <3>1 DEF HostFlips
  <2>4. CASE PauseFlips
    <3>1. paused' \in BOOLEAN BY <2>4 DEF PauseFlips
    <3> QED BY <2>4, <3>1 DEF PauseFlips
  <2> QED BY <1>6, <2>1, <2>2, <2>3, <2>4 DEF Agent
<1>7. ASSUME NEW kind \in {"processed", "suppressed", "nack"}, HostAnswers(kind) PROVE FlagsOK'
  <2>1. open' \subseteq BOOLEAN BY <1>7 DEF HostAnswers
  <2> QED BY <1>7, <2>1 DEF HostAnswers
<1>8. CASE Tick \/ UNCHANGED vars
  BY <1>8 DEF Tick
<1> QED BY <1>1, <1>2, <1>3, <1>4, <1>5, <1>6, <1>7, <1>8 DEF Next

LEMMA CountsStep ==
  ASSUME TypeOK, [Next]_vars
  PROVE  CountsOK'
<1>0. CountsOK /\ 0 \in 0..MaxCount /\ Null \in Null..Quiet /\ Null \in Null..AckTtl /\ 0 \in Null..Quiet
      /\ 0 \in 0..AckTtl /\ 0 \in Null..AckTtl /\ 0 \in 0..Longest
  BY TypeParts, MaxCountIsNat, LongestIsNat, ConstantsAssumption DEF Null
<1> USE <1>0 DEF CountsOK, vars, row, ages, host, answers, StartOver, Turn
<1>1. ASSUME NEW s \in Sweeps, Supervise(s) PROVE CountsOK'
  <2>1. CASE SuperviseNack(s) BY <2>1 DEF SuperviseNack
  <2>2. CASE Judge(s)
    <3>1. output # Null => output \in Null..Quiet OBVIOUS
    <3> QED BY <2>2 DEF Judge
  <2>3. CASE ParkStalled(s) BY <2>3 DEF ParkStalled
  <2>4. CASE ClaimResend(s)
    <3>1. Min({n + 1, MaxCount}) \in 0..MaxCount BY MinOfTwo, MaxCountIsNat
    <3> QED BY <2>4, <3>1 DEF ClaimResend
  <2> QED BY <1>1, <2>1, <2>2, <2>3, <2>4 DEF Supervise
<1>2. ASSUME NEW w \in Workers, Dispatch(w) PROVE CountsOK'
  BY <1>2 DEF Dispatch, DispatchGuard, DispatchFails, EmitRow, EmitSend
<1>3. CASE HandleAck
  BY <1>3 DEF HandleAck, AckRead, AckRenew, AckRelease, AckLog
<1>4. CASE ProgressHandled
  BY <1>4 DEF ProgressHandled
<1>5. CASE Users
  BY <1>5 DEF Users, Leave, HumanComment, Resume, Unpend, Reassign, Enter
<1>6. CASE Agent \/ HostFlips \/ PauseFlips
  BY <1>6 DEF Agent, AgentActs, AgentOutput, StrandFlips, HostFlips, PauseFlips
<1>7. ASSUME NEW kind \in {"processed", "suppressed", "nack"}, HostAnswers(kind) PROVE CountsOK'
  BY <1>7 DEF HostAnswers
<1>8. CASE Tick
  <2>1. \A lo \in {Null, 0}, top \in Nat, x \in Int : x \in lo..top => Older(x, top) \in lo..top
    BY DEF Older, Null
  <2>2. {Quiet, AckTtl, Longest} \subseteq Nat BY LongestIsNat, ConstantsAssumption
  <2> QED BY <1>8, <2>1, <2>2 DEF Tick
<1>9. CASE UNCHANGED vars BY <1>9
<1> QED BY <1>1, <1>2, <1>3, <1>4, <1>5, <1>6, <1>7, <1>8, <1>9 DEF Next

\* What a write does to the other handlers: their reads grow old.
LEMMA Touched ==
  ASSUME WorkersOK, NEW C
  PROVE  /\ Touch(C) \in [Workers -> WorkerState]
         /\ \A w \in Workers : /\ Touch(C)[w].at = worker[w].at /\ Touch(C)[w].n = worker[w].n
                              /\ Touch(C)[w].by = worker[w].by /\ Touch(C)[w].cur = worker[w].cur
                              /\ Touch(C)[w].same = worker[w].same \ C
<1>1. \A w \in Workers : worker[w] \in WorkerState BY DEF WorkersOK
<1>2. \A r \in WorkerState : /\ [r EXCEPT !.same = @ \ C] \in WorkerState
                             /\ [r EXCEPT !.same = @ \ C].at = r.at /\ [r EXCEPT !.same = @ \ C].n = r.n
                             /\ [r EXCEPT !.same = @ \ C].by = r.by /\ [r EXCEPT !.same = @ \ C].cur = r.cur
                             /\ [r EXCEPT !.same = @ \ C].same = r.same \ C
  BY DEF WorkerState
<1> QED BY <1>1, <1>2 DEF Touch

LEMMA TouchedAck ==
  ASSUME ack \in AckState, NEW C
  PROVE  /\ TouchAck(C) \in AckState /\ TouchAck(C).at = ack.at
         /\ TouchAck(C).cur = ack.cur /\ TouchAck(C).same = ack.same \ C
  BY DEF TouchAck, AckState

LEMMA WorkerConstants ==
  /\ IdleWorker \in WorkerState /\ IdleWorker.at = "idle" /\ IdleWorker.by = "caller"
  /\ \A by \in {"caller", "supervisor", "nack", "stale nack"} :
       Sending(by) \in WorkerState /\ Sending(by).at = "guard" /\ Sending(by).by = by
<1>1. 0 \in 0..MaxCount BY MaxCountIsNat
<1> QED BY <1>1 DEF IdleWorker, Sending, WorkerState, Columns

\* What supervise() makes of a ticket.
LEMMA VerdictIs ==
  ASSUME NEW m \in 0..MaxCount, NEW a
  PROVE  /\ Verdict(m, a) \in WorkerState
         /\ Verdict(m, a).at \in {"idle", "park", "claim"}
         /\ Verdict(m, a).at = "park" =>
              /\ Verdict(m, a).same = Columns \ {"disp"}
              /\ Verdict(m, a).by = "quiet" => live # Null
              /\ Verdict(m, a).by # "quiet" => m >= MaxRedispatches /\ Verdict(m, a).n = m
<1> DEFINE next(at, by) == [at |-> at, n |-> m, by |-> by, cur |-> FALSE, same |-> Columns \ {"disp"}]
<1>1. CASE LiveConfirmed /\ a # Null /\ a >= Quiet
  <2>1. Verdict(m, a) = next("park", "quiet") BY <1>1 DEF Verdict
  <2> QED BY <1>1, <2>1 DEF WorkerState, LiveConfirmed
<1>2. CASE ~(LiveConfirmed /\ a # Null /\ a >= Quiet) /\ (strand \/ ~Silent(m))
  <2>1. Verdict(m, a) = IdleWorker BY <1>2 DEF Verdict
  <2> QED BY <2>1, WorkerConstants
<1>3. CASE ~(LiveConfirmed /\ a # Null /\ a >= Quiet) /\ ~(strand \/ ~Silent(m)) /\ TriesUsedUp(m)
  <2>1. Verdict(m, a) = next("park", "stopped") BY <1>3 DEF Verdict
  <2> QED BY <1>3, <2>1 DEF WorkerState, TriesUsedUp
<1>4. CASE ~(LiveConfirmed /\ a # Null /\ a >= Quiet) /\ ~(strand \/ ~Silent(m)) /\ ~TriesUsedUp(m)
  <2>1. Verdict(m, a) = next("claim", "supervisor") BY <1>4 DEF Verdict
  <2> QED BY <2>1 DEF WorkerState
<1> QED BY <1>1, <1>2, <1>3, <1>4

LEMMA WorkersStep ==
  ASSUME TypeOK, [Next]_vars
  PROVE  WorkersOK'
<1>0. WorkersOK /\ CountsOK BY TypeParts
<1> USE DEF WorkersOK, vars, answers, Become
<1>1. ASSUME NEW s \in Sweeps, Supervise(s) PROVE WorkersOK'
  <2>1. CASE SuperviseNack(s) BY <1>0, <2>1, WorkerConstants DEF SuperviseNack
  <2>2. CASE Judge(s)
    <3>1. 0 \in 0..MaxCount /\ n \in 0..MaxCount BY <1>0, MaxCountIsNat DEF CountsOK
    <3>2. Verdict(0, output) \in WorkerState /\ Verdict(n, since) \in WorkerState BY <3>1, VerdictIs
    <3> QED BY <1>0, <2>2, <3>2, Touched DEF Judge
  <2>3. CASE ParkStalled(s) BY <1>0, <2>3, WorkerConstants DEF ParkStalled
  <2>4. CASE ClaimResend(s)
    <3>1. [Sending("supervisor") EXCEPT !.same = @ \cap worker[s].same] \in WorkerState
      BY WorkerConstants DEF WorkerState
    <3> QED BY <1>0, <2>4, <3>1, WorkerConstants DEF ClaimResend
  <2> QED BY <1>1, <2>1, <2>2, <2>3, <2>4 DEF Supervise
<1>2. ASSUME NEW w \in Workers, Dispatch(w) PROVE WorkersOK'
  <2>1. [worker[w] EXCEPT !.at = "prepare"] \in WorkerState
    BY <1>0 DEF WorkerState
  <2>2. CASE EmitSend(w)
    <3>1. PICK C : worker' = [Touch(C) EXCEPT ![w] = IdleWorker] BY <2>2 DEF EmitSend
    <3> QED BY <1>0, <3>1, Touched, WorkerConstants
  <2>3. CASE EmitRow(w)
    <3>1. \A v \in Workers : /\ [worker[v] EXCEPT !.at = "row", !.cur = TRUE] \in WorkerState
                             /\ [worker[v] EXCEPT !.cur = FALSE] \in WorkerState
      BY <1>0 DEF WorkerState
    <3> QED BY <2>3, <3>1 DEF EmitRow
  <2> QED BY <1>0, <1>2, <2>1, <2>2, <2>3, WorkerConstants DEF Dispatch, DispatchGuard, DispatchFails
<1>3. CASE HandleAck
  BY <1>0, <1>3, Touched DEF HandleAck, AckRead, AckRenew, AckRelease, AckLog
<1>4. CASE ProgressHandled
  BY <1>0, <1>4, Touched DEF ProgressHandled
<1>5. CASE Users
  <2>1. CASE Leave BY <1>0, <2>1, Touched DEF Leave
  <2>2. ASSUME NEW c \in Callers, HumanComment(c) \/ Resume(c) \/ Enter(c) PROVE WorkersOK'
    BY <1>0, <2>2, WorkerConstants DEF HumanComment, Resume, Enter
  <2>3. ASSUME NEW c \in Callers, Unpend(c) PROVE WorkersOK'
    BY <1>0, <2>3, Touched, WorkerConstants DEF Unpend
  <2>4. ASSUME NEW c \in Callers, Reassign(c) PROVE WorkersOK'
    <3>1. PICK C : worker' = [Touch(C) EXCEPT ![c] = IF busy /\ ~pend THEN Sending("caller") ELSE @]
      BY <2>4 DEF Reassign
    <3>2. Touch(C) \in [Workers -> WorkerState] BY <1>0, Touched
    <3> QED BY <3>1, <3>2, WorkerConstants
  <2> QED BY <1>5, <2>1, <2>2, <2>3, <2>4 DEF Users
<1>6. CASE Agent \/ HostFlips \/ PauseFlips
  BY <1>0, <1>6 DEF Agent, AgentActs, AgentOutput, StrandFlips, HostFlips, PauseFlips
<1>7. ASSUME NEW kind \in {"processed", "suppressed", "nack"}, HostAnswers(kind) PROVE WorkersOK'
  BY <1>0, <1>7 DEF HostAnswers
<1>8. CASE Tick \/ UNCHANGED vars
  BY <1>0, <1>8 DEF Tick
<1> QED BY <1>1, <1>2, <1>3, <1>4, <1>5, <1>6, <1>7, <1>8 DEF Next

LEMMA AnswersStep ==
  ASSUME TypeOK, [Next]_vars
  PROVE  AnswersOK'
<1>0. AnswersOK /\ CountsOK /\ ack \in AckState BY TypeParts DEF AnswersOK
<1> USE DEF AnswersOK, vars, answers
<1>1. ASSUME NEW s \in Sweeps, Supervise(s) PROVE AnswersOK'
  <2>1. NoNack \in [left: Null..NackWait, cur: BOOLEAN] BY ConstantsAssumption DEF NoNack, Null
  <2>2. CASE SuperviseNack(s) BY <1>0, <2>1, <2>2 DEF SuperviseNack
  <2>3. CASE Judge(s) BY <1>0, <2>3, TouchedAck DEF Judge
  <2>4. CASE ParkStalled(s) \/ ClaimResend(s) BY <1>0, <2>4 DEF ParkStalled, ClaimResend
  <2> QED BY <1>1, <2>2, <2>3, <2>4 DEF Supervise
<1>2. ASSUME NEW w \in Workers, Dispatch(w) PROVE AnswersOK'
  <2>1. CASE EmitRow(w)
    <3>1. ack' \in AckState BY <1>0, <2>1 DEF EmitRow, AckState
    <3>2. acks' = {[cur |-> FALSE, kind |-> a.kind] : a \in acks} /\ nack' = nack BY <2>1 DEF EmitRow
    <3>3. acks' \subseteq Answer
      <4>1. \A a \in Answer : [cur |-> FALSE, kind |-> a.kind] \in Answer BY DEF Answer
      <4> QED BY <1>0, <3>2, <4>1
    <3> QED BY <1>0, <3>1, <3>2, <3>3
  <2>2. CASE EmitSend(w) BY <1>0, <2>2, TouchedAck DEF EmitSend
  <2> QED BY <1>0, <1>2, <2>1, <2>2 DEF Dispatch, DispatchGuard, DispatchFails
<1>3. CASE HandleAck
  <2>1. IdleAck \in AckState /\ \A at \in {"log"} : [ack EXCEPT !.at = at] \in AckState
    BY <1>0, MaxCountIsNat DEF IdleAck, AckState
  <2>2. ASSUME NEW a \in acks, AckRead(a) PROVE AnswersOK'
    <3>1. a \in Answer /\ n \in 0..MaxCount BY <1>0 DEF CountsOK
    <3>2. \A step \in {"renew", "release", "log"} :
             [at |-> step, kind |-> a.kind, cur |-> a.cur, n |-> n, same |-> Columns \ {"progress"}] \in AckState
      BY <3>1 DEF AckState, Answer
    <3>3. ack' \in AckState BY <2>1, <2>2, <3>2 DEF AckRead
    <3>4. acks' \subseteq acks /\ nack' = nack BY <2>2 DEF AckRead
    <3> QED BY <1>0, <3>3, <3>4
  <2>3. CASE AckRenew \/ AckRelease
    BY <1>0, <2>1, <2>3 DEF AckRenew, AckRelease
  <2>4. CASE AckLog
    <3>1. nack' \in [left: Null..NackWait, cur: BOOLEAN]
      BY <1>0, <2>4, ConstantsAssumption DEF AckLog, NoNack, Null, AckState
    <3> QED BY <1>0, <2>1, <2>4, <3>1 DEF AckLog
  <2> QED BY <1>3, <2>2, <2>3, <2>4 DEF HandleAck
<1>4. CASE ProgressHandled
  BY <1>0, <1>4, TouchedAck DEF ProgressHandled
<1>5. CASE Users
  BY <1>0, <1>5, TouchedAck DEF Users, Leave, HumanComment, Resume, Unpend, Reassign, Enter
<1>6. CASE Agent \/ HostFlips \/ PauseFlips
  BY <1>0, <1>6 DEF Agent, AgentActs, AgentOutput, StrandFlips, HostFlips, PauseFlips
<1>7. ASSUME NEW kind \in {"processed", "suppressed", "nack"}, HostAnswers(kind) PROVE AnswersOK'
  <2>1. PICK c \in open : acks' = acks \cup {[cur |-> c, kind |-> kind]} BY <1>7 DEF HostAnswers
  <2>2. c \in BOOLEAN BY TypeParts DEF FlagsOK
  <2>3. [cur |-> c, kind |-> kind] \in Answer BY <2>2 DEF Answer
  <2>4. UNCHANGED <<nack, ack>> BY <1>7 DEF HostAnswers
  <2> QED BY <1>0, <2>1, <2>3, <2>4
<1>8. CASE Tick
  <2>1. nack' \in [left: Null..NackWait, cur: BOOLEAN]
    BY <1>0, <1>8, ConstantsAssumption DEF Tick, Null
  <2> QED BY <1>0, <1>8, <2>1 DEF Tick
<1>9. CASE UNCHANGED vars BY <1>0, <1>9
<1> QED BY <1>1, <1>2, <1>3, <1>4, <1>5, <1>6, <1>7, <1>8, <1>9 DEF Next

-----------------------------------------------------------------------------
(* The inductive invariant.                                                *)

\* A dispatch has written the latest trigger_emitted row and not yet
\* last_dispatched_at.
Newest == \E w \in Workers : worker[w].at = "row" /\ worker[w].cur = TRUE

\* The renewal compares last_dispatched_at: as long as that column holds what
\* applyManagerAck read, the answer is to the latest row, or the dispatch behind
\* the latest row is still between its two writes.
RenewIsCurrent == ack.at = "renew" /\ "disp" \in ack.same => ack.cur = TRUE \/ Newest

\* A sweep that is about to write had its turn in this interval.
HadTurn == \A s \in Sweeps : worker[s].at \in {"park", "claim"} => s \in looked

\* A sweep parks a quiet process that it saw confirmed alive: while the lease
\* is the one it read, there is one, and no progress was recorded.
QuietIsLive ==
  \A s \in Sweeps :
    worker[s].at = "park" /\ worker[s].by = "quiet" /\ "live" \in worker[s].same =>
      live # Null /\ "progress" \in worker[s].same

\* A sweep parks any other ticket because its tries are used up, and after
\* progress each sweep of the interval has at most one try to count.
Claimers == {t \in Sweeps : worker[t].at = "claim"}
StoppedFor(s) == worker[s].at = "park" /\ worker[s].by # "quiet"
TriesSeen == \A s \in Sweeps : StoppedFor(s) => worker[s].n >= MaxRedispatches
FewTries ==
  \A s \in Sweeps :
    StoppedFor(s) /\ "progress" \notin worker[s].same =>
      n + Cardinality(Claimers) <= Cardinality(looked \ {s})

Sweeping == HadTurn /\ QuietIsLive /\ TriesSeen /\ FewTries
IInv == TypeOK /\ RenewIsCurrent /\ Sweeping

LEMMA Finite ==
  ASSUME NEW S, S \subseteq Sweeps
  PROVE  /\ IsFiniteSet(S) /\ Cardinality(S) \in Nat
         /\ \A T \in SUBSET S : IsFiniteSet(T) /\ Cardinality(T) \in Nat /\ Cardinality(T) <= Cardinality(S)
<1>1. IsFiniteSet(S) BY ConstantsAssumption, FS_Subset
<1> QED BY <1>1, FS_Subset, FS_CardinalityType

\* A step after which no sweep is about to write that was not before: columns C
\* are written, and the count stays or starts over.
LEMMA QuietStep ==
  ASSUME TypeOK, TypeOK', Sweeping, NEW C,
         \A t \in Sweeps : worker'[t].at \in {"park", "claim"} =>
           /\ worker'[t].at = worker[t].at /\ worker'[t].n = worker[t].n
           /\ worker'[t].by = worker[t].by /\ worker'[t].same = worker[t].same \ C,
         looked \subseteq looked',
         n' = 0 \/ (n' = n /\ "progress" \notin C),
         "live" \in C \/ live' = live,
         "progress" \in C => "live" \in C \/ live = Null
  PROVE  Sweeping'
<1>1. HadTurn' BY DEF Sweeping, HadTurn
<1>2. QuietIsLive' BY DEF Sweeping, QuietIsLive
<1>3. TriesSeen' BY DEF Sweeping, TriesSeen, StoppedFor
<1>4. FewTries'
  <2> SUFFICES ASSUME NEW s \in Sweeps, StoppedFor(s)', "progress" \notin worker'[s].same
               PROVE  n' + Cardinality(Claimers') <= Cardinality(looked' \ {s})
    BY DEF FewTries
  <2>1. looked' \subseteq Sweeps BY DEF TypeOK
  <2>2. CASE n' = 0
    <3>1. Claimers' \subseteq looked' \ {s} BY <1>1 DEF HadTurn, Claimers, StoppedFor
    <3> QED BY <2>1, <2>2, <3>1, Finite
  <2>3. CASE n' = n /\ "progress" \notin C
    <3>1. n + Cardinality(Claimers) <= Cardinality(looked \ {s})
      BY <2>3 DEF Sweeping, FewTries, StoppedFor
    <3>2. Claimers' \subseteq Claimers /\ Claimers \subseteq Sweeps BY DEF Claimers
    <3>3. looked \ {s} \subseteq looked' \ {s} OBVIOUS
    <3>4. /\ Cardinality(Claimers') \in Nat /\ Cardinality(Claimers) \in Nat
          /\ Cardinality(Claimers') <= Cardinality(Claimers)
      BY <3>2, Finite
    <3>5. /\ Cardinality(looked \ {s}) \in Nat /\ Cardinality(looked' \ {s}) \in Nat
          /\ Cardinality(looked \ {s}) <= Cardinality(looked' \ {s})
      BY <2>1, <3>3, Finite
    <3>6. n \in Nat BY TypeParts, MaxCountIsNat DEF CountsOK
    <3> QED BY <2>3, <3>1, <3>4, <3>5, <3>6
  <2> QED BY <2>2, <2>3
<1> QED BY <1>1, <1>2, <1>3, <1>4 DEF Sweeping

\* Nobody is between a read and its write when the next interval begins.
LEMMA TickStep ==
  ASSUME TypeOK, Sweeping, Tick
  PROVE  Sweeping'
<1>1. \A s \in Sweeps : worker'[s].at \notin {"park", "claim"} BY DEF Tick, Workers
<1> QED BY <1>1 DEF Sweeping, HadTurn, QuietIsLive, TriesSeen, FewTries, StoppedFor

LEMMA ClaimStep ==
  ASSUME TypeOK, TypeOK', Sweeping, NEW s \in Sweeps, ClaimResend(s)
  PROVE  Sweeping'
<1>0. WorkersOK /\ n \in 0..MaxCount /\ n \in Nat BY TypeParts, MaxCountIsNat DEF CountsOK
<1>1. \A t \in Sweeps : worker'[t].at \in {"park", "claim"} => t # s /\ worker'[t] = worker[t]
  <2>1. [Sending("supervisor") EXCEPT !.same = @ \cap worker[s].same].at = "guard" BY DEF Sending
  <2> QED BY <1>0, <2>1, WorkerConstants DEF ClaimResend, Become, WorkersOK, Workers
<1>2. UNCHANGED <<live, looked>> /\ worker[s].at = "claim" BY DEF ClaimResend
<1>3. n' \in Nat /\ n' <= n + 1
  <2>1. Min({n + 1, MaxCount}) = IF n + 1 <= MaxCount THEN n + 1 ELSE MaxCount BY <1>0, MinOfTwo, MaxCountIsNat
  <2>2. n' = n \/ n' = Min({n + 1, MaxCount}) BY DEF ClaimResend
  <2> QED BY <1>0, <2>1, <2>2, MaxCountIsNat
<1>4. HadTurn' /\ QuietIsLive' /\ TriesSeen'
  BY <1>1, <1>2 DEF Sweeping, HadTurn, QuietIsLive, TriesSeen, StoppedFor
<1>5. FewTries'
  <2> SUFFICES ASSUME NEW t \in Sweeps, StoppedFor(t)', "progress" \notin worker'[t].same
               PROVE  n' + Cardinality(Claimers') <= Cardinality(looked \ {t})
    BY <1>2 DEF FewTries
  <2>1. n + Cardinality(Claimers) <= Cardinality(looked \ {t})
    BY <1>1 DEF Sweeping, FewTries, StoppedFor
  <2>2. Claimers \subseteq Sweeps /\ s \in Claimers /\ Claimers' \subseteq Claimers \ {s}
    BY <1>1, <1>2 DEF Claimers
  <2>3. IsFiniteSet(Claimers) /\ Cardinality(Claimers) \in Nat BY <2>2, Finite
  <2>4. Cardinality(Claimers \ {s}) = Cardinality(Claimers) - 1 BY <2>2, <2>3, FS_RemoveElement
  <2>5. Cardinality(Claimers') \in Nat /\ Cardinality(Claimers') <= Cardinality(Claimers \ {s})
    BY <2>2, Finite
  <2>6. looked \subseteq Sweeps BY DEF TypeOK
  <2>7. Cardinality(looked \ {t}) \in Nat BY <2>6, Finite
  <2> QED BY <1>0, <1>3, <2>1, <2>3, <2>4, <2>5, <2>7
<1> QED BY <1>4, <1>5 DEF Sweeping

LEMMA JudgeStep ==
  ASSUME TypeOK, TypeOK', Sweeping, NEW s \in Sweeps, Judge(s)
  PROVE  Sweeping'
<1>0. WorkersOK /\ n \in 0..MaxCount /\ n \in Nat /\ 0 \in 0..MaxCount /\ looked \subseteq Sweeps
  BY TypeParts, MaxCountIsNat DEF CountsOK
<1>1. worker[s].at = "idle" /\ s \notin looked /\ looked' = looked \cup {s} /\ live' = live
  BY DEF Judge, Turn
<1> DEFINE C == IF output # Null THEN {"live", "progress"} ELSE {}
           m == IF output # Null THEN 0 ELSE n
           age == IF output # Null THEN output ELSE since
<1>2. /\ worker' = [Touch(C) EXCEPT ![s] = Verdict(m, age)] /\ m = n' /\ m \in 0..MaxCount
      /\ (n' = 0 /\ "live" \in C) \/ (n' = n /\ "progress" \notin C)
  <2>1. CASE output # Null
    <3>1. worker' = [Touch({"live", "progress"}) EXCEPT ![s] = Verdict(0, output)] /\ n' = 0
      BY <2>1 DEF Judge
    <3>2. C = {"live", "progress"} /\ m = 0 /\ age = output BY <2>1
    <3> HIDE DEF C, m, age
    <3> QED BY <1>0, <3>1, <3>2
  <2>2. CASE output = Null
    <3>1. worker' = [worker EXCEPT ![s] = Verdict(n, since)] /\ n' = n BY <2>2 DEF Judge, Become
    <3>2. \A w \in Workers : Touch({})[w] = worker[w]
      <4>1. \A r \in WorkerState : [r EXCEPT !.same = @ \ {}] = r BY DEF WorkerState
      <4> QED BY <1>0, <4>1 DEF Touch, WorkersOK
    <3>3. Touch({}) = worker BY <1>0, <3>2, Touched DEF WorkersOK
    <3> QED BY <1>0, <2>2, <3>1, <3>3
  <2> QED BY <2>1, <2>2
<1> HIDE DEF C, m, age
<1>3. \A t \in Sweeps : t # s =>
        /\ worker'[t].at = worker[t].at /\ worker'[t].n = worker[t].n
        /\ worker'[t].by = worker[t].by /\ worker'[t].same = worker[t].same \ C
  BY <1>0, <1>2, Touched DEF Workers
<1>4. worker'[s] = Verdict(m, age) BY <1>0, <1>2, Touched DEF Workers
<1>5. /\ worker'[s].at \in {"idle", "park", "claim"}
      /\ worker'[s].at = "park" =>
           /\ "progress" \in worker'[s].same
           /\ worker'[s].by = "quiet" => live # Null
           /\ worker'[s].by # "quiet" => worker'[s].n >= MaxRedispatches
  BY <1>2, <1>4, VerdictIs DEF Columns
<1>6. HadTurn' BY <1>1, <1>3 DEF Sweeping, HadTurn
<1>7. QuietIsLive' /\ TriesSeen'
  BY <1>1, <1>2, <1>3, <1>5 DEF Sweeping, QuietIsLive, TriesSeen, StoppedFor
<1>8. FewTries'
  <2> SUFFICES ASSUME NEW t \in Sweeps, StoppedFor(t)', "progress" \notin worker'[t].same
               PROVE  n' + Cardinality(Claimers') <= Cardinality(looked' \ {t})
    BY DEF FewTries
  <2>0. t # s BY <1>5 DEF StoppedFor
  <2>1. CASE n' = 0
    <3>1. Claimers' \subseteq looked' \ {t} BY <1>6 DEF HadTurn, Claimers, StoppedFor
    <3>2. looked' \ {t} \subseteq Sweeps BY <1>0, <1>1
    <3> QED BY <2>1, <3>1, <3>2, Finite
  <2>2. CASE n' = n /\ "progress" \notin C
    <3>1. n + Cardinality(Claimers) <= Cardinality(looked \ {t})
      BY <1>3, <2>0, <2>2 DEF Sweeping, FewTries, StoppedFor
    <3>2. Claimers \subseteq Sweeps /\ Claimers' \subseteq Claimers \cup {s} /\ s \notin Claimers
          /\ Claimers \cup {s} \subseteq Sweeps
      BY <1>1, <1>3 DEF Claimers
    <3>3. IsFiniteSet(Claimers) /\ Cardinality(Claimers) \in Nat BY <3>2, Finite
    <3>4. Cardinality(Claimers \cup {s}) = Cardinality(Claimers) + 1 BY <3>2, <3>3, FS_AddElement
    <3>5. Cardinality(Claimers') \in Nat /\ Cardinality(Claimers') <= Cardinality(Claimers \cup {s})
      BY <3>2, Finite
    <3>6. looked' \ {t} = (looked \ {t}) \cup {s} /\ s \notin looked \ {t} BY <1>1, <2>0
    <3>7. looked \ {t} \subseteq Sweeps BY <1>0
    <3>8. IsFiniteSet(looked \ {t}) /\ Cardinality(looked \ {t}) \in Nat BY <3>7, Finite
    <3>9. Cardinality(looked' \ {t}) = Cardinality(looked \ {t}) + 1 BY <3>6, <3>8, FS_AddElement
    <3> QED BY <1>0, <2>2, <3>1, <3>3, <3>4, <3>5, <3>8, <3>9
  <2> QED BY <1>2, <2>1, <2>2
<1> QED BY <1>6, <1>7, <1>8 DEF Sweeping

LEMMA SweepingStep ==
  ASSUME TypeOK, TypeOK', Sweeping, [Next]_vars
  PROVE  Sweeping'
<1>0. WorkersOK BY TypeParts
<1>1. \A t \in Sweeps : t \in Workers /\ t \notin Callers BY ConstantsAssumption DEF Workers
<1>2. ASSUME NEW w \in Workers, NEW x, x.at \notin {"park", "claim"}, worker' = [worker EXCEPT ![w] = x]
      PROVE  \A t \in Sweeps : worker'[t].at \in {"park", "claim"} => worker'[t] = worker[t]
  BY <1>0, <1>1, <1>2 DEF WorkersOK
<1>3. ASSUME NEW C, worker' = Touch(C)
      PROVE  \A t \in Sweeps : /\ worker'[t].at = worker[t].at /\ worker'[t].n = worker[t].n
                              /\ worker'[t].by = worker[t].by /\ worker'[t].same = worker[t].same \ C
  BY <1>0, <1>1, <1>3, Touched
<1>4. \A t \in Sweeps : worker[t].same = worker[t].same \ {} OBVIOUS
<1>5. ASSUME NEW w \in Workers, NEW x, x.at \notin {"park", "claim"}, worker' = [worker EXCEPT ![w] = x],
             n' \in {0, n}, live' = live, looked \subseteq looked'
      PROVE  Sweeping'
  <2>1. \A t \in Sweeps : worker'[t].at \in {"park", "claim"} =>
          /\ worker'[t].at = worker[t].at /\ worker'[t].n = worker[t].n
          /\ worker'[t].by = worker[t].by /\ worker'[t].same = worker[t].same \ {}
    BY <1>2, <1>4, <1>5
  <2> QED BY <1>5, <2>1, QuietStep
<1>6. ASSUME NEW s \in Sweeps, Supervise(s) PROVE Sweeping'
  <2>1. CASE SuperviseNack(s)
    <3>1. PICK by \in {"nack", "stale nack"} : worker' = [worker EXCEPT ![s] = Sending(by)]
      BY <2>1 DEF SuperviseNack, Become
    <3>2. UNCHANGED <<n, live>> /\ looked \subseteq looked' BY <2>1 DEF SuperviseNack, Turn, row
    <3> QED BY <1>1, <1>5, <3>1, <3>2, WorkerConstants
  <2>2. CASE ParkStalled(s)
    <3>1. worker' = [worker EXCEPT ![s] = IdleWorker] /\ n' \in {0, n} /\ UNCHANGED <<live, looked>>
      BY <2>2 DEF ParkStalled, Become
    <3> QED BY <1>1, <1>5, <3>1, WorkerConstants
  <2> QED BY <1>6, <2>1, <2>2, JudgeStep, ClaimStep DEF Supervise
<1>7. ASSUME NEW w \in Workers, Dispatch(w) PROVE Sweeping'
  <2>1. CASE DispatchGuard(w) \/ DispatchFails(w)
    <3>1. PICK x \in {IdleWorker, [worker[w] EXCEPT !.at = "prepare"]} : worker' = [worker EXCEPT ![w] = x]
      BY <2>1 DEF DispatchGuard, DispatchFails, Become
    <3>2. x.at \notin {"park", "claim"}
      <4>1. worker[w] \in WorkerState BY <1>0 DEF WorkersOK
      <4> QED BY <4>1, WorkerConstants DEF WorkerState
    <3>3. UNCHANGED <<n, live, looked>> BY <2>1 DEF DispatchGuard, DispatchFails, row
    <3> QED BY <1>5, <3>1, <3>2, <3>3
  <2>2. CASE EmitSend(w)
    <3> DEFINE kept == worker[w].by = "supervisor" \/ (since = Null /\ live = Null)
               C == {"disp"} \cup (IF kept THEN {} ELSE {"live"})
    <3>1. /\ worker' = [Touch(C) EXCEPT ![w] = IdleWorker]
          /\ live' = (IF kept THEN live ELSE Null) /\ UNCHANGED <<n, looked>>
      BY <2>2 DEF EmitSend
    <3>2. ("live" \in C \/ live' = live) /\ "progress" \notin C BY <3>1
    <3> HIDE DEF C, kept
    <3>3. \A t \in Sweeps : worker'[t].at \in {"park", "claim"} =>
            /\ worker'[t].at = worker[t].at /\ worker'[t].n = worker[t].n
            /\ worker'[t].by = worker[t].by /\ worker'[t].same = worker[t].same \ C
      <4>1. Touch(C) \in [Workers -> WorkerState] BY <1>0, Touched
      <4>2. worker'[w].at = "idle" /\ \A t \in Sweeps : t # w => worker'[t] = Touch(C)[t]
        BY <1>1, <3>1, <4>1, WorkerConstants
      <4> QED BY <1>0, <1>1, <4>2, Touched
    <3> QED BY <3>1, <3>2, <3>3, QuietStep
  <2>3. CASE EmitRow(w)
    <3>1. \A t \in Sweeps : worker'[t].at \in {"park", "claim"} =>
            /\ worker'[t].at = worker[t].at /\ worker'[t].n = worker[t].n
            /\ worker'[t].by = worker[t].by /\ worker'[t].same = worker[t].same \ {}
      <4>1. \A t \in Sweeps : worker[t] \in WorkerState BY <1>0, <1>1 DEF WorkersOK
      <4>2. worker'[w].at = "row" BY <1>0, <2>3 DEF EmitRow, WorkersOK, WorkerState
      <4>3. \A t \in Sweeps : t # w => worker'[t] = [worker[t] EXCEPT !.cur = FALSE] BY <1>1, <2>3 DEF EmitRow
      <4> QED BY <4>1, <4>2, <4>3 DEF WorkerState
    <3>2. UNCHANGED <<n, live, looked>> BY <2>3 DEF EmitRow, row
    <3> QED BY <3>1, <3>2, QuietStep
  <2> QED BY <1>7, <2>1, <2>2, <2>3 DEF Dispatch
<1>8. ASSUME NEW C, NEW c, NEW x, worker' = [Touch(C) EXCEPT ![c] = x], c \notin Sweeps, UNCHANGED looked, n' = 0,
             "live" \in C \/ live' = live, "progress" \in C => "live" \in C \/ live = Null
      PROVE  Sweeping'
  <2>1. \A t \in Sweeps :
          /\ worker'[t].at = worker[t].at /\ worker'[t].n = worker[t].n
          /\ worker'[t].by = worker[t].by /\ worker'[t].same = worker[t].same \ C
    BY <1>0, <1>1, <1>8, Touched
  <2> QED BY <1>8, <2>1, QuietStep
<1>9. StartOver =>
        /\ n' = 0
        /\ "live" \in StartedOver \/ live' = live
        /\ "progress" \in StartedOver => "live" \in StartedOver \/ live = Null
  BY DEF StartOver, StartedOver
<1>10. CASE HandleAck
  <2>1. ASSUME worker' = worker, UNCHANGED <<n, live, looked>> PROVE Sweeping'
    BY <2>1, <1>4, QuietStep
  <2>2. ASSUME worker' = Touch({"live"}), UNCHANGED <<n, looked>> PROVE Sweeping'
    BY <1>3, <2>2, QuietStep
  <2>3. \/ worker' = worker /\ UNCHANGED <<n, live, looked>>
        \/ worker' = Touch({"live"}) /\ UNCHANGED <<n, looked>>
    BY <1>10 DEF HandleAck, AckRead, AckRenew, AckRelease, AckLog, row
  <2> QED BY <2>1, <2>2, <2>3
<1>11. CASE ProgressHandled \/ Leave
  <2>1. ASSUME worker' = worker, UNCHANGED <<n, live, looked>> PROVE Sweeping'
    BY <2>1, <1>4, QuietStep
  <2>2. ASSUME worker' = Touch(StartedOver), StartOver, UNCHANGED looked PROVE Sweeping'
    BY <1>3, <1>9, <2>2, QuietStep
  <2> QED BY <1>11, <2>1, <2>2 DEF ProgressHandled, Leave
<1>12. ASSUME NEW c \in Callers, HumanComment(c) \/ Resume(c) \/ Enter(c) PROVE Sweeping'
  <2>1. UNCHANGED <<n, live, looked>> BY <1>12 DEF HumanComment, Resume, Enter, row
  <2>2. worker' = worker \/ worker' = [worker EXCEPT ![c] = Sending("caller")]
    BY <1>12 DEF HumanComment, Resume, Enter, Become
  <2>3. CASE worker' = worker BY <1>4, <2>1, <2>3, QuietStep
  <2>4. CASE worker' = [worker EXCEPT ![c] = Sending("caller")]
    BY <1>5, <2>1, <2>4, WorkerConstants DEF Workers
  <2> QED BY <2>2, <2>3, <2>4
<1>13. ASSUME NEW c \in Callers, Unpend(c) PROVE Sweeping'
  <2>1. PICK x : worker' = [Touch(StartedOver) EXCEPT ![c] = x] BY <1>13 DEF Unpend
  <2>2. StartOver /\ UNCHANGED looked BY <1>13 DEF Unpend
  <2> QED BY <1>1, <1>8, <1>9, <2>1, <2>2
<1>14. ASSUME NEW c \in Callers, Reassign(c) PROVE Sweeping'
  <2> DEFINE C == StartedOver \cup {"owner"}
  <2>1. PICK x : worker' = [Touch(C) EXCEPT ![c] = x] BY <1>14 DEF Reassign
  <2>2. StartOver /\ UNCHANGED looked BY <1>14 DEF Reassign
  <2>3. n' = 0 /\ ("live" \in C \/ live' = live) /\ ("progress" \in C => "live" \in C \/ live = Null)
    BY <1>9, <2>2
  <2> HIDE DEF C
  <2> QED BY <1>1, <1>8, <2>1, <2>2, <2>3
<1>15. CASE Agent \/ HostFlips \/ PauseFlips \/ (\E kind \in {"processed", "suppressed", "nack"} : HostAnswers(kind)) \/ UNCHANGED vars
  <2>1. UNCHANGED <<worker, n, live, looked>>
    BY <1>15 DEF Agent, AgentActs, AgentOutput, StrandFlips, HostFlips, PauseFlips, HostAnswers, vars, row
  <2> QED BY <1>4, <2>1, QuietStep
<1> QED BY <1>6, <1>7, <1>10, <1>11, <1>12, <1>13, <1>14, <1>15, TickStep DEF Next, Users

\* Only dispatch() itself ends the time between its two writes, and only its
\* row makes another row an older one.
LEMMA NewestStays ==
  ASSUME TypeOK, [Next]_vars, Newest, \A w \in Workers : ~EmitRow(w) /\ ~EmitSend(w)
  PROVE  Newest'
<1>0. WorkersOK /\ \A c \in Callers : c \in Workers BY TypeParts DEF Workers
<1>1. PICK r \in Workers : worker[r].at = "row" /\ worker[r].cur = TRUE BY DEF Newest
<1>2. ASSUME NEW C, NEW c \in Workers, NEW x, worker[c].at # "row", worker' = [Touch(C) EXCEPT ![c] = x] PROVE Newest'
  <2>1. worker'[r] = Touch(C)[r] BY <1>0, <1>1, <1>2, Touched
  <2> QED BY <1>0, <1>1, <2>1, Touched DEF Newest
<1>3. ASSUME NEW C, worker' = Touch(C) PROVE Newest'
  BY <1>0, <1>1, <1>3, Touched DEF Newest
<1>4. ASSUME NEW c \in Workers, NEW x, worker[c].at # "row", Become(c, x) PROVE Newest'
  BY <1>0, <1>1, <1>4 DEF Newest, Become, WorkersOK
<1>5. CASE UNCHANGED worker BY <1>5 DEF Newest
<1>6. ASSUME NEW s \in Sweeps, Supervise(s) PROVE Newest'
  <2>0. s \in Workers BY DEF Workers
  <2>1. CASE SuperviseNack(s) BY <1>4, <2>0, <2>1 DEF SuperviseNack, Turn
  <2>2. CASE Judge(s)
    <3>1. worker[s].at # "row" BY <2>2 DEF Judge, Turn
    <3>2. CASE output # Null
      <4>1. worker' = [Touch({"live", "progress"}) EXCEPT ![s] = Verdict(0, output)] BY <2>2, <3>2 DEF Judge
      <4> QED BY <1>2, <2>0, <3>1, <4>1
    <3>3. CASE output = Null BY <1>4, <2>0, <2>2, <3>1, <3>3 DEF Judge
    <3> QED BY <3>2, <3>3
  <2>3. CASE ParkStalled(s) BY <1>4, <2>0, <2>3 DEF ParkStalled
  <2>4. CASE ClaimResend(s) BY <1>4, <2>0, <2>4 DEF ClaimResend
  <2> QED BY <1>6, <2>1, <2>2, <2>3, <2>4 DEF Supervise
<1>7. ASSUME NEW w \in Workers, Dispatch(w) PROVE Newest'
  <2>1. CASE DispatchGuard(w) BY <1>4, <2>1 DEF DispatchGuard
  <2>2. CASE DispatchFails(w) BY <1>4, <2>2 DEF DispatchFails
  <2> QED BY <1>7, <2>1, <2>2 DEF Dispatch
<1>8. CASE HandleAck \/ ProgressHandled \/ Leave
  BY <1>3, <1>5, <1>8 DEF HandleAck, AckRead, AckRenew, AckRelease, AckLog, ProgressHandled, Leave
<1>9. ASSUME NEW c \in Callers, HumanComment(c) \/ Resume(c) \/ Enter(c) PROVE Newest'
  BY <1>0, <1>4, <1>5, <1>9 DEF HumanComment, Resume, Enter
<1>10. ASSUME NEW c \in Callers, Unpend(c) PROVE Newest'
  <2>1. PICK x : worker' = [Touch(StartedOver) EXCEPT ![c] = x] BY <1>10 DEF Unpend
  <2>2. worker[c].at # "row" BY <1>10 DEF Unpend
  <2> QED BY <1>0, <1>2, <2>1, <2>2
<1>11. ASSUME NEW c \in Callers, Reassign(c) PROVE Newest'
  <2>1. PICK x : worker' = [Touch(StartedOver \cup {"owner"}) EXCEPT ![c] = x] BY <1>11 DEF Reassign
  <2>2. worker[c].at # "row" BY <1>11 DEF Reassign
  <2> QED BY <1>0, <1>2, <2>1, <2>2
<1>12. CASE Agent \/ HostFlips \/ PauseFlips \/ (\E kind \in {"processed", "suppressed", "nack"} : HostAnswers(kind))
            \/ Tick \/ UNCHANGED vars
  BY <1>5, <1>12 DEF Agent, AgentActs, AgentOutput, StrandFlips, HostFlips, PauseFlips, HostAnswers, Tick, vars
<1> QED BY <1>6, <1>7, <1>8, <1>9, <1>10, <1>11, <1>12 DEF Next, Users

LEMMA RenewStep ==
  ASSUME TypeOK, RenewIsCurrent, [Next]_vars
  PROVE  RenewIsCurrent'
<1>0. ack \in AckState /\ acks \subseteq Answer BY TypeParts DEF AnswersOK
<1>1. ASSUME NEW w \in Workers, EmitRow(w) PROVE RenewIsCurrent'
  <2>1. worker'[w].at = "row" /\ worker'[w].cur = TRUE BY <1>1, TypeParts DEF EmitRow, WorkersOK, WorkerState
  <2> QED BY <2>1 DEF RenewIsCurrent, Newest
<1>2. ASSUME NEW w \in Workers, EmitSend(w) PROVE RenewIsCurrent'
  <2>1. PICK C : ack' = TouchAck(C) /\ "disp" \in C BY <1>2 DEF EmitSend
  <2>2. "disp" \notin ack'.same BY <1>0, <2>1, TouchedAck
  <2> QED BY <2>2 DEF RenewIsCurrent
<1>3. CASE \A w \in Workers : ~EmitRow(w) /\ ~EmitSend(w)
  <2>0. Newest => Newest' BY <1>3, NewestStays
  <2>1. ASSUME NEW C, ack' = TouchAck(C) PROVE RenewIsCurrent'
    BY <1>0, <2>0, <2>1, TouchedAck DEF RenewIsCurrent
  <2>2. CASE UNCHANGED ack BY <2>0, <2>2 DEF RenewIsCurrent
  <2>3. ASSUME NEW s \in Sweeps, Supervise(s) PROVE RenewIsCurrent'
    BY <2>1, <2>2, <2>3 DEF Supervise, SuperviseNack, Judge, ParkStalled, ClaimResend, answers
  <2>4. ASSUME NEW w \in Workers, Dispatch(w) PROVE RenewIsCurrent'
    BY <1>3, <2>2, <2>4 DEF Dispatch, DispatchGuard, DispatchFails, answers
  <2>5. CASE HandleAck
    <3>1. ASSUME NEW a \in acks, AckRead(a) PROVE RenewIsCurrent'
      <4>1. SUFFICES ASSUME ack'.at = "renew" PROVE ack'.cur = TRUE BY DEF RenewIsCurrent
      <4>2. a \in Answer BY <1>0
      <4>3. a.kind = "suppressed" /\ Latest(a) /\ ack'.cur = a.cur
        BY <3>1, <4>1, <4>2 DEF AckRead, IdleAck, Answer
      <4> QED BY <4>2, <4>3 DEF Latest, Answer
    <3>2. CASE AckRenew \/ AckRelease \/ AckLog
      BY <1>0, <2>0, <3>2 DEF AckRenew, AckRelease, AckLog, IdleAck, RenewIsCurrent, AckState
    <3> QED BY <2>5, <3>1, <3>2 DEF HandleAck
  <2>6. CASE ProgressHandled
    BY <2>1, <2>2, <2>6 DEF ProgressHandled
  <2>7. CASE Users
    BY <2>1, <2>2, <2>7 DEF Users, Leave, HumanComment, Resume, Unpend, Reassign, Enter, answers
  <2>8. CASE Agent \/ HostFlips \/ PauseFlips
    BY <2>2, <2>8 DEF Agent, AgentActs, AgentOutput, StrandFlips, HostFlips, PauseFlips, answers
  <2>9. ASSUME NEW kind \in {"processed", "suppressed", "nack"}, HostAnswers(kind) PROVE RenewIsCurrent'
    BY <2>2, <2>9 DEF HostAnswers
  <2>10. CASE Tick \/ UNCHANGED vars
    BY <2>2, <2>10 DEF Tick, vars, answers
  <2> QED BY <2>3, <2>4, <2>5, <2>6, <2>7, <2>8, <2>9, <2>10 DEF Next
<1> QED BY <1>1, <1>2, <1>3

LEMMA InitInv == Init => IInv
<1> SUFFICES ASSUME Init PROVE IInv OBVIOUS
<1>1. \A w \in Workers : worker[w] = IdleWorker BY DEF Init
<1>2. FlagsOK BY DEF Init, FlagsOK
<1>3. CountsOK BY MaxCountIsNat, LongestIsNat, ConstantsAssumption DEF Init, CountsOK, Null
<1>4. AnswersOK
  <2>1. NoNack \in [left: Null..NackWait, cur: BOOLEAN] BY ConstantsAssumption DEF NoNack, Null
  <2>2. IdleAck \in AckState BY MaxCountIsNat DEF IdleAck, AckState
  <2> QED BY <2>1, <2>2 DEF Init, AnswersOK
<1>5. WorkersOK BY WorkerConstants DEF Init, WorkersOK
<1>6. Sweeping
  BY <1>1, WorkerConstants DEF Sweeping, HadTurn, QuietIsLive, TriesSeen, FewTries, StoppedFor, Workers
<1>7. RenewIsCurrent BY DEF Init, RenewIsCurrent, IdleAck
<1> QED BY <1>2, <1>3, <1>4, <1>5, <1>6, <1>7, TypeParts DEF IInv

LEMMA TypeStep == TypeOK /\ [Next]_vars => TypeOK'
<1> SUFFICES ASSUME TypeOK, [Next]_vars PROVE TypeOK' OBVIOUS
<1>1. FlagsOK' /\ CountsOK' /\ AnswersOK' /\ WorkersOK' BY FlagsStep, CountsStep, AnswersStep, WorkersStep
<1>2. (TypeOK <=> FlagsOK /\ CountsOK /\ AnswersOK /\ WorkersOK)' BY TypeParts, PTL
<1> QED BY <1>1, <1>2

LEMMA NextInv == IInv /\ [Next]_vars => IInv'
  BY TypeStep, SweepingStep, RenewStep DEF IInv

\* The inductive invariant of the lease columns and of what the sweeps and the
\* handlers of answers have read of them (supervise, applyManagerAck).
THEOREM Inductive == Spec => []IInv
  BY InitInv, NextInv, PTL DEF Spec

\* For every setting of the limits and any number of sweeps and callers: the
\* columns and the handlers' reads stay in their domains, and the count within
\* what the claims of supervise() can reach.
THEOREM TypeCorrect == Spec => []TypeOK
<1>1. IInv => TypeOK BY DEF IInv
<1> QED BY <1>1, Inductive, PTL

\* For every setting of the limits and any number of overlapping dispatches,
\* whatever the order in which they write their rows and send their triggers:
\* an answer, delayed or replayed, renews the lease of a process only if it
\* names the latest trigger_emitted row, or the dispatch that wrote the latest
\* row has not come to last_dispatched_at yet (applyManagerAck, dispatch).
THEOREM OldAnswersDoNotRenew == Spec => StaleAckNeverRenews
<1>1. IInv /\ [Next]_vars =>
        [AckRenew /\ ack'.at = "log"
           => ack.cur \/ \E w \in Workers : worker[w].at = "row" /\ worker[w].cur]_vars
  <2> SUFFICES ASSUME IInv, AckRenew, ack'.at = "log"
               PROVE  ack.cur \/ \E w \in Workers : worker[w].at = "row" /\ worker[w].cur
    OBVIOUS
  <2>1. Renews BY DEF AckRenew, IdleAck
  <2>2. ack.cur = TRUE \/ Newest BY <2>1 DEF Renews, AckRenew, IInv, RenewIsCurrent
  <2> QED BY <2>2 DEF Newest
<1> QED BY <1>1, Inductive, PTL DEF Spec, StaleAckNeverRenews

\* As long as no more sweeps overlap than MAX_SUPERVISOR_REDISPATCHES: no sweep
\* parks a ticket over progress recorded after it read the row, although
\* parkStalled compares the count, which progress resets, by its value alone.
THEOREM ProgressIsRespected ==
  ASSUME Cardinality(Sweeps) <= MaxRedispatches
  PROVE  Spec => ParkRespectsProgress
<1>1. IInv /\ [Next]_vars =>
        [\A s \in Sweeps : ParkStalled(s) /\ pend' # pend => "progress" \in worker[s].same]_vars
  <2> SUFFICES ASSUME IInv, NEW s \in Sweeps, ParkStalled(s), pend' # pend, "progress" \notin worker[s].same
               PROVE  FALSE
    OBVIOUS
  <2>1. Parks(s) /\ worker[s].at = "park" BY DEF ParkStalled
  <2>2. worker[s].by # "quiet" BY <2>1 DEF Parks, IInv, Sweeping, QuietIsLive
  <2>3. n >= MaxRedispatches /\ n + Cardinality(Claimers) <= Cardinality(looked \ {s})
    BY <2>1, <2>2 DEF Parks, IInv, Sweeping, TriesSeen, FewTries, StoppedFor
  <2>4. looked \ {s} \subseteq Sweeps \ {s} BY DEF IInv, TypeOK
  <2>5. IsFiniteSet(Sweeps) /\ Cardinality(Sweeps) \in Nat BY Finite
  <2>6. Cardinality(Sweeps \ {s}) = Cardinality(Sweeps) - 1 BY <2>5, FS_RemoveElement
  <2>7. Cardinality(looked \ {s}) \in Nat /\ Cardinality(looked \ {s}) <= Cardinality(Sweeps \ {s})
    BY <2>4, Finite
  <2>8. Cardinality(Claimers) \in Nat BY Finite DEF Claimers
  <2>9. n \in Nat BY TypeParts, MaxCountIsNat DEF IInv, CountsOK
  <2> QED BY <2>3, <2>5, <2>6, <2>7, <2>8, <2>9, MaxCountIsNat
<1> QED BY <1>1, Inductive, PTL DEF Spec, ParkRespectsProgress
=============================================================================

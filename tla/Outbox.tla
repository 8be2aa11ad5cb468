------------------------------- MODULE Outbox -------------------------------
(***************************************************************************)
(* MessageOutbox of the agent manager: messages whose live send failed are *)
(* queued, persisted, and replayed in order until the server answers.      *)
(*                                                                         *)
(* flush() gives up control only while it awaits a sender; everything it   *)
(* does between two such awaits is one step here.  In between, enqueue()   *)
(* calls, further flush() calls and crashes of the manager may happen.     *)
(***************************************************************************)
EXTENDS Integers, Sequences, FiniteSets

CONSTANTS Cap,          \* OUTBOX_MAX_ENTRIES
          MaxAttempts,  \* OUTBOX_MAX_ATTEMPTS
          MaxMessages,  \* bound: messages buffered in one run
          MaxCrashes    \* bound: restarts of the manager

ASSUME ConstantsAssumption ==
  {Cap, MaxAttempts, MaxMessages} \subseteq Nat \ {0} /\ MaxCrashes \in Nat

VARIABLES entries,      \* #entries: the queue, each entry with its attempts
          file,         \* outbox.json
          sending,      \* the entry flush() awaits, NoEntry when no flush runs
          again,        \* #flushAgain
          made,         \* messages buffered so far; the next one is made + 1
          old,          \* messages older than OUTBOX_MAX_AGE_MS
          delivered,    \* messages the server has received
          given,        \* messages given up: refused, too old, or tried too often
          overflowed,   \* messages dropped by the cap
          failed,       \* some write of outbox.json failed
          crashes

memory == <<entries, sending, again>>
fates == <<delivered, given, overflowed>>
vars == <<memory, file, made, old, fates, failed, crashes>>

Messages == 1..MaxMessages
NoEntry == 0
Entry == [id: Messages, attempts: 0..MaxAttempts]
Ids(q) == {q[k].id : k \in DOMAIN q}

Init ==
  /\ entries = <<>> /\ file = <<>> /\ sending = NoEntry /\ again = FALSE
  /\ made = 0 /\ old = {} /\ crashes = 0 /\ failed = FALSE
  /\ delivered = {} /\ given = {} /\ overflowed = {}

\* #persist: the whole queue is written; a failure is logged and forgotten.
Persist(q) ==
  \/ file' = q /\ UNCHANGED failed
  \/ failed' = TRUE /\ UNCHANGED file

-----------------------------------------------------------------------------
\* The overflow rule: the oldest entries go.
\* Seeded fault: the entry one past the cap is let in.
CappedLate(q) == IF Len(q) > Cap + 1 THEN Tail(q) ELSE q
Capped(q) == IF Len(q) > Cap THEN Tail(q) ELSE q

\* enqueue(): may come while a flush awaits its sender.
Enqueue ==
  /\ made < MaxMessages
  /\ made' = made + 1
  /\ LET q == Append(entries, [id |-> made + 1, attempts |-> 0])
     IN /\ entries' = Capped(q)
        /\ overflowed' = overflowed \cup (Ids(q) \ Ids(Capped(q)))
        /\ Persist(Capped(q))
  /\ UNCHANGED <<sending, again, old, delivered, given, crashes>>

\* The entries flush() drops from the head before it sends one.
Expired(e) == e.id \in old \/ e.attempts >= MaxAttempts
Fresh(q) ==
  LET first == CHOOSE k \in 1..(Len(q) + 1) :
                 /\ k = Len(q) + 1 \/ ~Expired(q[k])
                 /\ \A i \in 1..(k - 1) : Expired(q[i])
  IN SubSeq(q, first, Len(q))

\* The loop of flush() over queue q, up to its next await or its end, after the
\* server refused the messages `refused`.
Continue(q, refused) ==
  /\ entries' = Fresh(q)
  /\ given' = given \cup refused \cup (Ids(q) \ Ids(Fresh(q)))
  /\ sending' = IF Fresh(q) = <<>> THEN NoEntry ELSE Fresh(q)[1].id

\* flush(): single-flight; a call while one runs asks for one more pass.
FlushStart ==
  /\ sending = NoEntry /\ entries # <<>>
  /\ Continue(entries, {})
  /\ IF Fresh(entries) = entries THEN UNCHANGED <<file, failed>> ELSE Persist(Fresh(entries))
  /\ UNCHANGED <<again, made, old, delivered, overflowed, crashes>>

FlushAgain ==
  /\ sending # NoEntry
  /\ again' = TRUE
  /\ UNCHANGED <<entries, sending, file, made, old, fates, failed, crashes>>

\* External: the request reaches the server, whatever becomes of the answer.
Arrive ==
  /\ sending # NoEntry
  /\ delivered' = delivered \cup {sending}
  /\ UNCHANGED <<memory, file, made, old, given, overflowed, failed, crashes>>

\* The sender's answer is `ok` or `permanent`: the head of the queue goes, and
\* the pass goes on; one more pass would find the queue empty when it ends.
Settle ==
  /\ sending # NoEntry
  /\ LET q == IF entries = <<>> THEN entries ELSE Tail(entries)
     IN /\ Continue(q, {sending} \ delivered) /\ Persist(Fresh(q))
        /\ again' = (again /\ Fresh(q) # <<>>)
  /\ UNCHANGED <<made, old, delivered, overflowed, crashes>>

\* The queue after a retryable failure.
\* Seeded faults: the entry is dropped; it goes to the back; it is not counted.
Dropped(q, id) == SelectSeq(q, LAMBDA e : e.id # id)
Counted(q, id) == [k \in DOMAIN q |-> IF q[k].id = id THEN [q[k] EXCEPT !.attempts = @ + 1] ELSE q[k]]
ToTheBack(q, id) == IF q = <<>> THEN q ELSE Append(Tail(Counted(q, id)), Counted(q, id)[1])
Uncounted(q, id) == q
Retried(q, id) == Counted(q, id)

\* The sender's answer is `retryable`: the pass ends, unless one more was asked
\* for meanwhile, which starts at once.
Pause ==
  /\ sending # NoEntry
  /\ LET q == Retried(entries, sending)
     IN IF again
          THEN Continue(q, {}) /\ Persist(Fresh(q))
          ELSE /\ entries' = q /\ sending' = NoEntry
               /\ Persist(q) /\ UNCHANGED given
  /\ again' = FALSE
  /\ UNCHANGED <<made, old, delivered, overflowed, crashes>>

\* The manager stops and starts again: load() reads the file.
Restart ==
  /\ crashes < MaxCrashes
  /\ crashes' = crashes + 1
  /\ entries' = file /\ sending' = NoEntry /\ again' = FALSE
  /\ UNCHANGED <<file, made, old, fates, failed>>

\* A queued message gets older than its kind may.
Age(i) ==
  /\ i \in Ids(entries) \ old
  /\ old' = old \cup {i}
  /\ UNCHANGED <<memory, file, made, fates, failed, crashes>>

Flush == FlushStart \/ Settle \/ Pause
Next ==
  \/ Enqueue \/ Flush \/ FlushAgain \/ Arrive \/ Restart
  \/ \E i \in Messages : Age(i)

Spec == Init /\ [][Next]_vars

\* The backstop timer asks for a flush for ever, and every sender returns.
FairSpec == Spec /\ WF_vars(Flush)

-----------------------------------------------------------------------------
(* Properties.                                                             *)

\* Every variable stays in its domain, and the queue within its cap.
TypeOK ==
  /\ entries \in Seq(Entry) /\ file \in Seq(Entry)
  /\ Len(entries) <= Cap /\ Len(file) <= Cap
  /\ sending \in Messages \cup {NoEntry} /\ again \in BOOLEAN
  /\ made \in 0..MaxMessages /\ crashes \in 0..MaxCrashes /\ failed \in BOOLEAN
  /\ {old, delivered, given, overflowed} \subseteq SUBSET Messages

Accounted(i) == i \in Ids(entries) \cup delivered \cup given \cup overflowed

\* flush() and enqueue(), "never silently drops one": every buffered message is
\* still queued, was received or refused, or was dropped by age, attempts or cap.
NeverSilentlyDropped == ~failed => \A i \in 1..made : Accounted(i)

\* The same as long as the cap was never reached: restarts, lost answers and
\* overlapping flush() calls lose nothing.
LostOnlyAfterOverflow == ~failed /\ overflowed = {} => \A i \in 1..made : Accounted(i)

\* "FIFO order is preserved": the server receives no message before an older
\* one that is still queued and that it has not received.
InOrder ==
  ~failed => \A i \in Ids(entries) \ delivered : \A j \in delivered : j < i

\* A message does not stay in the queue for ever, even if the server never
\* answers: its attempts run out.
EveryMessageLeaves == \A i \in Messages : i \in Ids(entries) ~> i \notin Ids(entries)
=============================================================================

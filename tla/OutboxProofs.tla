---------------------------- MODULE OutboxProofs ----------------------------
(* Proofs about Outbox, for any cap, any number of attempts, messages and  *)
(* restarts.                                                               *)
EXTENDS Outbox, WellFoundedInduction, SequenceTheorems, TLAPS

-----------------------------------------------------------------------------
(* The inductive invariant.                                                *)

\* A queue as enqueue() and flush() leave it: in the order of buffering.
Ordered(q) == \A i, j \in 1..Len(q) : i < j => q[i].id < q[j].id
Queue(q, n) ==
  /\ q \in Seq(Entry) /\ Ordered(q)
  /\ \A k \in 1..Len(q) : q[k].id <= n

\* What was buffered so far bounds everything that is known of messages.
Buffered ==
  /\ Queue(entries, made) /\ Queue(file, made)
  /\ sending <= made /\ delivered \subseteq 1..made

\* The message flush() awaits is no younger than any in the queue, and was
\* sent with an attempt to spare.
SentFirst ==
  sending # NoEntry =>
    \A k \in 1..Len(entries) :
      /\ sending <= entries[k].id
      /\ entries[k].id = sending => entries[k].attempts < MaxAttempts

\* Until a write fails, outbox.json is the queue.
FileIsQueue == ~failed => file = entries

\* Below the cap, the message flush() awaits is the head of the queue, the one
\* that #entries.shift() takes off.
HeadIsSent ==
  overflowed = {} /\ sending # NoEntry => entries # <<>> /\ entries[1].id = sending

IInv ==
  /\ TypeOK /\ Buffered /\ SentFirst /\ FileIsQueue /\ HeadIsSent
  /\ LostOnlyAfterOverflow /\ InOrder

-----------------------------------------------------------------------------
(* Facts about queues.                                                     *)

\* The least-number principle, for sets.
LEMMA LeastNumber ==
  ASSUME NEW T \in SUBSET Nat, T # {}
  PROVE  \E n \in T : \A m \in T : n <= m
<1>1. PICK n \in T : \A m \in T : ~ (<<m, n>> \in OpToRel(<, Nat))
  BY NatLessThanWellFounded, WFMin, Zenon
<1>2. \A m \in T : ~(m < n) BY <1>1 DEF OpToRel
<1> QED BY <1>2

LEMMA EntryFields ==
  ASSUME NEW e \in Entry
  PROVE  e.id \in Nat \ {0} /\ e.id \in Messages /\ e.attempts \in Nat /\ e.attempts <= MaxAttempts
  BY ConstantsAssumption DEF Entry, Messages

LEMMA IdsOf ==
  ASSUME NEW q \in Seq(Entry)
  PROVE  Ids(q) = {q[k].id : k \in 1..Len(q)}
  BY DEF Ids

\* The end of a queue from its f-th entry on.
LEMMA Suffix ==
  ASSUME NEW n \in Nat, NEW q, Queue(q, n), NEW f \in 1..(Len(q) + 1)
  PROVE  LET s == SubSeq(q, f, Len(q)) IN
         /\ Queue(s, n) /\ Len(s) = Len(q) + 1 - f
         /\ \A i \in 1..Len(s) : s[i] = q[f + i - 1]
         /\ Ids(s) = {q[k].id : k \in f..Len(q)}
         /\ Ids(q) \ Ids(s) = {q[k].id : k \in 1..(f - 1)}
<1> DEFINE s == SubSeq(q, f, Len(q))
<1>1. q \in Seq(Entry) /\ Len(q) \in Nat BY DEF Queue
<1>2. \A i \in f..Len(q) : q[i] \in Entry BY <1>1
<1>3. s \in Seq(Entry) /\ Len(s) = Len(q) + 1 - f /\ \A i \in 1..Len(s) : s[i] = q[f + i - 1]
  BY <1>1, <1>2, SubSeqProperties
<1> HIDE DEF s
<1>4. \A i \in 1..Len(s) : f + i - 1 \in 1..Len(q) BY <1>1, <1>3
<1>5. Ordered(s)
  <2> SUFFICES ASSUME NEW i \in 1..Len(s), NEW j \in 1..Len(s), i < j PROVE s[i].id < s[j].id BY DEF Ordered
  <2>1. f + i - 1 < f + j - 1 BY <1>1, <1>3
  <2> QED BY <1>3, <1>4, <2>1 DEF Queue, Ordered
<1>6. \A k \in f..Len(q) : k - f + 1 \in 1..Len(s) /\ s[k - f + 1] = q[k] BY <1>1, <1>3
<1>7. Ids(s) = {q[k].id : k \in f..Len(q)}
  <2>1. ASSUME NEW i \in 1..Len(s) PROVE s[i].id \in {q[k].id : k \in f..Len(q)}
    <3>1. f + i - 1 \in f..Len(q) BY <1>1, <1>3
    <3>2. s[i] = q[f + i - 1] BY <1>3
    <3> QED BY <3>1, <3>2
  <2>2. ASSUME NEW k \in f..Len(q) PROVE q[k].id \in {s[i].id : i \in 1..Len(s)}
    <3>1. PICK i \in 1..Len(s) : s[i] = q[k] BY <1>6
    <3> QED BY <3>1
  <2>3. Ids(s) = {s[i].id : i \in 1..Len(s)} BY <1>3, IdsOf
  <2> QED BY <2>1, <2>2, <2>3
<1>8. Ids(q) \ Ids(s) = {q[k].id : k \in 1..(f - 1)}
  <2>1. \A k \in 1..(f - 1), j \in f..Len(q) : q[k].id # q[j].id
    <3> SUFFICES ASSUME NEW k \in 1..(f - 1), NEW j \in f..Len(q) PROVE q[k].id < q[j].id
      BY <1>1, EntryFields
    <3> QED BY <1>1 DEF Queue, Ordered
  <2>2. 1..Len(q) = (1..(f - 1)) \cup (f..Len(q)) BY <1>1
  <2> QED BY <1>1, <1>7, <2>1, <2>2, IdsOf
<1>9. Queue(s, n) BY <1>3, <1>4, <1>5 DEF Queue
<1> QED BY <1>3, <1>7, <1>8, <1>9 DEF s

\* What flush() keeps of a queue before it sends.
LEMMA FreshIsSuffix ==
  ASSUME NEW q \in Seq(Entry)
  PROVE  \E f \in 1..(Len(q) + 1) :
           /\ Fresh(q) = SubSeq(q, f, Len(q))
           /\ f = Len(q) + 1 \/ ~Expired(q[f])
<1> DEFINE First(k) == /\ k = Len(q) + 1 \/ ~Expired(q[k])
                       /\ \A i \in 1..(k - 1) : Expired(q[i])
           T == {k \in 1..(Len(q) + 1) : k = Len(q) + 1 \/ ~Expired(q[k])}
<1>1. Len(q) + 1 \in T /\ T \in SUBSET Nat OBVIOUS
<1>2. PICK f \in T : \A m \in T : f <= m BY <1>1, LeastNumber
<1>3. \A i \in 1..(f - 1) : i \notin T BY <1>2
<1>4. First(f) BY <1>2, <1>3
<1>5. \E k \in 1..(Len(q) + 1) : First(k) BY <1>2, <1>4
<1>6. PICK g \in 1..(Len(q) + 1) : g = (CHOOSE k \in 1..(Len(q) + 1) : First(k)) /\ First(g)
  BY <1>5
<1> QED BY <1>6 DEF Fresh

LEMMA FreshFacts ==
  ASSUME NEW n \in Nat, NEW q, Queue(q, n)
  PROVE  /\ Queue(Fresh(q), n) /\ Len(Fresh(q)) <= Len(q) /\ Ids(Fresh(q)) \subseteq Ids(q)
         /\ Fresh(q) # <<>> => Fresh(q)[1].attempts < MaxAttempts
<1>1. q \in Seq(Entry) /\ Len(q) \in Nat BY DEF Queue
<1>2. PICK f \in 1..(Len(q) + 1) : Fresh(q) = SubSeq(q, f, Len(q)) /\ (f = Len(q) + 1 \/ ~Expired(q[f]))
  BY <1>1, FreshIsSuffix
<1>3. /\ Queue(Fresh(q), n) /\ Len(Fresh(q)) = Len(q) + 1 - f
      /\ \A i \in 1..Len(Fresh(q)) : Fresh(q)[i] = q[f + i - 1]
      /\ Ids(Fresh(q)) = {q[k].id : k \in f..Len(q)}
  BY <1>2, Suffix
<1>4. Ids(Fresh(q)) \subseteq Ids(q) BY <1>1, <1>3, IdsOf
<1>5. ASSUME Fresh(q) # <<>> PROVE Fresh(q)[1].attempts < MaxAttempts
  <2>1. Fresh(q) \in Seq(Entry) /\ Len(Fresh(q)) # 0 BY <1>3, <1>5 DEF Queue
  <2>2. Fresh(q)[1] = q[f] /\ f \in 1..Len(q) BY <1>1, <1>3, <2>1
  <2>3. ~Expired(q[f]) BY <1>1, <1>2, <2>2
  <2> QED BY <1>1, <2>2, <2>3, EntryFields, ConstantsAssumption DEF Expired
<1> QED BY <1>1, <1>3, <1>4, <1>5

\* A queue without its oldest entry.
LEMMA TailFacts ==
  ASSUME NEW n \in Nat, NEW q, Queue(q, n), q # <<>>
  PROVE  /\ Queue(Tail(q), n) /\ Len(Tail(q)) = Len(q) - 1
         /\ \A k \in 1..Len(Tail(q)) : Tail(q)[k] = q[k + 1]
         /\ Ids(q) \ Ids(Tail(q)) = {q[1].id} /\ Ids(Tail(q)) \subseteq Ids(q)
<1>1. q \in Seq(Entry) /\ Len(q) \in Nat /\ Len(q) # 0 BY DEF Queue
<1> DEFINE s == SubSeq(q, 2, Len(q))
<1>2. /\ Queue(s, n) /\ Len(s) = Len(q) + 1 - 2
      /\ \A i \in 1..Len(s) : s[i] = q[2 + i - 1]
      /\ Ids(s) = {q[k].id : k \in 2..Len(q)}
      /\ Ids(q) \ Ids(s) = {q[k].id : k \in 1..(2 - 1)}
  <2>1. 2 \in 1..(Len(q) + 1) BY <1>1
  <2> QED BY <2>1, Suffix
<1>3. Tail(q) = s BY <1>1, TailIsSubSeq
<1> HIDE DEF s
<1>4. \A k \in 1..Len(s) : s[k] = q[k + 1] BY <1>1, <1>2
<1>5. {q[k].id : k \in 1..(2 - 1)} = {q[1].id} OBVIOUS
<1>6. Ids(s) \subseteq Ids(q) BY <1>1, <1>2, IdsOf
<1>7. Len(s) = Len(q) - 1 BY <1>1, <1>2
<1> QED BY <1>2, <1>3, <1>4, <1>5, <1>6, <1>7, Zenon

LEMMA AppendFacts ==
  ASSUME NEW n \in Nat, NEW q, Queue(q, n), NEW e \in Entry, e.id = n + 1
  PROVE  /\ Queue(Append(q, e), n + 1) /\ Len(Append(q, e)) = Len(q) + 1
         /\ \A k \in 1..Len(q) : Append(q, e)[k] = q[k]
         /\ Append(q, e)[Len(q) + 1] = e
         /\ Ids(Append(q, e)) = Ids(q) \cup {n + 1}
<1> DEFINE s == Append(q, e)
<1>1. q \in Seq(Entry) /\ Len(q) \in Nat BY DEF Queue
<1>2. /\ s \in Seq(Entry) /\ Len(s) = Len(q) + 1
      /\ \A k \in 1..Len(q) : s[k] = q[k]
      /\ s[Len(q) + 1] = e
  BY <1>1, AppendProperties
<1> HIDE DEF s
<1>3. \A k \in 1..Len(s) : k \in 1..Len(q) \/ k = Len(q) + 1 BY <1>1, <1>2
<1>4. \A k \in 1..Len(q) : q[k].id <= n /\ q[k].id \in Nat BY <1>1, EntryFields DEF Queue
<1>5. Ordered(s)
  <2> SUFFICES ASSUME NEW i \in 1..Len(s), NEW j \in 1..Len(s), i < j PROVE s[i].id < s[j].id BY DEF Ordered
  <2>1. i \in 1..Len(q) BY <1>1, <1>2
  <2>2. CASE j \in 1..Len(q) BY <1>2, <2>1, <2>2 DEF Queue, Ordered
  <2>3. CASE j = Len(q) + 1 BY <1>2, <1>4, <2>1, <2>3
  <2> QED BY <1>3, <2>2, <2>3
<1>6. \A k \in 1..Len(s) : s[k].id <= n + 1 BY <1>2, <1>3, <1>4
<1>7. Queue(s, n + 1) BY <1>2, <1>5, <1>6 DEF Queue
<1>8. Ids(s) = Ids(q) \cup {n + 1}
  <2>1. 1..Len(s) = (1..Len(q)) \cup {Len(q) + 1} BY <1>1, <1>2
  <2> QED BY <1>1, <1>2, <2>1, IdsOf
<1> QED BY <1>2, <1>7, <1>8 DEF s

LEMMA CountedFacts ==
  ASSUME NEW n \in Nat, NEW q, Queue(q, n), NEW i,
         \A k \in 1..Len(q) : q[k].id = i => q[k].attempts < MaxAttempts
  PROVE  /\ Queue(Counted(q, i), n) /\ Len(Counted(q, i)) = Len(q) /\ Ids(Counted(q, i)) = Ids(q)
<1> DEFINE s == Counted(q, i)
<1>1. q \in Seq(Entry) /\ Len(q) \in Nat /\ DOMAIN q = 1..Len(q) BY DEF Queue
<1>2. s = [k \in 1..Len(q) |-> IF q[k].id = i THEN [q[k] EXCEPT !.attempts = @ + 1] ELSE q[k]]
  BY <1>1 DEF Counted
<1> HIDE DEF s
<1>3. \A k \in 1..Len(q) : s[k] \in Entry /\ s[k].id = q[k].id
  <2> SUFFICES ASSUME NEW k \in 1..Len(q) PROVE s[k] \in Entry /\ s[k].id = q[k].id OBVIOUS
  <2>1. q[k] \in Entry BY <1>1
  <2>2. CASE q[k].id = i
    <3>1. s[k] = [q[k] EXCEPT !.attempts = @ + 1] BY <1>2, <2>2
    <3>2. q[k].attempts + 1 \in 0..MaxAttempts BY <2>1, <2>2, EntryFields, ConstantsAssumption
    <3> QED BY <2>1, <3>1, <3>2 DEF Entry
  <2>3. CASE q[k].id # i BY <1>2, <2>1, <2>3
  <2> QED BY <2>2, <2>3
<1>4. s \in Seq(Entry) /\ Len(s) = Len(q) BY <1>1, <1>2, <1>3
<1>5. Queue(s, n) BY <1>3, <1>4 DEF Queue, Ordered
<1>6. Ids(s) = Ids(q)
  <2>1. Ids(s) = {s[k].id : k \in 1..Len(q)} BY <1>4, IdsOf
  <2>2. Ids(q) = {q[k].id : k \in 1..Len(q)} BY <1>1, IdsOf
  <2> QED BY <1>3, <2>1, <2>2
<1> QED BY <1>4, <1>5, <1>6 DEF s

-----------------------------------------------------------------------------
(* The steps.                                                              *)

\* Writing the queue q: the file is q, or a write failed.
Written(q) == /\ file' \in {file, q} /\ failed' \in BOOLEAN
              /\ ~failed' => ~failed /\ file' = q

LEMMA PersistWrites ==
  ASSUME TypeOK, NEW q, Persist(q)
  PROVE  Written(q)
<1>1. CASE file' = q /\ UNCHANGED failed BY <1>1 DEF Written, TypeOK
<1>2. CASE failed' = TRUE /\ UNCHANGED file BY <1>2 DEF Written
<1> QED BY <1>1, <1>2 DEF Persist

\* The loop of flush() goes on over a queue that lacks nothing but what was
\* refused or received.
LEMMA ContinueStep ==
  ASSUME IInv, NEW q, NEW r \in SUBSET Messages, Queue(q, made), Len(q) <= Cap,
         Continue(q, r), Written(Fresh(q)), again' \in BOOLEAN,
         UNCHANGED <<made, old, delivered, overflowed, crashes>>,
         Ids(q) \subseteq Ids(entries),
         overflowed = {} => Ids(entries) \subseteq Ids(q) \cup r \cup delivered
  PROVE  IInv'
<1>0. TypeOK /\ made \in Nat BY DEF IInv, TypeOK
<1> DEFINE s == Fresh(q)
<1>1. /\ Queue(s, made) /\ Len(s) <= Len(q) /\ Ids(s) \subseteq Ids(q)
      /\ s # <<>> => s[1].attempts < MaxAttempts
  BY <1>0, FreshFacts
<1>2. entries' = s /\ given' = given \cup r \cup (Ids(q) \ Ids(s))
      /\ sending' = IF s = <<>> THEN NoEntry ELSE s[1].id
  BY DEF Continue
<1>3. Written(s) OBVIOUS
<1> HIDE DEF s
<1>4. s \in Seq(Entry) /\ Len(s) \in Nat /\ (s # <<>> => 1 \in 1..Len(s)) BY <1>1 DEF Queue
<1>5. s # <<>> => s[1].id \in Messages /\ s[1].id <= made BY <1>1, <1>4, EntryFields DEF Queue
<1>6. q \in Seq(Entry) /\ Len(q) \in Nat BY DEF Queue
<1>7. Ids(q) \subseteq Messages BY <1>6, EntryFields, IdsOf
<1>8. Len(s) <= Cap BY <1>1, <1>4, <1>6, ConstantsAssumption
<1>9. TypeOK'
  <2>1. file' \in Seq(Entry) /\ Len(file') <= Cap /\ failed' \in BOOLEAN
    BY <1>0, <1>3, <1>4, <1>8 DEF Written, TypeOK
  <2>2. sending' \in Messages \cup {NoEntry} BY <1>2, <1>5
  <2>3. given' \subseteq Messages BY <1>0, <1>2, <1>7 DEF TypeOK
  <2> QED BY <1>0, <1>2, <1>4, <1>8, <2>1, <2>2, <2>3 DEF TypeOK
<1>10. Buffered'
  <2>1. Queue(file', made') BY <1>1, <1>3 DEF Written, IInv, Buffered
  <2>2. Queue(entries', made') BY <1>1, <1>2
  <2>3. sending' <= made' BY <1>0, <1>2, <1>5 DEF NoEntry
  <2> QED BY <2>1, <2>2, <2>3 DEF IInv, Buffered
<1>11. SentFirst'
  <2> SUFFICES ASSUME s # <<>>, NEW k \in 1..Len(s)
               PROVE  s[1].id <= s[k].id /\ (s[k].id = s[1].id => s[k].attempts < MaxAttempts)
    BY <1>2 DEF SentFirst
  <2>1. s[k] \in Entry /\ s[1] \in Entry BY <1>4
  <2>2. CASE k = 1 BY <1>1, <2>1, <2>2, EntryFields
  <2>3. CASE 1 < k
    <3>1. s[1].id < s[k].id BY <1>1, <1>4, <2>3 DEF Queue, Ordered
    <3> QED BY <2>1, <3>1, EntryFields
  <2> QED BY <1>4, <2>2, <2>3
<1>12. FileIsQueue' BY <1>2, <1>3 DEF FileIsQueue, Written
<1>13. HeadIsSent' BY <1>2 DEF HeadIsSent
<1>14. LostOnlyAfterOverflow'
  <2> SUFFICES ASSUME ~failed', overflowed' = {}, NEW i \in 1..made' PROVE Accounted(i)'
    BY DEF LostOnlyAfterOverflow
  <2>1. Accounted(i) BY <1>3 DEF IInv, LostOnlyAfterOverflow, Written
  <2> QED BY <1>2, <2>1 DEF Accounted
<1>15. InOrder' BY <1>1, <1>2, <1>3 DEF IInv, InOrder, Written
<1> QED BY <1>9, <1>10, <1>11, <1>12, <1>13, <1>14, <1>15 DEF IInv

LEMMA EnqueueStep == IInv /\ Enqueue => IInv'
<1> SUFFICES ASSUME IInv, Enqueue PROVE IInv' OBVIOUS
<1> DEFINE e == [id |-> made + 1, attempts |-> 0]
           q == Append(entries, e)
           s == Capped(q)
<1>0. TypeOK /\ made \in Nat /\ made' = made + 1 /\ made < MaxMessages BY DEF IInv, TypeOK, Enqueue
<1>1. e \in Entry /\ e.id = made + 1 BY <1>0, ConstantsAssumption DEF Entry, Messages
<1>2. Queue(entries, made) BY DEF IInv, Buffered
<1>3. /\ Queue(q, made + 1) /\ Len(q) = Len(entries) + 1
      /\ \A k \in 1..Len(entries) : q[k] = entries[k]
      /\ q[Len(entries) + 1] = e
      /\ Ids(q) = Ids(entries) \cup {made + 1}
  BY <1>0, <1>1, <1>2, AppendFacts
<1>4. /\ entries' = s /\ overflowed' = overflowed \cup (Ids(q) \ Ids(s)) /\ Persist(s)
      /\ UNCHANGED <<sending, again, old, delivered, given, crashes>>
  BY DEF Enqueue
<1>5. Written(s) BY <1>0, <1>4, PersistWrites
<1>6. entries \in Seq(Entry) /\ q \in Seq(Entry) /\ Len(entries) \in Nat /\ Len(entries) <= Cap /\ Cap \in Nat
  BY <1>0, <1>3, ConstantsAssumption DEF TypeOK, Queue
<1> HIDE DEF e, q
<1>7. \/ s = q /\ Len(q) <= Cap
      \/ s = Tail(q) /\ Len(q) = Cap + 1 /\ q # <<>>
  <2>1. CASE Len(q) > Cap
    <3>1. Len(q) = Cap + 1 BY <1>3, <1>6, <2>1
    <3>2. q # <<>> BY <1>3, <1>6
    <3> QED BY <2>1, <3>1, <3>2 DEF Capped
  <2>2. CASE ~(Len(q) > Cap) BY <1>3, <1>6, <2>2 DEF Capped
  <2> QED BY <2>1, <2>2
<1> HIDE DEF s
<1>8. /\ Queue(s, made + 1) /\ Len(s) <= Cap /\ Ids(s) \subseteq Ids(q)
      /\ \A k \in 1..Len(s) : \E j \in 1..Len(q) : s[k] = q[j]
      /\ s = q \/ Ids(q) \ Ids(s) # {}
  <2>1. CASE s = q /\ Len(q) <= Cap BY <1>3, <2>1
  <2>2. CASE s = Tail(q) /\ Len(q) = Cap + 1 /\ q # <<>>
    <3>1. made + 1 \in Nat BY <1>0
    <3>0. /\ Queue(Tail(q), made + 1) /\ Len(Tail(q)) = Len(q) - 1
          /\ \A k \in 1..Len(Tail(q)) : Tail(q)[k] = q[k + 1]
          /\ Ids(q) \ Ids(Tail(q)) = {q[1].id} /\ Ids(Tail(q)) \subseteq Ids(q)
      BY <1>3, <2>2, <3>1, TailFacts, Zenon
    <3>2. /\ Queue(s, made + 1) /\ Len(s) = Len(q) - 1
          /\ \A k \in 1..Len(s) : s[k] = q[k + 1]
          /\ Ids(q) \ Ids(s) = {q[1].id} /\ Ids(s) \subseteq Ids(q)
      BY <2>2, <3>0, Zenon
    <3>3. \A k \in 1..Len(s) : k + 1 \in 1..Len(q) BY <1>6, <2>2, <3>2
    <3>4. Len(s) <= Cap BY <1>6, <2>2, <3>2
    <3> QED BY <3>2, <3>3, <3>4, Zenon
  <2> QED BY <1>7, <2>1, <2>2
<1>9. s \in Seq(Entry) /\ Len(s) \in Nat BY <1>8 DEF Queue
<1>10. TypeOK'
  <2>1. file' \in Seq(Entry) /\ Len(file') <= Cap /\ failed' \in BOOLEAN
    BY <1>0, <1>5, <1>8, <1>9 DEF Written, TypeOK
  <2>2. made' \in 0..MaxMessages BY <1>0, ConstantsAssumption
  <2>3. overflowed' \subseteq Messages
    <3>1. Ids(q) \subseteq Messages BY <1>6, EntryFields, IdsOf
    <3> QED BY <1>0, <1>4, <3>1 DEF TypeOK
  <2> QED BY <1>0, <1>4, <1>8, <1>9, <2>1, <2>2, <2>3 DEF TypeOK
<1>11. Buffered'
  <2>1. Queue(file, made + 1)
    <3>1. Queue(file, made) BY DEF IInv, Buffered
    <3>2. \A k \in 1..Len(file) : file[k].id <= made + 1
      BY <1>0, <3>1, EntryFields DEF Queue
    <3> QED BY <3>1, <3>2 DEF Queue
  <2>2. Queue(file', made') BY <1>0, <1>5, <1>8, <2>1 DEF Written
  <2>3. sending \in Nat BY <1>0 DEF TypeOK, Messages, NoEntry
  <2>4. sending' <= made' /\ delivered' \subseteq 1..made' BY <1>0, <1>4, <2>3 DEF IInv, Buffered
  <2> QED BY <1>0, <1>4, <1>8, <2>2, <2>4 DEF Buffered
<1>12. SentFirst'
  <2> SUFFICES ASSUME sending # NoEntry, NEW k \in 1..Len(s)
               PROVE  sending <= s[k].id /\ (s[k].id = sending => s[k].attempts < MaxAttempts)
    BY <1>4 DEF SentFirst
  <2>1. PICK j \in 1..Len(q) : s[k] = q[j] BY <1>8
  <2>2. CASE j \in 1..Len(entries) BY <1>3, <2>1, <2>2 DEF IInv, SentFirst
  <2>3. CASE j = Len(entries) + 1
    <3>1. s[k].id = made + 1 BY <1>1, <1>3, <2>1, <2>3
    <3>2. sending \in Nat /\ sending <= made BY <1>0 DEF TypeOK, Messages, NoEntry, IInv, Buffered
    <3> QED BY <1>0, <3>1, <3>2
  <2> QED BY <1>3, <1>6, <2>2, <2>3
<1>13. FileIsQueue' BY <1>4, <1>5 DEF FileIsQueue, Written
<1>14. HeadIsSent'
  <2> SUFFICES ASSUME overflowed' = {}, sending' # NoEntry PROVE s # <<>> /\ s[1].id = sending'
    BY <1>4 DEF HeadIsSent
  <2>1. s = q /\ overflowed = {} BY <1>4, <1>8
  <2>2. entries # <<>> /\ entries[1].id = sending BY <1>4, <2>1 DEF IInv, HeadIsSent
  <2>3. 1 \in 1..Len(entries) BY <1>6, <2>2
  <2> QED BY <1>3, <1>4, <1>6, <2>1, <2>2, <2>3
<1>15. LostOnlyAfterOverflow'
  <2> SUFFICES ASSUME ~failed', overflowed' = {}, NEW i \in 1..made' PROVE Accounted(i)'
    BY DEF LostOnlyAfterOverflow
  <2>1. s = q /\ overflowed = {} /\ ~failed BY <1>4, <1>5, <1>8 DEF Written
  <2>2. i \in 1..made \/ i = made + 1 BY <1>0
  <2> QED BY <1>3, <1>4, <2>1, <2>2 DEF IInv, LostOnlyAfterOverflow, Accounted
<1>16. InOrder'
  <2> SUFFICES ASSUME ~failed', NEW i \in Ids(s) \ delivered, NEW j \in delivered PROVE j < i
    BY <1>4 DEF InOrder
  <2>1. ~failed BY <1>5 DEF Written
  <2>2. CASE i \in Ids(entries) BY <2>1, <2>2 DEF IInv, InOrder
  <2>3. CASE i = made + 1 BY <1>0, <2>3 DEF IInv, Buffered
  <2> QED BY <1>3, <1>8, <2>2, <2>3
<1> QED BY <1>10, <1>11, <1>12, <1>13, <1>14, <1>15, <1>16 DEF IInv

LEMMA FlushStartStep == IInv /\ FlushStart => IInv'
<1> SUFFICES ASSUME IInv, FlushStart PROVE IInv' OBVIOUS
<1>1. Written(Fresh(entries))
  <2>1. CASE Fresh(entries) = entries
    BY <2>1 DEF FlushStart, Written, IInv, FileIsQueue, TypeOK
  <2>2. CASE Fresh(entries) # entries
    BY <2>2, PersistWrites DEF FlushStart, IInv
  <2> QED BY <2>1, <2>2
<1>2. again' \in BOOLEAN BY DEF FlushStart, IInv, TypeOK
<1>3. Queue(entries, made) /\ Len(entries) <= Cap /\ {} \in SUBSET Messages BY DEF IInv, Buffered, TypeOK
<1>4. Continue(entries, {}) /\ UNCHANGED <<made, old, delivered, overflowed, crashes>> BY DEF FlushStart
<1> QED BY <1>1, <1>2, <1>3, <1>4, ContinueStep

LEMMA SettleStep == IInv /\ Settle => IInv'
<1> SUFFICES ASSUME IInv, Settle PROVE IInv' OBVIOUS
<1> DEFINE q == IF entries = <<>> THEN entries ELSE Tail(entries)
           r == {sending} \ delivered
<1>1. Continue(q, r) /\ Persist(Fresh(q)) /\ again' = (again /\ Fresh(q) # <<>>)
      /\ UNCHANGED <<made, old, delivered, overflowed, crashes>> /\ sending # NoEntry
  BY DEF Settle
<1>2. Written(Fresh(q)) /\ again' \in BOOLEAN BY <1>1, PersistWrites DEF IInv
<1>3. Queue(entries, made) /\ Len(entries) <= Cap /\ made \in Nat /\ Len(entries) \in Nat
      /\ sending \in Messages
  BY <1>1 DEF IInv, Buffered, TypeOK
<1>4. Queue(q, made) /\ Len(q) <= Cap /\ Ids(q) \subseteq Ids(entries)
      /\ (entries # <<>> => Ids(entries) \ Ids(q) = {entries[1].id})
  <2>1. CASE entries = <<>> BY <1>3, <2>1
  <2>2. CASE entries # <<>>
    <3>1. Queue(q, made) /\ Len(q) = Len(entries) - 1 /\ Ids(q) \subseteq Ids(entries)
          /\ Ids(entries) \ Ids(q) = {entries[1].id}
      BY <1>3, <2>2, TailFacts, Zenon
    <3> QED BY <1>3, <3>1, ConstantsAssumption
  <2> QED BY <2>1, <2>2
<1>5. overflowed = {} => Ids(entries) \subseteq Ids(q) \cup r \cup delivered
  BY <1>1, <1>4 DEF IInv, HeadIsSent
<1>6. r \in SUBSET Messages BY <1>3
<1> HIDE DEF q, r
<1> QED BY <1>1, <1>2, <1>4, <1>5, <1>6, ContinueStep

LEMMA PauseStep == IInv /\ Pause => IInv'
<1> SUFFICES ASSUME IInv, Pause PROVE IInv' OBVIOUS
<1> DEFINE q == Retried(entries, sending)
<1>1. /\ sending # NoEntry /\ again' = FALSE /\ UNCHANGED <<made, old, delivered, overflowed, crashes>>
      /\ IF again THEN Continue(q, {}) /\ Persist(Fresh(q))
         ELSE entries' = q /\ sending' = NoEntry /\ Persist(q) /\ UNCHANGED given
  BY DEF Pause
<1>2. TypeOK /\ Queue(entries, made) /\ Len(entries) <= Cap /\ made \in Nat
  BY DEF IInv, Buffered, TypeOK
<1>3. \A k \in 1..Len(entries) : entries[k].id = sending => entries[k].attempts < MaxAttempts
  BY <1>1 DEF IInv, SentFirst
<1>4. Queue(q, made) /\ Len(q) = Len(entries) /\ Ids(q) = Ids(entries)
  BY <1>2, <1>3, CountedFacts DEF Retried
<1> HIDE DEF q
<1>5. CASE again
  <2>1. Written(Fresh(q)) BY <1>1, <1>2, <1>5, PersistWrites
  <2>2. Len(q) <= Cap /\ {} \in SUBSET Messages BY <1>2, <1>4
  <2> QED BY <1>1, <1>4, <1>5, <2>1, <2>2, ContinueStep
<1>6. CASE ~again
  <2>1. Written(q) BY <1>1, <1>2, <1>6, PersistWrites
  <2>2. entries' = q /\ sending' = NoEntry /\ UNCHANGED given BY <1>1, <1>6
  <2>3. q \in Seq(Entry) BY <1>4 DEF Queue
  <2>4. TypeOK' BY <1>1, <1>2, <1>4, <2>1, <2>2, <2>3 DEF TypeOK, Written
  <2>5. Buffered' BY <1>1, <1>2, <1>4, <2>1, <2>2 DEF IInv, Buffered, Written, NoEntry
  <2>6. FileIsQueue' BY <2>1, <2>2 DEF FileIsQueue, Written
  <2>7. LostOnlyAfterOverflow'
    BY <1>1, <1>4, <2>1, <2>2 DEF IInv, LostOnlyAfterOverflow, Accounted, Written
  <2>8. InOrder' BY <1>1, <1>4, <2>1, <2>2 DEF IInv, InOrder, Written
  <2> QED BY <2>2, <2>4, <2>5, <2>6, <2>7, <2>8 DEF IInv, SentFirst, HeadIsSent
<1> QED BY <1>5, <1>6

LEMMA OtherStep ==
  ASSUME IInv, FlushAgain \/ Arrive \/ Restart \/ (\E i \in Messages : Age(i)) \/ UNCHANGED vars
  PROVE  IInv'
<1> USE DEF memory, fates, vars
<1>0. TypeOK /\ made \in Nat /\ sending \in Nat BY DEF IInv, TypeOK, Messages, NoEntry
<1>1. CASE FlushAgain \/ UNCHANGED vars
  <2>1. UNCHANGED <<entries, sending, file, made, old, fates, failed, crashes>> /\ again' \in BOOLEAN
    BY <1>0, <1>1 DEF FlushAgain, TypeOK
  <2> QED BY <2>1 DEF IInv, TypeOK, Buffered, Queue, Ordered, SentFirst, FileIsQueue, HeadIsSent,
                      LostOnlyAfterOverflow, Accounted, InOrder
<1>2. CASE Arrive
  <2>1. /\ sending # NoEntry /\ delivered' = delivered \cup {sending}
        /\ UNCHANGED <<memory, file, made, old, given, overflowed, failed, crashes>>
    BY <1>2 DEF Arrive
  <2>2. sending \in Messages /\ sending \in 1..made BY <1>0, <2>1 DEF TypeOK, Messages, NoEntry, IInv, Buffered
  <2>3. TypeOK' BY <1>0, <2>1, <2>2 DEF TypeOK
  <2>4. Buffered' BY <2>1, <2>2 DEF IInv, Buffered, Queue, Ordered
  <2>5. SentFirst' /\ FileIsQueue' /\ HeadIsSent' BY <2>1 DEF IInv, SentFirst, FileIsQueue, HeadIsSent
  <2>6. LostOnlyAfterOverflow' BY <2>1 DEF IInv, LostOnlyAfterOverflow, Accounted
  <2>7. InOrder'
    <3> SUFFICES ASSUME ~failed, NEW i \in Ids(entries), i \notin delivered, i # sending,
                        NEW j \in delivered \cup {sending}
                 PROVE  j < i
      BY <2>1 DEF InOrder
    <3>1. CASE j \in delivered BY <3>1 DEF IInv, InOrder
    <3>2. CASE j = sending
      <4>1. PICK k \in 1..Len(entries) : i = entries[k].id BY <1>0, IdsOf DEF TypeOK
      <4>2. entries[k] \in Entry BY <1>0 DEF TypeOK
      <4> QED BY <1>0, <2>1, <3>2, <4>1, <4>2, EntryFields DEF IInv, SentFirst
    <3> QED BY <3>1, <3>2
  <2> QED BY <2>3, <2>4, <2>5, <2>6, <2>7 DEF IInv
<1>3. CASE Restart
  <2>1. /\ crashes < MaxCrashes /\ crashes' = crashes + 1 /\ entries' = file /\ sending' = NoEntry /\ again' = FALSE
        /\ UNCHANGED <<file, made, old, fates, failed>>
    BY <1>3 DEF Restart
  <2>2. crashes' \in 0..MaxCrashes BY <1>0, <2>1, ConstantsAssumption DEF TypeOK
  <2>3. again' \in BOOLEAN BY <2>1
  <2>4. TypeOK' BY <1>0, <2>1, <2>2, <2>3 DEF TypeOK
  <2>5. Buffered' BY <1>0, <2>1 DEF IInv, Buffered, Queue, Ordered, NoEntry
  <2>6. SentFirst' /\ FileIsQueue' /\ HeadIsSent' BY <2>1 DEF SentFirst, FileIsQueue, HeadIsSent
  <2>7. LostOnlyAfterOverflow' BY <2>1 DEF IInv, LostOnlyAfterOverflow, Accounted, FileIsQueue
  <2>8. InOrder' BY <2>1 DEF IInv, InOrder, FileIsQueue
  <2> QED BY <2>4, <2>5, <2>6, <2>7, <2>8 DEF IInv
<1>4. ASSUME NEW i \in Messages, Age(i) PROVE IInv'
  <2>1. old' = old \cup {i} /\ UNCHANGED <<memory, file, made, fates, failed, crashes>> BY <1>4 DEF Age
  <2>2. TypeOK' BY <1>0, <2>1 DEF TypeOK
  <2> QED BY <2>1, <2>2 DEF IInv, Buffered, Queue, Ordered, SentFirst, FileIsQueue, HeadIsSent,
                           LostOnlyAfterOverflow, Accounted, InOrder
<1> QED BY <1>1, <1>2, <1>3, <1>4

LEMMA NextInv == IInv /\ [Next]_vars => IInv'
  BY EnqueueStep, FlushStartStep, SettleStep, PauseStep, OtherStep DEF Next, Flush

LEMMA InitInv == Init => IInv
<1> SUFFICES ASSUME Init PROVE IInv OBVIOUS
<1>1. <<>> \in Seq(Entry) /\ Len(<<>>) = 0 OBVIOUS
<1>2. TypeOK
  <2>1. Len(entries) <= Cap /\ Len(file) <= Cap /\ made \in 0..MaxMessages /\ crashes \in 0..MaxCrashes
    BY <1>1, ConstantsAssumption DEF Init
  <2>2. again \in BOOLEAN /\ failed \in BOOLEAN BY DEF Init
  <2> QED BY <1>1, <2>1, <2>2 DEF Init, TypeOK
<1>3. Queue(<<>>, 0) BY <1>1 DEF Queue, Ordered
<1>4. Ids(<<>>) = {}
  <2>1. 1..0 = {} OBVIOUS
  <2> QED BY <1>1, <2>1, IdsOf
<1>5. InOrder BY <1>4 DEF Init, InOrder
<1> QED BY <1>2, <1>3, <1>5 DEF Init, IInv, Buffered, SentFirst, FileIsQueue, HeadIsSent,
                           LostOnlyAfterOverflow, NoEntry

\* The inductive invariant of the queue, its file and what enqueue() and flush()
\* have done so far.
THEOREM Inductive == Spec => []IInv
  BY InitInv, NextInv, PTL DEF Spec

\* For every cap and limit: the queue and outbox.json never outgrow the cap of
\* enqueue(), and no entry is counted past the attempts flush() allows.
THEOREM TypeCorrect == Spec => []TypeOK
<1>1. IInv => TypeOK BY DEF IInv
<1> QED BY <1>1, Inductive, PTL

\* For any number of messages and restarts: as long as the cap was never
\* reached and no write failed, every message that enqueue() accepted is
\* queued, was received, or was given up by flush() for a stated reason.
THEOREM NothingIsLost == Spec => []LostOnlyAfterOverflow
<1>1. IInv => LostOnlyAfterOverflow BY DEF IInv
<1> QED BY <1>1, Inductive, PTL

\* For any number of messages and restarts: flush() lets no message overtake
\* an older one that is still queued, overflow or not.
THEOREM FifoOrder == Spec => []InOrder
<1>1. IInv => InOrder BY DEF IInv
<1> QED BY <1>1, Inductive, PTL
=============================================================================

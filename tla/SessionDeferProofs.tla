------------------------- MODULE SessionDeferProofs --------------------------
(* Proofs about SessionDefer, for any number of keys, processes and crashes. *)
EXTENDS SessionDefer, TLAPS

-----------------------------------------------------------------------------
(* What the operators on bags do to the copies of an element.              *)

Copies(e, B) == IF e \in DOMAIN B THEN B[e] ELSE 0

LEMMA BagCopies ==
  ASSUME NEW B, IsABag(B)
  PROVE  \A e : Copies(e, B) \in Nat /\ (e \in DOMAIN B <=> Copies(e, B) > 0)
  BY DEF IsABag, Copies

LEMMA BagAdd ==
  ASSUME NEW B, IsABag(B), NEW S
  PROVE  /\ IsABag(B (+) SetToBag(S)) /\ DOMAIN (B (+) SetToBag(S)) = DOMAIN B \cup S
         /\ \A e : Copies(e, B (+) SetToBag(S)) = Copies(e, B) + (IF e \in S THEN 1 ELSE 0)
<1> DEFINE T == SetToBag(S)
           C == B (+) T
<1>1. DOMAIN T = S /\ \A e \in S : T[e] = 1 BY DEF SetToBag
<1>2. \A e \in DOMAIN B : B[e] \in Nat /\ B[e] > 0 BY DEF IsABag
<1>3. C = [e \in DOMAIN B \cup DOMAIN T |-> Copies(e, B) + Copies(e, T)] BY DEF (+), Copies
<1>4. DOMAIN C = DOMAIN B \cup S BY <1>1, <1>3
<1>5. \A e : Copies(e, B) \in Nat /\ (e \in DOMAIN B <=> Copies(e, B) > 0) BY <1>2 DEF Copies
<1>6. \A e : Copies(e, T) = IF e \in S THEN 1 ELSE 0 BY <1>1 DEF Copies
<1> HIDE DEF T, C
<1>7. \A e \in DOMAIN C : C[e] = Copies(e, B) + Copies(e, T) BY <1>1, <1>3, <1>4
<1>8. \A e \in DOMAIN C : C[e] \in {n \in Nat : n > 0} BY <1>4, <1>5, <1>6, <1>7
<1>9. IsABag(C) BY <1>3, <1>8 DEF IsABag
<1>10. \A e : Copies(e, C) = Copies(e, B) + (IF e \in S THEN 1 ELSE 0)
  BY <1>4, <1>5, <1>6, <1>7 DEF Copies
<1> QED BY <1>4, <1>9, <1>10 DEF C, T

LEMMA BagRemove ==
  ASSUME NEW B, IsABag(B), NEW j \in DOMAIN B
  PROVE  /\ IsABag(B (-) SetToBag({j}))
         /\ \A e : Copies(e, B (-) SetToBag({j})) = Copies(e, B) - (IF e = j THEN 1 ELSE 0)
<1> DEFINE T == SetToBag({j})
           D == [e \in DOMAIN B |-> IF e \in DOMAIN T THEN B[e] - T[e] ELSE B[e]]
           C == B (-) T
<1>1. DOMAIN T = {j} /\ T[j] = 1 BY DEF SetToBag
<1>2. \A e \in DOMAIN B : B[e] \in Nat /\ B[e] > 0 BY DEF IsABag
<1>3. C = [e \in {d \in DOMAIN D : D[d] > 0} |-> D[e]] BY DEF (-)
<1>4. DOMAIN D = DOMAIN B /\ \A e \in DOMAIN B : D[e] = IF e = j THEN B[e] - 1 ELSE B[e] BY <1>1
<1> HIDE DEF T, D, C
<1>5. DOMAIN C = {d \in DOMAIN B : D[d] > 0} /\ \A e \in DOMAIN C : C[e] = D[e] BY <1>3, <1>4
<1>6. \A e \in DOMAIN B : D[e] \in Nat BY <1>2, <1>4
<1>7. \A e \in DOMAIN C : C[e] \in {n \in Nat : n > 0} BY <1>5, <1>6
<1>8. IsABag(C) BY <1>3, <1>7 DEF IsABag
<1>9. ASSUME NEW e PROVE Copies(e, C) = Copies(e, B) - (IF e = j THEN 1 ELSE 0)
  <2>1. CASE e \notin DOMAIN B BY <1>5, <2>1 DEF Copies
  <2>2. CASE e \in DOMAIN B BY <1>2, <1>4, <1>5, <1>6, <2>2 DEF Copies
  <2> QED BY <2>1, <2>2
<1> QED BY <1>8, <1>9 DEF C, T
-----------------------------------------------------------------------------
(* The inductive invariant.                                                *)

IsReplay(j) == j.kind # "event"
Replays(k) == {j \in DOMAIN jobs : j.key = k /\ IsReplay(j)}

\* Only a spawn has a pid to report, and only a replayed trigger reports one.
JobsOK ==
  /\ IsABag(jobs)
  /\ \A j \in DOMAIN jobs : ~IsReplay(j) => j.phase = "spawning"

\* One provisioning of a key at a time, and none beside a process of ours.
SeatsOK ==
  /\ \A i, j \in DOMAIN jobs : i.key = j.key /\ i.phase = "spawning" /\ j.phase = "spawning" => i = j
  /\ \A j \in DOMAIN jobs : j.phase = "spawning" => jobs[j] = 1 /\ Mine(j.key) = {}
  /\ \A g, h \in live : g.mine /\ h.mine /\ g.key = h.key => g = h

\* Pids are used once.
PidsOK ==
  /\ \A h \in live : h.pid <= pids
  /\ \A g, h \in live : g.pid = h.pid => g = h

\* A survivor that was not told to end is named by the intent that load()
\* restored; nothing is replayed before it was told.
SurvivorsOK ==
  /\ \A h \in live : ~h.mine /\ h.pid \notin loose /\ h.sig = "none" => h.key \in bootPids /\ intents[h.key].pid = h.pid
  /\ \A j \in DOMAIN jobs : IsReplay(j) => j.key \notin bootPids
  /\ \A h \in live : h.mine /\ h.replay => h.key \notin bootPids

\* As long as nothing was deferred over a running replay there is one replay of
\* a key, its intent waits for the acknowledgement, and past the gate nothing
\* is owed.
ReplaysOK ==
  \A k \in Keys \ overtaken :
    /\ \A i, j \in Replays(k) : i = j
    /\ \A j \in Replays(k) : /\ jobs[j] = 1
                             /\ k \in inFlight \/ k \notin Held
                             /\ j.phase # "gate" => k \notin owed

\* The file has an intent exactly where the store has one.
FileOK ==
  ~failed /\ window # "none" =>
    file \in Record /\ \A k \in Keys : file[k] = None <=> intents[k] = None

OwedOK == ~failed => owed \ overtaken \subseteq Held

\* The parts of TypeOK that are types, and: only an agent with a record has
\* intents.
TypeParts ==
  /\ window \in {"none", "open", "elapsed"} /\ timer \in {"off", "reset", "now"}
  /\ intents \in Record /\ file \in Record \cup {NoRecord}
  /\ inFlight \subseteq Keys /\ bootPids \subseteq Keys /\ raws \subseteq Keys
  /\ owed \subseteq Keys /\ overtaken \subseteq Keys /\ threw \subseteq Keys
  /\ DOMAIN jobs \subseteq Job /\ live \subseteq Harness
  /\ pids \in 0..MaxPids /\ loose \subseteq 1..MaxPids /\ failed \in BOOLEAN
  /\ window = "none" => intents = EmptyRecord

IInv == TypeParts /\ JobsOK /\ SeatsOK /\ PidsOK /\ SurvivorsOK /\ ReplaysOK /\ FileOK /\ OwedOK

\* A pid is kept with a dispatching intent only, in the store and in its file.
Noted(r) == \A k \in Keys : r[k].pid # 0 => r[k].status = "dispatching"
PidNotes ==
  /\ Noted(intents) /\ (file # NoRecord => Noted(file))
  /\ \A k \in bootPids : intents[k].pid # 0

LEMMA TypeIs == TypeParts /\ PidNotes => TypeOK
  BY DEF TypeOK, TypeParts, PidNotes, Noted, BagToSet

-----------------------------------------------------------------------------
(* What the operators on the store return.                                 *)

LEMMA NoneIs == None \notin Intent /\ None.status = "none" /\ None.pid = 0
  BY DEF None, Intent

LEMMA EmptyIs == EmptyRecord \in Record /\ \A k \in Keys : EmptyRecord[k] = None
  BY DEF EmptyRecord, Record

LEMMA ArmIs ==
  ASSUME NEW w, NEW r, NEW f
  PROVE  Arm(w, r, f) \in {"off", "reset", "now"}
<1>1. CASE w = "open" BY <1>1 DEF Arm
<1>2. CASE w = "elapsed" /\ \E k \in Keys : r[k] # None /\ k \notin f BY <1>2 DEF Arm
<1>3. CASE w # "open" /\ ~(w = "elapsed" /\ \E k \in Keys : r[k] # None /\ k \notin f) BY <1>3 DEF Arm
<1> QED BY <1>1, <1>2, <1>3

LEMMA PersistIs ==
  ASSUME TypeParts, NEW r \in Record \cup {NoRecord}, Persist(r)
  PROVE  /\ file' \in Record \cup {NoRecord} /\ failed' \in BOOLEAN
         /\ ~failed' => ~failed /\ file' = r
  BY DEF Persist, TypeParts

LEMMA AddedIs ==
  ASSUME TypeParts, NEW k \in Keys, NEW kind \in {"trigger", "mention"}
  PROVE  /\ Added(k, kind) \in Record /\ Added(k, kind)[k] # None
         /\ \A l \in Keys : l # k => Added(k, kind)[l] = intents[l]
         /\ Added(k, kind)[k].pid = intents[k].pid
         /\ intents[k] # None => Added(k, kind)[k].status = intents[k].status
<1> DEFINE new == IF intents[k] = None THEN [kind |-> kind, status |-> "pending", pid |-> 0]
                  ELSE IF kind = "trigger" THEN [intents[k] EXCEPT !.kind = "trigger"] ELSE intents[k]
<1>1. Added(k, kind) = [intents EXCEPT ![k] = new] BY DEF Added
<1>2. intents \in [Keys -> Intent \cup {None}] BY DEF TypeParts, Record
<1>3. 0 \in 0..MaxPids BY DeferAssumption
<1>4. new \in Intent /\ new.pid = intents[k].pid /\ (intents[k] # None => new.status = intents[k].status)
  <2>1. CASE intents[k] = None BY <1>3, <2>1, NoneIs DEF Intent
  <2>2. CASE intents[k] # None
    <3>1. intents[k] \in Intent BY <1>2, <2>2
    <3> QED BY <2>2, <3>1 DEF Intent
  <2> QED BY <2>1, <2>2
<1> HIDE DEF new
<1> QED BY <1>1, <1>2, <1>4, NoneIs DEF Record

\* Only an agent with a record has intents.
LEMMA HeldIs ==
  ASSUME TypeParts, NEW k \in Keys, intents[k] # None
  PROVE  window # "none"
  BY EmptyIs DEF TypeParts

-----------------------------------------------------------------------------
(* What a step that starts nothing keeps of each part.                     *)

LEMMA SeatsKeptBy ==
  ASSUME IInv, IsABag(jobs'), pids' = pids,
         \A h \in live' : \E g \in live : g.pid = h.pid /\ g.key = h.key /\ g.mine = h.mine,
         \A g, h \in live' : g.pid = h.pid => g = h,
         \A j \in DOMAIN jobs' : \/ j \in DOMAIN jobs /\ jobs'[j] <= jobs[j]
                                 \/ j.phase # "spawning" /\ IsReplay(j)
  PROVE  JobsOK' /\ SeatsOK' /\ PidsOK'
<1>0. JobsOK /\ SeatsOK /\ PidsOK BY DEF IInv
<1>1. JobsOK' BY <1>0 DEF JobsOK, IsReplay
<1>2. PidsOK' BY <1>0 DEF PidsOK
<1>3. \A j \in DOMAIN jobs' : j.phase = "spawning" => j \in DOMAIN jobs /\ jobs'[j] <= jobs[j] OBVIOUS
<1>4. \A j \in DOMAIN jobs' : j.phase = "spawning" => jobs'[j] = 1 /\ Mine(j.key)' = {}
  <2> SUFFICES ASSUME NEW j \in DOMAIN jobs', j.phase = "spawning" PROVE jobs'[j] = 1 /\ Mine(j.key)' = {} OBVIOUS
  <2>1. jobs'[j] \in Nat /\ jobs'[j] > 0 BY DEF IsABag
  <2>2. jobs[j] = 1 /\ Mine(j.key) = {} /\ jobs'[j] <= jobs[j] BY <1>0, <1>3 DEF SeatsOK
  <2>3. \A h \in live' : ~(h.key = j.key /\ h.mine) BY <2>2 DEF Mine
  <2> QED BY <2>1, <2>2, <2>3 DEF Mine
<1>5. ASSUME NEW g \in live', NEW h \in live', g.mine, h.mine, g.key = h.key PROVE g = h
  <2>1. PICK e \in live : e.pid = g.pid /\ e.key = g.key /\ e.mine = g.mine OBVIOUS
  <2>2. PICK f \in live : f.pid = h.pid /\ f.key = h.key /\ f.mine = h.mine OBVIOUS
  <2>3. e = f BY <1>0, <1>5, <2>1, <2>2 DEF SeatsOK
  <2> QED BY <2>1, <2>2, <2>3
<1>6. SeatsOK' BY <1>0, <1>3, <1>4, <1>5 DEF SeatsOK
<1> QED BY <1>1, <1>2, <1>6

LEMMA SeatsKept ==
  ASSUME IInv, IsABag(jobs'), live' \subseteq live, pids' = pids,
         \A j \in DOMAIN jobs' : \/ j \in DOMAIN jobs /\ jobs'[j] <= jobs[j]
                                 \/ j.phase # "spawning" /\ IsReplay(j)
  PROVE  JobsOK' /\ SeatsOK' /\ PidsOK'
<1>1. \A g, h \in live' : g.pid = h.pid => g = h BY DEF IInv, PidsOK
<1>2. \A h \in live' : \E g \in live : g.pid = h.pid /\ g.key = h.key /\ g.mine = h.mine OBVIOUS
<1> QED BY <1>1, <1>2, SeatsKeptBy

\* tryReserveDispatch grants the seat to a dispatch n.
LEMMA SeatTaken ==
  ASSUME IInv, IsABag(jobs'), live' = live, pids' = pids, NEW n, n.phase = "spawning",
         SeatFree(n.key), n \in DOMAIN jobs', Copies(n, jobs') = Copies(n, jobs) + 1,
         \A j \in DOMAIN jobs' : j # n => j \in DOMAIN jobs /\ jobs'[j] <= jobs[j]
  PROVE  JobsOK' /\ SeatsOK' /\ PidsOK'
<1>0. JobsOK /\ SeatsOK /\ PidsOK BY DEF IInv
<1>1. /\ \A j \in DOMAIN jobs : j.key = n.key => j.phase # "spawning"
      /\ Mine(n.key) = {}
  BY DEF SeatFree, BagToSet
<1>2. n \notin DOMAIN jobs BY <1>1
<1>3. jobs'[n] = 1 BY <1>2 DEF Copies
<1>4. JobsOK' BY <1>0 DEF JobsOK, IsReplay
<1>5. PidsOK' BY <1>0 DEF PidsOK
<1>6. \A k : Mine(k)' = Mine(k) BY DEF Mine
<1>7. \A j \in DOMAIN jobs' : j.phase = "spawning" => jobs'[j] = 1 /\ Mine(j.key)' = {}
  <2> SUFFICES ASSUME NEW j \in DOMAIN jobs', j.phase = "spawning", j # n PROVE jobs'[j] = 1 /\ Mine(j.key) = {}
    BY <1>1, <1>3, <1>6
  <2>1. jobs'[j] \in Nat /\ jobs'[j] > 0 BY DEF IsABag
  <2>2. jobs[j] = 1 /\ Mine(j.key) = {} /\ jobs'[j] <= jobs[j] BY <1>0 DEF SeatsOK
  <2> QED BY <2>1, <2>2
<1>8. SeatsOK' BY <1>0, <1>1, <1>7 DEF SeatsOK
<1> QED BY <1>4, <1>5, <1>8

\* The dispatch j that has the seat starts its process.
LEMMA SeatUsed ==
  ASSUME IInv, IsABag(jobs'), NEW j \in DOMAIN jobs, j.phase = "spawning", NEW replay \in BOOLEAN,
         Start(j.key, replay), j \notin DOMAIN jobs',
         \A i \in DOMAIN jobs' : \/ i \in DOMAIN jobs /\ jobs'[i] <= jobs[i]
                                 \/ i.phase # "spawning" /\ IsReplay(i)
  PROVE  JobsOK' /\ SeatsOK' /\ PidsOK'
<1> DEFINE n == [pid |-> pids + 1, key |-> j.key, mine |-> TRUE, replay |-> replay, sig |-> "none"]
<1>0. JobsOK /\ SeatsOK /\ PidsOK /\ TypeParts BY TypeIs DEF IInv
<1>1. live' = live \cup {n} /\ pids' = pids + 1 BY DEF Start
<1>2. n.pid = pids + 1 /\ n.key = j.key /\ n.mine = TRUE OBVIOUS
<1> HIDE DEF n
<1>3. pids \in Nat /\ \A h \in live : h.pid \in Nat BY <1>0, DeferAssumption DEF TypeParts, Harness
<1>4. JobsOK' BY <1>0 DEF JobsOK, IsReplay
<1>5. \A h \in live : h.pid <= pids /\ h.pid # n.pid BY <1>0, <1>2, <1>3 DEF PidsOK
<1>6. PidsOK'
  <2>1. \A h \in live' : h.pid <= pids' BY <1>1, <1>2, <1>3, <1>5
  <2>2. \A g, h \in live' : g.pid = h.pid => g = h BY <1>0, <1>1, <1>5 DEF PidsOK
  <2> QED BY <2>1, <2>2 DEF PidsOK
<1>7. Mine(j.key) = {} BY <1>0 DEF SeatsOK
<1>8. \A g, h \in live' : g.mine /\ h.mine /\ g.key = h.key => g = h
  BY <1>0, <1>1, <1>2, <1>7 DEF SeatsOK, Mine
<1>9. \A i \in DOMAIN jobs' : i.phase = "spawning" =>
        i \in DOMAIN jobs /\ jobs'[i] <= jobs[i] /\ i.key # j.key
  BY <1>0 DEF SeatsOK
<1>10. \A i \in DOMAIN jobs' : i.phase = "spawning" => jobs'[i] = 1 /\ Mine(i.key)' = {}
  <2> SUFFICES ASSUME NEW i \in DOMAIN jobs', i.phase = "spawning" PROVE jobs'[i] = 1 /\ Mine(i.key)' = {} OBVIOUS
  <2>1. jobs'[i] \in Nat /\ jobs'[i] > 0 BY DEF IsABag
  <2>2. jobs[i] = 1 /\ Mine(i.key) = {} /\ jobs'[i] <= jobs[i] /\ i.key # j.key BY <1>0, <1>9 DEF SeatsOK
  <2>3. Mine(i.key)' \subseteq Mine(i.key) BY <1>1, <1>2, <2>2 DEF Mine
  <2> QED BY <2>1, <2>2, <2>3
<1>11. SeatsOK' BY <1>0, <1>8, <1>9, <1>10 DEF SeatsOK
<1> QED BY <1>4, <1>6, <1>11

LEMMA SurvivorsKept ==
  ASSUME IInv, loose \subseteq loose', bootPids' = bootPids,
         \A k \in bootPids : intents'[k].pid = intents[k].pid,
         \A h \in live' : h \in live \/ (h.mine /\ (h.replay => h.key \notin bootPids)),
         \A j \in DOMAIN jobs' : IsReplay(j) => \E i \in DOMAIN jobs : IsReplay(i) /\ i.key = j.key
  PROVE  SurvivorsOK'
<1>0. SurvivorsOK BY DEF IInv
<1>1. \A h \in live' : ~h.mine /\ h.pid \notin loose' /\ h.sig = "none" => h.key \in bootPids' /\ intents'[h.key].pid = h.pid
  BY <1>0 DEF SurvivorsOK
<1>2. \A j \in DOMAIN jobs' : IsReplay(j) => j.key \notin bootPids' BY <1>0 DEF SurvivorsOK
<1>3. \A h \in live' : h.mine /\ h.replay => h.key \notin bootPids' BY <1>0 DEF SurvivorsOK
<1>4. \A j : IsReplay(j)' <=> IsReplay(j) BY DEF IsReplay
<1> QED BY <1>1, <1>2, <1>3, <1>4 DEF SurvivorsOK

\* The file follows the intents, or the write has failed.
LEMMA FileFollows ==
  ASSUME TypeParts, intents' \in Record, Persist(intents')
  PROVE  FileOK'
<1>1. ~failed' => file' = intents' BY PersistIs
<1> QED BY <1>1 DEF FileOK

LEMMA FileKept ==
  ASSUME IInv, UNCHANGED <<file, failed>>, window' # "none" => window # "none",
         \A k \in Keys : intents'[k] = None <=> intents[k] = None
  PROVE  FileOK'
  BY DEF IInv, FileOK

\* The jobs of a replay after one of them has gone on to another phase.
LEMMA MoveIs ==
  ASSUME IInv, NEW j \in DOMAIN jobs, NEW phase \in {"spawning", "spawned", "returning"},
         NEW pid \in 0..MaxPids, phase # j.phase, Move(j, phase, pid)
  PROVE  \E n \in Job :
           /\ n.key = j.key /\ n.kind = j.kind /\ n.phase = phase /\ n # j
           /\ IsABag(jobs') /\ DOMAIN jobs' \subseteq DOMAIN jobs \cup {n} /\ n \in DOMAIN jobs'
           /\ Copies(n, jobs') = Copies(n, jobs) + 1 /\ Copies(j, jobs') = Copies(j, jobs) - 1
           /\ \A e : e # n /\ e # j => Copies(e, jobs') = Copies(e, jobs)
<1> DEFINE n == [j EXCEPT !.phase = phase, !.pid = pid]
           B == jobs (-) SetToBag({j})
<1>0. IsABag(jobs) /\ j \in Job BY TypeIs DEF IInv, JobsOK, TypeParts
<1>1. n \in Job /\ n.key = j.key /\ n.kind = j.kind /\ n.phase = phase BY <1>0 DEF Job
<1>2. n # j BY <1>1
<1>3. jobs' = B (+) SetToBag({n}) BY DEF Move
<1>4. IsABag(B) /\ \A e : Copies(e, B) = Copies(e, jobs) - (IF e = j THEN 1 ELSE 0) BY <1>0, BagRemove
<1> HIDE DEF n, B
<1>5. /\ IsABag(jobs') /\ DOMAIN jobs' = DOMAIN B \cup {n}
      /\ \A e : Copies(e, jobs') = Copies(e, B) + (IF e \in {n} THEN 1 ELSE 0)
  BY <1>3, <1>4, BagAdd
<1>6. \A e : Copies(e, jobs) \in Nat /\ (e \in DOMAIN jobs <=> Copies(e, jobs) > 0) BY <1>0 DEF IsABag, Copies
<1>7. \A e \in DOMAIN B : Copies(e, B) > 0 BY <1>4 DEF IsABag, Copies
<1>8. DOMAIN B \subseteq DOMAIN jobs BY <1>4, <1>6, <1>7
<1>9. Copies(n, jobs') = Copies(n, jobs) + 1 BY <1>2, <1>4, <1>5, <1>6
<1>10. Copies(j, jobs') = Copies(j, jobs) - 1 BY <1>2, <1>4, <1>5, <1>6
<1>11. \A e : e # n /\ e # j => Copies(e, jobs') = Copies(e, jobs) BY <1>4, <1>5, <1>6
<1> QED BY <1>1, <1>2, <1>5, <1>8, <1>9, <1>10, <1>11

\* The jobs after one has returned.
LEMMA RemoveIs ==
  ASSUME IInv, NEW j \in DOMAIN jobs, jobs' = jobs (-) SetToBag({j})
  PROVE  /\ IsABag(jobs') /\ DOMAIN jobs' \subseteq DOMAIN jobs
         /\ \A i \in DOMAIN jobs' : jobs'[i] <= jobs[i]
         /\ \A i \in DOMAIN jobs : i # j => i \in DOMAIN jobs' /\ jobs'[i] = jobs[i]
         /\ jobs[j] = 1 => j \notin DOMAIN jobs'
<1>0. IsABag(jobs) BY DEF IInv, JobsOK
<1>1. IsABag(jobs') /\ \A e : Copies(e, jobs') = Copies(e, jobs) - (IF e = j THEN 1 ELSE 0) BY <1>0, BagRemove
<1>2. \A e : Copies(e, jobs) \in Nat /\ (e \in DOMAIN jobs <=> Copies(e, jobs) > 0) BY <1>0, BagCopies
<1>3. \A e : Copies(e, jobs') \in Nat /\ (e \in DOMAIN jobs' <=> Copies(e, jobs') > 0) BY <1>1, BagCopies
<1>4. \A i \in DOMAIN jobs' : i \in DOMAIN jobs BY <1>1, <1>2, <1>3
<1>5. \A i \in DOMAIN jobs' : jobs'[i] <= jobs[i]
  <2> SUFFICES ASSUME NEW i \in DOMAIN jobs' PROVE jobs'[i] <= jobs[i] OBVIOUS
  <2>1. jobs'[i] = Copies(i, jobs') /\ jobs[i] = Copies(i, jobs) BY <1>4 DEF Copies
  <2> QED BY <1>1, <1>2, <2>1
<1>6. \A i \in DOMAIN jobs : i # j => i \in DOMAIN jobs' /\ jobs'[i] = jobs[i]
  <2> SUFFICES ASSUME NEW i \in DOMAIN jobs, i # j PROVE i \in DOMAIN jobs' /\ jobs'[i] = jobs[i] OBVIOUS
  <2>1. Copies(i, jobs') = Copies(i, jobs) BY <1>1, <1>2
  <2>2. i \in DOMAIN jobs' BY <1>2, <1>3, <2>1
  <2> QED BY <2>1, <2>2 DEF Copies
<1>7. jobs[j] = 1 => j \notin DOMAIN jobs'
  <2>1. Copies(j, jobs) = jobs[j] BY DEF Copies
  <2>2. Copies(j, jobs') = jobs[j] - 1 BY <1>1, <2>1
  <2> QED BY <1>3, <2>2
<1> QED BY <1>1, <1>4, <1>5, <1>6, <1>7

\* A step that adds no replay.
LEMMA ReplaysKept ==
  ASSUME IInv, IsABag(jobs'), overtaken \subseteq overtaken',
         \A j \in DOMAIN jobs' : IsReplay(j) => j \in DOMAIN jobs /\ jobs'[j] <= jobs[j],
         \A k \in Keys \ overtaken' :
           Replays(k)' # {} => /\ k \in inFlight' \/ intents'[k] = None
                               /\ k \in owed' => k \in owed
  PROVE  ReplaysOK'
<1> SUFFICES ASSUME NEW k \in Keys \ overtaken'
             PROVE  /\ \A i, j \in Replays(k)' : i = j
                    /\ \A j \in Replays(k)' : /\ jobs'[j] = 1
                                              /\ k \in inFlight' \/ k \notin Held'
                                              /\ j.phase # "gate" => k \notin owed'
  BY DEF ReplaysOK
<1>0. /\ \A i, j \in Replays(k) : i = j
      /\ \A j \in Replays(k) : jobs[j] = 1 /\ (j.phase # "gate" => k \notin owed)
  BY DEF IInv, ReplaysOK
<1>1. Replays(k)' \subseteq Replays(k) BY DEF Replays, IsReplay
<1>2. ASSUME NEW j \in Replays(k)' PROVE jobs'[j] = 1
  <2>1. j \in DOMAIN jobs' /\ IsReplay(j) BY DEF Replays, IsReplay
  <2>2. jobs'[j] \in Nat /\ jobs'[j] > 0 BY <2>1 DEF IsABag
  <2>3. jobs'[j] <= jobs[j] /\ jobs[j] = 1 BY <1>0, <1>1, <2>1
  <2> QED BY <2>2, <2>3
<1>3. k \notin Held' <=> intents'[k] = None BY DEF Held
<1> QED BY <1>0, <1>1, <1>2, <1>3

\* A replay j goes on, and what it takes on is owed no longer.
LEMMA ReplaysMoved ==
  ASSUME IInv, NEW j \in DOMAIN jobs, IsReplay(j), NEW phase \in {"spawning", "spawned", "returning"},
         NEW pid \in 0..MaxPids, phase # j.phase, Move(j, phase, pid),
         overtaken \subseteq overtaken', inFlight' = inFlight,
         \A k \in Keys \ overtaken' : Replays(k) # {} =>
           /\ intents[k] = None => intents'[k] = None
           /\ k \in owed' => k \in owed /\ k # j.key
  PROVE  ReplaysOK'
<1> SUFFICES ASSUME NEW k \in Keys \ overtaken'
             PROVE  /\ \A i, l \in Replays(k)' : i = l
                    /\ \A i \in Replays(k)' : /\ jobs'[i] = 1
                                              /\ k \in inFlight' \/ k \notin Held'
                                              /\ i.phase # "gate" => k \notin owed'
  BY DEF ReplaysOK
<1>0. /\ \A i, l \in Replays(k) : i = l
      /\ \A i \in Replays(k) : /\ jobs[i] = 1 /\ (k \in inFlight \/ k \notin Held)
                               /\ i.phase # "gate" => k \notin owed
  BY DEF IInv, ReplaysOK
<1>1. PICK n \in Job :
           /\ n.key = j.key /\ n.kind = j.kind /\ n.phase = phase /\ n # j
           /\ IsABag(jobs') /\ DOMAIN jobs' \subseteq DOMAIN jobs \cup {n} /\ n \in DOMAIN jobs'
           /\ Copies(n, jobs') = Copies(n, jobs) + 1 /\ Copies(j, jobs') = Copies(j, jobs) - 1
           /\ \A e : e # n /\ e # j => Copies(e, jobs') = Copies(e, jobs)
  BY MoveIs
<1>2. IsReplay(n) BY <1>1 DEF IsReplay
<1>3. CASE k = j.key
  <2>1. j \in Replays(k) BY <1>3 DEF Replays
  <2>2. \A i \in Replays(k) : i = j BY <1>0, <2>1
  <2>3. n \notin DOMAIN jobs BY <1>1, <1>2, <1>3, <2>2 DEF Replays
  <2>4. j \notin DOMAIN jobs' BY <1>0, <1>1, <2>1 DEF Copies, IsABag
  <2>5. Replays(k)' \subseteq {n} BY <1>1, <2>2, <2>4 DEF Replays, IsReplay
  <2>6. jobs'[n] = 1 BY <1>1, <2>3 DEF Copies
  <2>7. k \notin owed' BY <1>3, <2>1
  <2>8. k \in inFlight' \/ k \notin Held' BY <1>0, <2>1 DEF Held
  <2> QED BY <2>5, <2>6, <2>7, <2>8
<1>4. CASE k # j.key
  <2>1. Replays(k)' \subseteq Replays(k) BY <1>1, <1>4 DEF Replays, IsReplay
  <2>2. ASSUME NEW i \in Replays(k)' PROVE jobs'[i] = jobs[i]
    <3>1. i \in DOMAIN jobs' /\ i \in DOMAIN jobs /\ i # n /\ i # j BY <1>1, <1>4, <2>1 DEF Replays
    <3> QED BY <1>1, <3>1 DEF Copies
  <2>3. ASSUME NEW i \in Replays(k)' PROVE k \in inFlight' \/ k \notin Held' BY <1>0, <2>1 DEF Held
  <2> QED BY <1>0, <2>1, <2>2, <2>3
<1> QED BY <1>3, <1>4

\* A replay j that goes on takes no seat but the one it asked for.
LEMMA Moved ==
  ASSUME IInv, NEW j \in DOMAIN jobs, IsReplay(j), NEW phase \in {"spawning", "spawned", "returning"},
         NEW pid \in 0..MaxPids, phase # j.phase, Move(j, phase, pid)
  PROVE  /\ IsABag(jobs') /\ DOMAIN jobs' \subseteq Job /\ (jobs[j] = 1 => j \notin DOMAIN jobs')
         /\ \E n \in DOMAIN jobs' :
              /\ n.key = j.key /\ n.phase = phase /\ IsReplay(n) /\ Copies(n, jobs') = Copies(n, jobs) + 1
              /\ \A i \in DOMAIN jobs' : i # n => i \in DOMAIN jobs /\ jobs'[i] <= jobs[i]
         /\ \A i \in DOMAIN jobs' : IsReplay(i) => \E l \in DOMAIN jobs : IsReplay(l) /\ l.key = i.key
<1>0. IsABag(jobs) /\ DOMAIN jobs \subseteq Job BY TypeIs DEF IInv, JobsOK, TypeParts
<1>1. PICK n \in Job :
           /\ n.key = j.key /\ n.kind = j.kind /\ n.phase = phase /\ n # j
           /\ IsABag(jobs') /\ DOMAIN jobs' \subseteq DOMAIN jobs \cup {n} /\ n \in DOMAIN jobs'
           /\ Copies(n, jobs') = Copies(n, jobs) + 1 /\ Copies(j, jobs') = Copies(j, jobs) - 1
           /\ \A e : e # n /\ e # j => Copies(e, jobs') = Copies(e, jobs)
  BY MoveIs
<1>2. \A e : Copies(e, jobs) \in Nat BY <1>0, BagCopies
<1>3. \A e : e \in DOMAIN jobs' <=> Copies(e, jobs') > 0 BY <1>1, BagCopies
<1>4. \A i \in DOMAIN jobs' : i # n => i \in DOMAIN jobs /\ jobs'[i] <= jobs[i]
  <2> SUFFICES ASSUME NEW i \in DOMAIN jobs', i # n PROVE i \in DOMAIN jobs /\ jobs'[i] <= jobs[i] OBVIOUS
  <2>1. i \in DOMAIN jobs BY <1>1
  <2>2. jobs'[i] = Copies(i, jobs') /\ jobs[i] = Copies(i, jobs) BY <2>1 DEF Copies
  <2>3. Copies(i, jobs') = Copies(i, jobs) \/ Copies(i, jobs') = Copies(i, jobs) - 1 BY <1>1
  <2> QED BY <1>2, <2>1, <2>2, <2>3
<1>5. jobs[j] = 1 => j \notin DOMAIN jobs'
  <2>1. Copies(j, jobs) = jobs[j] BY DEF Copies
  <2> QED BY <1>1, <1>3, <2>1
<1>6. IsReplay(n) BY <1>1 DEF IsReplay
<1> QED BY <1>0, <1>1, <1>4, <1>5, <1>6

\* What an intent that is added or refreshed leaves behind.
LEMMA DeferIs ==
  ASSUME IInv, NEW k \in Keys, NEW kind \in {"trigger", "mention"},
         intents' = Added(k, kind), Persist(intents'), Owe(k)
  PROVE  /\ intents' \in Record /\ file' \in Record \cup {NoRecord} /\ failed' \in BOOLEAN
         /\ owed' \subseteq Keys /\ overtaken' \subseteq Keys /\ threw' = threw /\ loose' = loose
         /\ overtaken \subseteq overtaken' /\ (Replays(k) # {} => k \in overtaken')
         /\ owed' = owed \cup {k} /\ \A l \in Keys : l # k => intents'[l] = intents[l]
         /\ \A l \in Keys : intents'[l].pid = intents[l].pid
         /\ FileOK' /\ OwedOK'
<1>0. TypeParts /\ OwedOK BY TypeIs DEF IInv
<1>1. /\ intents' \in Record /\ intents'[k] # None /\ intents'[k].pid = intents[k].pid
      /\ \A l \in Keys : l # k => intents'[l] = intents[l]
  BY <1>0, AddedIs
<1>2. /\ owed' = owed \cup {k} /\ overtaken' \in {overtaken, overtaken \cup {k}}
      /\ Running(k) => k \in overtaken'
      /\ threw' = threw /\ loose' = loose
  BY DEF Owe
<1>3. Replays(k) # {} => Running(k) BY DEF Replays, Running, IsReplay, BagToSet
<1>4. file' \in Record \cup {NoRecord} /\ failed' \in BOOLEAN /\ (~failed' => ~failed)
  BY <1>0, <1>1, PersistIs
<1>5. FileOK' BY <1>0, <1>1, FileFollows
<1>6. OwedOK'
  <2> SUFFICES ASSUME ~failed', NEW l \in owed' \ overtaken' PROVE l \in Held' BY DEF OwedOK
  <2>1. l \in Keys /\ (l = k \/ l \in Held) BY <1>0, <1>2, <1>4 DEF OwedOK, TypeParts
  <2> QED BY <1>1, <2>1 DEF Held
<1> QED BY <1>0, <1>1, <1>2, <1>3, <1>4, <1>5, <1>6 DEF TypeParts

\* What is owed stays in the store when nothing leaves it.
LEMMA OwedKept ==
  ASSUME IInv, failed' = failed, owed' \subseteq owed, overtaken \subseteq overtaken',
         \A k \in Keys : intents[k] # None => intents'[k] # None
  PROVE  OwedOK'
  BY DEF IInv, OwedOK, Held

\* A replay that nothing overtook has its intent, if it is there, in flight.
LEMMA InFlightIs ==
  ASSUME IInv, NEW k \in Keys \ overtaken, Replays(k) # {}
  PROVE  k \in inFlight \/ intents[k] = None
  BY DEF IInv, ReplaysOK, Held

LEMMA Gather ==
  ASSUME TypeParts', JobsOK' /\ SeatsOK' /\ PidsOK', SurvivorsOK', ReplaysOK', FileOK', OwedOK'
  PROVE  IInv'
  BY DEF IInv

-----------------------------------------------------------------------------
(* Each action keeps the invariant.                                        *)

LEMMA DeferEventInv ==
  ASSUME IInv, NEW k \in Keys, NEW kind \in {"trigger", "mention"}, DeferEvent(k, kind)
  PROVE  IInv'
<1>0. TypeParts /\ IsABag(jobs) BY TypeIs DEF IInv, JobsOK
<1>1. UNCHANGED <<window, timer, inFlight, bootPids, raws, jobs, live, pids>> /\ window = "open"
  BY DEF DeferEvent, Defer
<1>2. intents' = Added(k, kind) /\ Persist(intents') /\ Owe(k) BY DEF DeferEvent, Defer
<1>3. /\ intents' \in Record /\ file' \in Record \cup {NoRecord} /\ failed' \in BOOLEAN
      /\ owed' \subseteq Keys /\ overtaken' \subseteq Keys /\ threw' = threw /\ loose' = loose
      /\ overtaken \subseteq overtaken' /\ (Replays(k) # {} => k \in overtaken')
      /\ owed' = owed \cup {k} /\ \A l \in Keys : l # k => intents'[l] = intents[l]
      /\ \A l \in Keys : intents'[l].pid = intents[l].pid
      /\ FileOK' /\ OwedOK'
  BY <1>2, DeferIs
<1>4. TypeParts' BY <1>0, <1>1, <1>3 DEF TypeParts
<1>5. \A j \in DOMAIN jobs : jobs[j] <= jobs[j] BY <1>0 DEF IsABag
<1>6. JobsOK' /\ SeatsOK' /\ PidsOK' BY <1>0, <1>1, <1>5, SeatsKept
<1>7. SurvivorsOK' BY <1>0, <1>1, <1>3, SurvivorsKept DEF TypeParts
<1>8. ReplaysOK'
  <2>1. ASSUME NEW l \in Keys \ overtaken', Replays(l)' # {}
        PROVE  (l \in inFlight' \/ intents'[l] = None) /\ (l \in owed' => l \in owed)
    <3>1. Replays(l) # {} BY <1>1, <2>1 DEF Replays, IsReplay
    <3>2. l \in inFlight \/ intents[l] = None BY <1>3, <3>1, InFlightIs
    <3> QED BY <1>1, <1>3, <3>1, <3>2
  <2> QED BY <1>0, <1>1, <1>3, <1>5, <2>1, ReplaysKept
<1> QED BY <1>3, <1>4, <1>6, <1>7, <1>8, Gather

\* A step that touches neither the handlers nor what the store has to replay.
LEMMA QuietInv ==
  ASSUME IInv, TypeParts', FileOK', UNCHANGED <<intents, inFlight, bootPids, jobs, pids, owed, overtaken>>,
         live' \subseteq live, loose \subseteq loose', ~failed' => ~failed
  PROVE  IInv'
<1>0. TypeParts /\ IsABag(jobs) BY TypeIs DEF IInv, JobsOK
<1>1. \A j \in DOMAIN jobs : jobs[j] <= jobs[j] BY <1>0 DEF IsABag
<1>2. JobsOK' /\ SeatsOK' /\ PidsOK' BY <1>0, <1>1, SeatsKept
<1>3. SurvivorsOK' BY SurvivorsKept
<1>4. ReplaysOK' BY DEF IInv, ReplaysOK, Replays, IsReplay, Held
<1>5. OwedOK' BY DEF IInv, OwedOK, Held
<1> QED BY <1>2, <1>3, <1>4, <1>5, Gather

LEMMA ExitInv ==
  ASSUME IInv, NEW h \in live, Exit(h)
  PROVE  IInv'
<1>0. TypeParts BY TypeIs DEF IInv
<1>1. live' \subseteq live /\ UNCHANGED <<store, raws, jobs, pids, ghosts, failed>> BY DEF Exit
<1>2. TypeParts' BY <1>0, <1>1 DEF TypeParts, store, ghosts
<1>3. FileOK' BY <1>1, FileKept DEF store
<1> QED BY <1>1, <1>2, <1>3, QuietInv DEF store, ghosts

LEMMA SigkillInv ==
  ASSUME IInv, NEW h \in live, Sigkill(h)
  PROVE  IInv'
  BY ExitInv DEF Sigkill, Exit

LEMMA ElapseInv ==
  ASSUME IInv, Elapse
  PROVE  IInv'
<1>0. TypeParts BY TypeIs DEF IInv
<1>1. /\ window = "open" /\ window' = "elapsed"
      /\ UNCHANGED <<intents, file, timer, inFlight, bootPids, raws, jobs, live, pids, ghosts, failed>>
  BY DEF Elapse
<1>2. TypeParts' BY <1>0, <1>1 DEF TypeParts, ghosts
<1>3. FileOK' BY <1>1, FileKept
<1> QED BY <1>1, <1>2, <1>3, QuietInv DEF ghosts

LEMMA OtherLimitInv ==
  ASSUME IInv, OtherLimit
  PROVE  IInv'
<1>0. TypeParts BY TypeIs DEF IInv
<1>1. /\ window' = "open" /\ timer' = Arm("open", intents, inFlight) /\ Persist(intents)
      /\ UNCHANGED <<intents, inFlight, bootPids, raws, jobs, live, pids, ghosts>>
  BY DEF OtherLimit
<1>2. intents \in Record BY <1>0 DEF TypeParts
<1>3. file' \in Record \cup {NoRecord} /\ failed' \in BOOLEAN /\ (~failed' => ~failed)
  BY <1>0, <1>1, <1>2, PersistIs
<1>4. TypeParts' BY <1>0, <1>1, <1>3, ArmIs DEF TypeParts, ghosts
<1>5. FileOK' BY <1>0, <1>1, <1>2, FileFollows
<1> QED BY <1>1, <1>3, <1>4, <1>5, QuietInv DEF ghosts

LEMMA HitLimitInv ==
  ASSUME IInv, NEW h \in live, HitLimit(h)
  PROVE  IInv'
<1>0. TypeParts /\ IsABag(jobs) BY TypeIs DEF IInv, JobsOK
<1> DEFINE k == h.key
<1>1. k \in Keys BY <1>0 DEF TypeParts, Harness
<1>2. /\ live' \subseteq live /\ window' = "open" /\ timer' = Arm("open", intents, inFlight)
      /\ raws' = raws \ {k} /\ Persist(intents') /\ UNCHANGED <<inFlight, bootPids, jobs, pids>>
  BY DEF HitLimit
<1> HIDE DEF k
<1>3. CASE k \in raws
  <2>1. intents' = Added(k, "trigger") /\ Owe(k) BY <1>3 DEF HitLimit, k
  <2>2. /\ intents' \in Record /\ file' \in Record \cup {NoRecord} /\ failed' \in BOOLEAN
        /\ owed' \subseteq Keys /\ overtaken' \subseteq Keys /\ threw' = threw /\ loose' = loose
        /\ overtaken \subseteq overtaken' /\ (Replays(k) # {} => k \in overtaken')
        /\ owed' = owed \cup {k} /\ \A l \in Keys : l # k => intents'[l] = intents[l]
        /\ \A l \in Keys : intents'[l].pid = intents[l].pid
        /\ FileOK' /\ OwedOK'
    BY <1>1, <1>2, <2>1, DeferIs
  <2>3. TypeParts' BY <1>0, <1>2, <2>2, ArmIs DEF TypeParts
  <2>4. \A j \in DOMAIN jobs : jobs[j] <= jobs[j] BY <1>0 DEF IsABag
  <2>5. JobsOK' /\ SeatsOK' /\ PidsOK' BY <1>0, <1>2, <2>4, SeatsKept
  <2>6. SurvivorsOK' BY <1>0, <1>2, <2>2, SurvivorsKept DEF TypeParts
  <2>7. ReplaysOK'
    <3>1. ASSUME NEW l \in Keys \ overtaken', Replays(l)' # {}
          PROVE  (l \in inFlight' \/ intents'[l] = None) /\ (l \in owed' => l \in owed)
      <4>1. Replays(l) # {} BY <1>2, <3>1 DEF Replays, IsReplay
      <4>2. l \in inFlight \/ intents[l] = None BY <2>2, <4>1, InFlightIs
      <4> QED BY <1>2, <2>2, <4>1, <4>2
    <3> QED BY <1>0, <1>2, <2>2, <2>4, <3>1, ReplaysKept
  <2> QED BY <2>2, <2>3, <2>5, <2>6, <2>7, Gather
<1>4. CASE k \notin raws
  <2>1. UNCHANGED <<intents, ghosts>> BY <1>4 DEF HitLimit, k
  <2>2. intents' \in Record BY <1>0, <2>1 DEF TypeParts
  <2>3. file' \in Record \cup {NoRecord} /\ failed' \in BOOLEAN /\ (~failed' => ~failed)
    BY <1>0, <1>2, <2>2, PersistIs
  <2>4. TypeParts' BY <1>0, <1>2, <2>1, <2>3, ArmIs DEF TypeParts, ghosts
  <2>5. FileOK' BY <1>0, <1>2, <2>2, FileFollows
  <2> QED BY <1>2, <2>1, <2>3, <2>4, <2>5, QuietInv DEF ghosts
<1> QED BY <1>3, <1>4

LEMMA DispatchEventInv ==
  ASSUME IInv, NEW k \in Keys, NEW kind \in {"trigger", "mention"}, DispatchEvent(k, kind)
  PROVE  IInv'
<1>0. TypeParts /\ IsABag(jobs) BY TypeIs DEF IInv, JobsOK
<1>1. UNCHANGED <<store, live, pids, ghosts, failed>> /\ raws' \in {raws, raws \cup {k}} BY DEF DispatchEvent
<1>2. FileOK' BY <1>1, FileKept DEF store
<1>3. CASE SeatFree(k)
  <2> DEFINE n == [key |-> k, kind |-> "event", phase |-> "spawning", pid |-> 0]
  <2>1. n \in Job /\ n.key = k /\ n.phase = "spawning" /\ ~IsReplay(n) BY DeferAssumption DEF Job, IsReplay
  <2>2. jobs' = jobs (+) SetToBag({n}) BY <1>3 DEF DispatchEvent
  <2> HIDE DEF n
  <2>3. /\ IsABag(jobs') /\ DOMAIN jobs' = DOMAIN jobs \cup {n}
        /\ \A e : Copies(e, jobs') = Copies(e, jobs) + (IF e \in {n} THEN 1 ELSE 0)
    BY <1>0, <2>2, BagAdd
  <2>4. \A j \in DOMAIN jobs' : j # n => j \in DOMAIN jobs /\ jobs'[j] <= jobs[j]
    <3> SUFFICES ASSUME NEW j \in DOMAIN jobs', j # n PROVE j \in DOMAIN jobs /\ jobs'[j] <= jobs[j] OBVIOUS
    <3>1. j \in DOMAIN jobs BY <2>3
    <3>2. Copies(j, jobs') = Copies(j, jobs) + 0 BY <2>3
    <3>3. jobs'[j] = Copies(j, jobs') /\ jobs[j] = Copies(j, jobs) BY <3>1 DEF Copies
    <3>4. jobs[j] \in Nat BY <1>0, <3>1 DEF IsABag
    <3> QED BY <3>1, <3>2, <3>3, <3>4
  <2>5. TypeParts' BY <1>0, <1>1, <2>1, <2>3 DEF TypeParts, store, ghosts
  <2>6. JobsOK' /\ SeatsOK' /\ PidsOK'
    <3>1. Copies(n, jobs') = Copies(n, jobs) + 1 BY <2>3
    <3> QED BY <1>1, <1>3, <2>1, <2>3, <2>4, <3>1, SeatTaken
  <2>7. SurvivorsOK' BY <1>1, <2>1, <2>3, SurvivorsKept DEF store, ghosts
  <2>8. ReplaysOK'
    <3>1. ASSUME NEW l \in Keys \ overtaken', Replays(l)' # {}
          PROVE  (l \in inFlight' \/ intents'[l] = None) /\ (l \in owed' => l \in owed)
      <4>1. Replays(l) # {} BY <2>1, <2>4, <3>1 DEF Replays, IsReplay
      <4> QED BY <1>1, <4>1, InFlightIs DEF store, ghosts
    <3> QED BY <1>1, <2>1, <2>3, <2>4, <3>1, ReplaysKept DEF ghosts
  <2>9. OwedOK' BY <1>1, OwedKept DEF store, ghosts
  <2> QED BY <1>2, <2>5, <2>6, <2>7, <2>8, <2>9, Gather
<1>4. CASE ~SeatFree(k)
  <2>1. jobs' = jobs BY <1>4 DEF DispatchEvent
  <2>2. TypeParts' BY <1>0, <1>1, <2>1 DEF TypeParts, store, ghosts
  <2> QED BY <1>1, <1>2, <2>1, <2>2, QuietInv DEF store, ghosts
<1> QED BY <1>3, <1>4

\* What is left when the intent of a key is taken out.
LEMMA TakenOut ==
  ASSUME TypeParts, NEW k \in Keys, intents' = [intents EXCEPT ![k] = None]
  PROVE  /\ intents' \in Record /\ intents'[k] = None /\ \A l \in Keys : l # k => intents'[l] = intents[l]
         /\ window = "none" => intents' = EmptyRecord
<1>1. intents \in [Keys -> Intent \cup {None}] /\ (window = "none" => intents = EmptyRecord)
  BY DEF TypeParts, Record
<1>2. /\ intents' \in [Keys -> Intent \cup {None}] /\ intents'[k] = None
      /\ \A l \in Keys : l # k => intents'[l] = intents[l]
  BY <1>1
<1>3. ASSUME window = "none" PROVE intents' = EmptyRecord
  <2>1. \A l \in Keys : intents'[l] = None BY <1>1, <1>2, <1>3, EmptyIs
  <2> QED BY <1>2, <2>1 DEF EmptyRecord
<1> QED BY <1>2, <1>3 DEF Record

LEMMA CancelInv ==
  ASSUME IInv, NEW k \in Keys, Cancel(k)
  PROVE  IInv'
<1>0. TypeParts /\ IsABag(jobs) BY TypeIs DEF IInv, JobsOK
<1>1. /\ raws' = raws \ {k} /\ intents' = [intents EXCEPT ![k] = None] /\ owed' = owed \ {k}
      /\ inFlight' \in {inFlight, inFlight \ {k}} /\ bootPids' \in {bootPids, bootPids \ {k}}
      /\ UNCHANGED <<window, timer, jobs, live, pids, overtaken, threw>>
  BY DEF Cancel
<1>2. /\ intents' \in Record /\ intents'[k] = None /\ \A l \in Keys : l # k => intents'[l] = intents[l]
      /\ window = "none" => intents' = EmptyRecord
  BY <1>0, <1>1, TakenOut
<1>3. k \in Held <=> intents[k] # None BY DEF Held
<1>4. /\ FileOK' /\ file' \in Record \cup {NoRecord} /\ failed' \in BOOLEAN /\ (~failed' => ~failed)
  <2>1. CASE k \in Held
    <3>1. Persist(intents') BY <2>1 DEF Cancel
    <3> QED BY <1>0, <1>2, <3>1, FileFollows, PersistIs
  <2>2. CASE k \notin Held
    <3>1. UNCHANGED <<file, failed>> BY <2>2 DEF Cancel
    <3>2. \A l \in Keys : intents'[l] = None <=> intents[l] = None BY <1>2, <1>3, <2>2
    <3>3. FileOK' BY <1>1, <3>1, <3>2, FileKept
    <3> QED BY <1>0, <3>1, <3>3 DEF TypeParts
  <2> QED BY <2>1, <2>2
<1>5. loose \subseteq loose' /\ \A h \in live : h.key = k /\ ~h.mine => h.pid \in loose' BY DEF Cancel
<1>6. loose' \subseteq 1..MaxPids
  <2>1. \A h \in live : h.pid \in 1..MaxPids BY <1>0 DEF TypeParts, Harness
  <2>2. loose \subseteq 1..MaxPids BY <1>0 DEF TypeParts
  <2> QED BY <2>1, <2>2 DEF Cancel
<1>7. TypeParts' BY <1>0, <1>1, <1>2, <1>4, <1>6 DEF TypeParts
<1>8. \A j \in DOMAIN jobs : jobs[j] <= jobs[j] BY <1>0 DEF IsABag
<1>9. JobsOK' /\ SeatsOK' /\ PidsOK' BY <1>0, <1>1, <1>8, SeatsKept
<1>10. SurvivorsOK'
  <2>0. SurvivorsOK BY DEF IInv
  <2>1. ASSUME NEW h \in live', ~h.mine, h.pid \notin loose', h.sig = "none"
        PROVE  h.key \in bootPids' /\ intents'[h.key].pid = h.pid
    <3>1. h \in live /\ h.pid \notin loose /\ h.key # k BY <1>1, <1>5, <2>1
    <3>2. h.key \in bootPids /\ intents[h.key].pid = h.pid BY <2>0, <2>1, <3>1 DEF SurvivorsOK
    <3>3. h.key \in Keys BY <1>0, <3>2 DEF TypeParts
    <3> QED BY <1>1, <1>2, <3>1, <3>2, <3>3
  <2>2. bootPids' \subseteq bootPids BY <1>1
  <2> QED BY <1>1, <2>0, <2>1, <2>2 DEF SurvivorsOK, IsReplay
<1>11. ReplaysOK'
  <2>1. ASSUME NEW l \in Keys \ overtaken', Replays(l)' # {}
        PROVE  (l \in inFlight' \/ intents'[l] = None) /\ (l \in owed' => l \in owed)
    <3>1. Replays(l) # {} BY <1>1, <2>1 DEF Replays, IsReplay
    <3>2. l \in inFlight \/ intents[l] = None BY <1>1, <3>1, InFlightIs
    <3> QED BY <1>1, <1>2, <3>2
  <2> QED BY <1>0, <1>1, <1>8, <2>1, ReplaysKept
<1>12. OwedOK'
  <2>1. OwedOK /\ owed \subseteq Keys BY <1>0 DEF IInv, TypeParts
  <2> QED BY <1>1, <1>2, <1>4, <2>1 DEF OwedOK, Held
<1> QED BY <1>4, <1>7, <1>9, <1>10, <1>11, <1>12, Gather

\* The process that Start adds, if it is called.
LEMMA StartIs ==
  ASSUME TypeParts, NEW k \in Keys, NEW replay \in BOOLEAN, Start(k, replay)
  PROVE  /\ live' \subseteq Harness /\ pids' \in 0..MaxPids /\ pids + 1 \in 0..MaxPids
         /\ \A h \in live' : h \in live \/ (h.mine /\ h.key = k /\ h.replay = replay)
<1> DEFINE n == [pid |-> pids + 1, key |-> k, mine |-> TRUE, replay |-> replay, sig |-> "none"]
<1>1. pids + 1 \in 1..MaxPids /\ pids + 1 \in 0..MaxPids BY DeferAssumption DEF Start, TypeParts
<1>2. n \in Harness BY <1>1 DEF Harness
<1>3. n.mine = TRUE /\ n.key = k /\ n.replay = replay OBVIOUS
<1>4. live' = live \cup {n} /\ pids' = pids + 1 BY DEF Start
<1> HIDE DEF n
<1> QED BY <1>1, <1>2, <1>3, <1>4 DEF TypeParts

LEMMA SpawnEventInv ==
  ASSUME IInv, NEW j \in DOMAIN jobs, SpawnEvent(j)
  PROVE  IInv'
<1>0. TypeParts BY TypeIs DEF IInv
<1>1. /\ ~IsReplay(j) /\ jobs' = jobs (-) SetToBag({j}) /\ UNCHANGED <<store, raws, ghosts, failed>>
      /\ Start(j.key, FALSE) \/ UNCHANGED <<live, pids>>
  BY DEF SpawnEvent, IsReplay
<1>2. j.phase = "spawning" /\ jobs[j] = 1 /\ j.key \in Keys
  BY <1>0, <1>1 DEF IInv, JobsOK, SeatsOK, TypeParts, Job
<1>3. /\ IsABag(jobs') /\ DOMAIN jobs' \subseteq DOMAIN jobs /\ j \notin DOMAIN jobs'
      /\ \A i \in DOMAIN jobs' : jobs'[i] <= jobs[i]
  BY <1>1, <1>2, RemoveIs
<1>4. /\ live' \subseteq Harness /\ pids' \in 0..MaxPids
      /\ \A h \in live' : h \in live \/ (h.mine /\ h.replay = FALSE)
  <2>1. CASE Start(j.key, FALSE) BY <1>0, <1>2, <2>1, StartIs
  <2>2. CASE UNCHANGED <<live, pids>> BY <1>0, <2>2 DEF TypeParts
  <2> QED BY <1>1, <2>1, <2>2
<1>5. TypeParts' BY <1>0, <1>1, <1>3, <1>4 DEF TypeParts, store, ghosts
<1>6. JobsOK' /\ SeatsOK' /\ PidsOK'
  <2>1. CASE Start(j.key, FALSE) BY <1>2, <1>3, <2>1, SeatUsed
  <2>2. CASE UNCHANGED <<live, pids>> BY <1>3, <2>2, SeatsKept
  <2> QED BY <1>1, <2>1, <2>2
<1>7. SurvivorsOK' BY <1>1, <1>3, <1>4, SurvivorsKept DEF store, ghosts
<1>8. ReplaysOK'
  <2>1. ASSUME NEW l \in Keys \ overtaken', Replays(l)' # {}
        PROVE  (l \in inFlight' \/ intents'[l] = None) /\ (l \in owed' => l \in owed)
    <3>1. Replays(l) # {} BY <1>3, <2>1 DEF Replays, IsReplay
    <3> QED BY <1>1, <3>1, InFlightIs DEF store, ghosts
  <2> QED BY <1>1, <1>3, <2>1, ReplaysKept DEF ghosts
<1>9. FileOK' BY <1>1, FileKept DEF store
<1>10. OwedOK' BY <1>1, OwedKept DEF store, ghosts
<1> QED BY <1>5, <1>6, <1>7, <1>8, <1>9, <1>10, Gather

\* A replay that does not ask for the seat goes on.
LEMMA GoesOn ==
  ASSUME IInv, NEW j \in DOMAIN jobs, IsReplay(j), NEW phase \in {"spawned", "returning"},
         NEW pid \in 0..MaxPids, phase # j.phase, Move(j, phase, pid), UNCHANGED <<live, pids>>
  PROVE  JobsOK' /\ SeatsOK' /\ PidsOK'
<1>1. IsABag(jobs') /\ \E n \in DOMAIN jobs' :
        /\ n.phase = phase /\ IsReplay(n)
        /\ \A i \in DOMAIN jobs' : i # n => i \in DOMAIN jobs /\ jobs'[i] <= jobs[i]
  BY Moved
<1> QED BY <1>1, SeatsKept

LEMMA ReplayDeferredInv ==
  ASSUME IInv, NEW j \in DOMAIN jobs, IsReplay(j), ReplayDeferred(j)
  PROVE  IInv'
<1> DEFINE k == j.key
<1>0. TypeParts BY TypeIs DEF IInv
<1>1. /\ j.phase = "gate" /\ Move(j, "returning", 0) /\ window = "open"
      /\ intents' = Added(k, j.kind) /\ Persist(intents') /\ Owe(k)
      /\ UNCHANGED <<window, timer, inFlight, bootPids, raws, live, pids>>
  BY DEF ReplayDeferred, Defer
<1>2. k \in Keys /\ j.kind \in {"trigger", "mention"} /\ Replays(k) # {}
  BY <1>0 DEF TypeParts, Job, IsReplay, Replays
<1>3. 0 \in 0..MaxPids BY DeferAssumption
<1> HIDE DEF k
<1>4. /\ intents' \in Record /\ file' \in Record \cup {NoRecord} /\ failed' \in BOOLEAN
      /\ owed' \subseteq Keys /\ overtaken' \subseteq Keys /\ threw' = threw /\ loose' = loose
      /\ overtaken \subseteq overtaken' /\ (Replays(k) # {} => k \in overtaken')
      /\ owed' = owed \cup {k} /\ \A l \in Keys : l # k => intents'[l] = intents[l]
      /\ \A l \in Keys : intents'[l].pid = intents[l].pid
      /\ FileOK' /\ OwedOK'
  BY <1>1, <1>2, DeferIs
<1>5. DOMAIN jobs' \subseteq Job
      /\ \A i \in DOMAIN jobs' : IsReplay(i) => \E l \in DOMAIN jobs : IsReplay(l) /\ l.key = i.key
  BY <1>1, <1>3, Moved
<1>6. TypeParts' BY <1>0, <1>1, <1>4, <1>5 DEF TypeParts
<1>7. JobsOK' /\ SeatsOK' /\ PidsOK' BY <1>1, <1>3, GoesOn
<1>8. SurvivorsOK' BY <1>0, <1>1, <1>4, <1>5, SurvivorsKept DEF TypeParts
<1>9. ReplaysOK' BY <1>1, <1>2, <1>3, <1>4, ReplaysMoved DEF k
<1> QED BY <1>4, <1>6, <1>7, <1>8, <1>9, Gather

\* The seat is granted to a replay at the gate, or the handler goes on without.
LEMMA TakesOnInv ==
  ASSUME IInv, NEW j \in DOMAIN jobs, IsReplay(j), j.phase = "gate",
         NEW phase \in {"spawning", "spawned", "returning"}, NEW pid \in 0..MaxPids, Move(j, phase, pid),
         phase = "spawning" => SeatFree(j.key), TakeOn(j.key), raws' \in {raws, raws \cup {j.key}},
         UNCHANGED <<store, live, pids, failed>>
  PROVE  IInv'
<1>0. TypeParts BY TypeIs DEF IInv
<1>1. j.key \in Keys /\ phase # j.phase BY <1>0 DEF TypeParts, Job
<1>2. owed' = owed \ {j.key} /\ UNCHANGED <<overtaken, threw, loose>> BY DEF TakeOn
<1>3. DOMAIN jobs' \subseteq Job
      /\ \A i \in DOMAIN jobs' : IsReplay(i) => \E l \in DOMAIN jobs : IsReplay(l) /\ l.key = i.key
  BY <1>1, Moved
<1>4. TypeParts' BY <1>0, <1>1, <1>2, <1>3 DEF TypeParts, store
<1>5. JobsOK' /\ SeatsOK' /\ PidsOK'
  <2>1. CASE phase = "spawning"
    <3>1. IsABag(jobs') /\ \E n \in DOMAIN jobs' :
            /\ n.key = j.key /\ n.phase = phase /\ Copies(n, jobs') = Copies(n, jobs) + 1
            /\ \A i \in DOMAIN jobs' : i # n => i \in DOMAIN jobs /\ jobs'[i] <= jobs[i]
      BY <1>1, Moved
    <3>2. PICK n \in DOMAIN jobs' :
            /\ n.key = j.key /\ n.phase = "spawning" /\ Copies(n, jobs') = Copies(n, jobs) + 1
            /\ \A i \in DOMAIN jobs' : i # n => i \in DOMAIN jobs /\ jobs'[i] <= jobs[i]
      BY <2>1, <3>1
    <3> QED BY <2>1, <3>1, <3>2, SeatTaken
  <2>2. CASE phase # "spawning" BY <1>1, <2>2, GoesOn
  <2> QED BY <2>1, <2>2
<1>6. SurvivorsOK' BY <1>0, <1>2, <1>3, SurvivorsKept DEF store, TypeParts
<1>7. ReplaysOK' BY <1>1, <1>2, ReplaysMoved DEF store
<1>8. FileOK' BY FileKept DEF store
<1>9. OwedOK' BY <1>2, OwedKept DEF store
<1> QED BY <1>4, <1>5, <1>6, <1>7, <1>8, <1>9, Gather

LEMMA ReplayDroppedInv ==
  ASSUME IInv, NEW j \in DOMAIN jobs, IsReplay(j), ReplayDropped(j)
  PROVE  IInv'
<1>1. 0 \in 0..MaxPids BY DeferAssumption
<1> QED BY <1>1, TakesOnInv DEF ReplayDropped

LEMMA ReplayAdmittedInv ==
  ASSUME IInv, NEW j \in DOMAIN jobs, IsReplay(j), ReplayAdmitted(j)
  PROVE  IInv'
<1>0. TypeParts BY TypeIs DEF IInv
<1>1. 0 \in 0..MaxPids BY DeferAssumption
<1>2. /\ j.phase = "gate" /\ TakeOn(j.key) /\ raws' \in {raws, raws \cup {j.key}}
      /\ UNCHANGED <<store, live, pids, failed>>
  BY DEF ReplayAdmitted
<1>3. CASE SeatFree(j.key) /\ Move(j, "spawning", 0) BY <1>1, <1>2, <1>3, TakesOnInv
<1>4. CASE Move(j, "returning", 0) BY <1>1, <1>2, <1>4, TakesOnInv
<1>5. ASSUME NEW h \in Mine(j.key), Move(j, "spawned", h.pid) PROVE IInv'
  <2>1. h.pid \in 1..MaxPids BY <1>0 DEF Mine, TypeParts, Harness
  <2>2. h.pid \in 0..MaxPids BY <2>1, DeferAssumption
  <2> QED BY <1>2, <1>5, <2>2, TakesOnInv
<1> QED BY <1>3, <1>4, <1>5 DEF ReplayAdmitted

LEMMA ReplaySpawnsInv ==
  ASSUME IInv, NEW j \in DOMAIN jobs, IsReplay(j), ReplaySpawns(j)
  PROVE  IInv'
<1>0. TypeParts BY TypeIs DEF IInv
<1>1. j.phase = "spawning" /\ UNCHANGED <<store, raws, ghosts, failed>> BY DEF ReplaySpawns
<1>2. j.key \in Keys /\ jobs[j] = 1 /\ j.key \notin bootPids
  BY <1>0, <1>1 DEF TypeParts, Job, IInv, SeatsOK, SurvivorsOK
<1>3. PICK phase \in {"spawned", "returning"}, pid \in 0..MaxPids :
        /\ Move(j, phase, pid)
        /\ Start(j.key, TRUE) \/ UNCHANGED <<live, pids>>
  <2>1. 0 \in 0..MaxPids BY DeferAssumption
  <2>2. CASE Start(j.key, TRUE) /\ Move(j, IF j.kind = "trigger" THEN "spawned" ELSE "returning", pids + 1)
    <3>1. pids + 1 \in 0..MaxPids BY <1>0, <1>2, <2>2, StartIs
    <3> QED BY <2>2, <3>1
  <2>3. CASE Move(j, "returning", 0) /\ UNCHANGED <<live, pids>> BY <2>1, <2>3
  <2> QED BY <2>2, <2>3 DEF ReplaySpawns
<1>4. /\ IsABag(jobs') /\ DOMAIN jobs' \subseteq Job /\ j \notin DOMAIN jobs'
      /\ \A i \in DOMAIN jobs' : IsReplay(i) => \E l \in DOMAIN jobs : IsReplay(l) /\ l.key = i.key
  BY <1>1, <1>2, <1>3, Moved
<1>5. PICK n \in DOMAIN jobs' :
        /\ n.phase = phase /\ IsReplay(n)
        /\ \A i \in DOMAIN jobs' : i # n => i \in DOMAIN jobs /\ jobs'[i] <= jobs[i]
  BY <1>1, <1>3, Moved
<1>6. /\ live' \subseteq Harness /\ pids' \in 0..MaxPids
      /\ \A h \in live' : h \in live \/ (h.mine /\ h.key = j.key)
  <2>1. CASE Start(j.key, TRUE) BY <1>0, <1>2, <2>1, StartIs
  <2>2. CASE UNCHANGED <<live, pids>> BY <1>0, <2>2 DEF TypeParts
  <2> QED BY <1>3, <2>1, <2>2
<1>7. TypeParts' BY <1>0, <1>1, <1>4, <1>6 DEF TypeParts, store, ghosts
<1>8. JobsOK' /\ SeatsOK' /\ PidsOK'
  <2>1. CASE Start(j.key, TRUE) BY <1>1, <1>3, <1>4, <1>5, <2>1, SeatUsed
  <2>2. CASE UNCHANGED <<live, pids>> BY <1>1, <1>3, <2>2, GoesOn
  <2> QED BY <1>3, <2>1, <2>2
<1>9. SurvivorsOK' BY <1>1, <1>2, <1>4, <1>6, SurvivorsKept DEF store, ghosts
<1>10. ReplaysOK'
  <2>1. ASSUME j.key \notin overtaken PROVE j.key \notin owed
    BY <1>1, <1>2, <2>1 DEF IInv, ReplaysOK, Replays
  <2> QED BY <1>1, <1>3, <2>1, ReplaysMoved DEF store, ghosts
<1>11. FileOK' BY <1>1, FileKept DEF store
<1>12. OwedOK' BY <1>1, OwedKept DEF store, ghosts
<1> QED BY <1>7, <1>8, <1>9, <1>10, <1>11, <1>12, Gather

LEMMA ReplayThrowsInv ==
  ASSUME IInv, NEW j \in DOMAIN jobs, IsReplay(j), ReplayThrows(j)
  PROVE  IInv'
<1>0. TypeParts BY TypeIs DEF IInv
<1>1. /\ jobs' = jobs (-) SetToBag({j}) /\ threw' = threw \cup {j.key}
      /\ owed' = IF j.key \in Held THEN owed \cup {j.key} ELSE owed
      /\ UNCHANGED <<store, raws, live, pids, overtaken, loose, failed>>
  BY DEF ReplayThrows
<1>2. j.key \in Keys BY <1>0 DEF TypeParts, Job
<1>3. /\ IsABag(jobs') /\ DOMAIN jobs' \subseteq DOMAIN jobs
      /\ \A i \in DOMAIN jobs' : jobs'[i] <= jobs[i]
      /\ jobs[j] = 1 => j \notin DOMAIN jobs'
  BY <1>1, RemoveIs
<1>4. TypeParts' BY <1>0, <1>1, <1>2, <1>3 DEF TypeParts, store
<1>5. JobsOK' /\ SeatsOK' /\ PidsOK' BY <1>1, <1>3, SeatsKept
<1>6. SurvivorsOK' BY <1>1, <1>3, SurvivorsKept DEF store
<1>7. ReplaysOK'
  <2>1. ASSUME NEW l \in Keys \ overtaken', Replays(l)' # {}
        PROVE  (l \in inFlight' \/ intents'[l] = None) /\ (l \in owed' => l \in owed)
    <3>1. Replays(l)' \subseteq Replays(l) BY <1>3 DEF Replays, IsReplay
    <3>2. l \in inFlight \/ intents[l] = None BY <1>1, <2>1, <3>1, InFlightIs
    <3>3. l # j.key
      <4> SUFFICES ASSUME l = j.key PROVE FALSE OBVIOUS
      <4>1. j \in Replays(l) BY DEF Replays
      <4>2. jobs[j] = 1 /\ \A i \in Replays(l) : i = j BY <1>1, <4>1 DEF IInv, ReplaysOK
      <4>3. j \notin Replays(l)' BY <1>3, <4>2 DEF Replays
      <4> QED BY <2>1, <3>1, <4>2, <4>3
    <3> QED BY <1>1, <3>2, <3>3 DEF store
  <2> QED BY <1>1, <1>3, <2>1, ReplaysKept
<1>8. FileOK' BY <1>1, FileKept DEF store
<1>9. OwedOK' BY <1>1 DEF IInv, OwedOK, Held, store
<1> QED BY <1>4, <1>5, <1>6, <1>7, <1>8, <1>9, Gather

LEMMA ReportPidInv ==
  ASSUME IInv, NEW j \in DOMAIN jobs, IsReplay(j), ReportPid(j)
  PROVE  IInv'
<1> DEFINE k == j.key
<1>0. TypeParts BY TypeIs DEF IInv
<1>1. /\ j.phase = "spawned" /\ Move(j, "returning", 0)
      /\ UNCHANGED <<window, timer, inFlight, bootPids, raws, live, pids, ghosts>>
  BY DEF ReportPid
<1>2. k \in Keys /\ j.pid \in 0..MaxPids /\ k \notin bootPids BY <1>0 DEF TypeParts, Job, IInv, SurvivorsOK
<1>3. 0 \in 0..MaxPids BY DeferAssumption
<1>4. /\ intents' \in Record /\ \A l \in Keys : l # k => intents'[l] = intents[l]
      /\ intents'[k] = None <=> intents[k] = None
      /\ window = "none" => intents' = EmptyRecord
      /\ FileOK' /\ file' \in Record \cup {NoRecord} /\ failed' \in BOOLEAN /\ (~failed' => ~failed)
  <2>1. CASE intents[k].status = "dispatching"
    <3>1. intents' = [intents EXCEPT ![k] = [intents[k] EXCEPT !.pid = j.pid]] /\ Persist(intents')
      BY <2>1 DEF ReportPid, TakesPid
    <3>2. intents \in [Keys -> Intent \cup {None}] BY <1>0 DEF TypeParts, Record
    <3>3. intents[k] \in Intent /\ intents[k] # None BY <1>2, <2>1, <3>2, NoneIs
    <3>4. [intents[k] EXCEPT !.pid = j.pid] \in Intent BY <1>2, <3>3 DEF Intent
    <3> DEFINE new == [intents[k] EXCEPT !.pid = j.pid]
    <3> HIDE DEF new, k
    <3>5. intents' = [intents EXCEPT ![k] = new] /\ new \in Intent BY <3>1, <3>4 DEF new
    <3>6. /\ intents' \in Record /\ intents'[k] = new /\ \A l \in Keys : l # k => intents'[l] = intents[l]
      BY <1>2, <3>2, <3>5 DEF Record
    <3>7. intents'[k] # None BY <3>5, <3>6, NoneIs
    <3>8. window # "none" BY <1>0, <1>2, <3>3, HeldIs
    <3>9. FileOK' BY <1>0, <3>1, <3>6, FileFollows
    <3>10. file' \in Record \cup {NoRecord} /\ failed' \in BOOLEAN /\ (~failed' => ~failed)
      BY <1>0, <3>1, <3>6, PersistIs
    <3> QED BY <3>3, <3>6, <3>7, <3>8, <3>9, <3>10
  <2>2. CASE intents[k].status # "dispatching"
    <3>1. UNCHANGED <<intents, file, failed>> BY <2>2 DEF ReportPid, TakesPid
    <3>2. FileOK' BY <1>1, <3>1, FileKept
    <3> QED BY <1>0, <3>1, <3>2 DEF TypeParts
  <2> QED BY <2>1, <2>2
<1> HIDE DEF k
<1>5. DOMAIN jobs' \subseteq Job
      /\ \A i \in DOMAIN jobs' : IsReplay(i) => \E l \in DOMAIN jobs : IsReplay(l) /\ l.key = i.key
  BY <1>1, <1>3, Moved
<1>6. TypeParts' BY <1>0, <1>1, <1>4, <1>5 DEF TypeParts, ghosts
<1>7. JobsOK' /\ SeatsOK' /\ PidsOK' BY <1>1, <1>3, GoesOn
<1>8. SurvivorsOK' BY <1>0, <1>1, <1>2, <1>4, <1>5, SurvivorsKept DEF ghosts, TypeParts
<1>9. ReplaysOK'
  <2>1. ASSUME k \notin overtaken PROVE k \notin owed
    BY <1>1, <1>2, <2>1 DEF IInv, ReplaysOK, Replays, k
  <2> QED BY <1>1, <1>2, <1>3, <1>4, <2>1, ReplaysMoved DEF ghosts, k
<1>10. OwedOK' BY <1>1, <1>4 DEF IInv, OwedOK, Held, ghosts
<1> QED BY <1>4, <1>6, <1>7, <1>8, <1>9, <1>10, Gather

LEMMA AckIntentInv ==
  ASSUME IInv, NEW j \in DOMAIN jobs, IsReplay(j), AckIntent(j)
  PROVE  IInv'
<1> DEFINE k == j.key
<1>0. TypeParts BY TypeIs DEF IInv
<1>1. /\ j.phase = "returning" /\ jobs' = jobs (-) SetToBag({j})
      /\ inFlight' = inFlight \ {k} /\ bootPids' = bootPids \ {k} /\ intents' = [intents EXCEPT ![k] = None]
      /\ window' = IF intents' = EmptyRecord /\ window = "elapsed" THEN "none" ELSE window
      /\ Persist(IF window' = "none" THEN NoRecord ELSE intents')
      /\ UNCHANGED <<timer, raws, live, pids, ghosts>>
  BY DEF AckIntent
<1>2. k \in Keys /\ k \notin bootPids BY <1>0 DEF TypeParts, Job, IInv, SurvivorsOK
<1>3. k \notin overtaken => k \notin owed BY <1>1, <1>2 DEF IInv, ReplaysOK, Replays
<1> HIDE DEF k
<1>4. /\ intents' \in Record /\ intents'[k] = None /\ \A l \in Keys : l # k => intents'[l] = intents[l]
      /\ window = "none" => intents' = EmptyRecord
  <2>1. intents' = [intents EXCEPT ![k] = None] BY <1>1
  <2> QED BY <1>0, <1>2, <2>1, TakenOut
<1>5. /\ IsABag(jobs') /\ DOMAIN jobs' \subseteq DOMAIN jobs
      /\ \A i \in DOMAIN jobs' : jobs'[i] <= jobs[i]
  BY <1>1, RemoveIs
<1>6. file' \in Record \cup {NoRecord} /\ failed' \in BOOLEAN /\ (~failed' => ~failed)
  <2>1. (IF window' = "none" THEN NoRecord ELSE intents') \in Record \cup {NoRecord} BY <1>4
  <2> QED BY <1>0, <1>1, <2>1, PersistIs
<1>7. FileOK'
  <2>1. CASE window' = "none" BY <2>1 DEF FileOK
  <2>2. CASE window' # "none"
    <3>1. Persist(intents') BY <1>1, <2>2
    <3> QED BY <1>0, <1>4, <3>1, FileFollows
  <2> QED BY <2>1, <2>2
<1>8. window' \in {"none", "open", "elapsed"} /\ (window' = "none" => intents' = EmptyRecord)
  BY <1>0, <1>1, <1>4 DEF TypeParts
<1>9. TypeParts' BY <1>0, <1>1, <1>4, <1>5, <1>6, <1>8 DEF TypeParts, ghosts
<1>10. JobsOK' /\ SeatsOK' /\ PidsOK' BY <1>1, <1>5, SeatsKept
<1>11. SurvivorsOK'
  <2>1. bootPids' = bootPids /\ \A l \in bootPids : intents'[l].pid = intents[l].pid
    BY <1>0, <1>1, <1>2, <1>4 DEF TypeParts
  <2> QED BY <1>1, <1>5, <2>1, SurvivorsKept DEF ghosts
<1>12. ReplaysOK'
  <2>1. ASSUME NEW l \in Keys \ overtaken', Replays(l)' # {}
        PROVE  (l \in inFlight' \/ intents'[l] = None) /\ (l \in owed' => l \in owed)
    <3>1. Replays(l) # {} BY <1>5, <2>1 DEF Replays, IsReplay
    <3>2. l \in inFlight \/ intents[l] = None BY <1>1, <3>1, InFlightIs DEF ghosts
    <3> QED BY <1>1, <1>4, <3>2 DEF ghosts
  <2> QED BY <1>1, <1>5, <2>1, ReplaysKept DEF ghosts
<1>13. OwedOK'
  <2>1. OwedOK /\ owed \subseteq Keys BY <1>0 DEF IInv, TypeParts
  <2> QED BY <1>1, <1>4, <1>3, <1>6, <2>1 DEF OwedOK, Held, ghosts
<1> QED BY <1>7, <1>9, <1>10, <1>11, <1>12, <1>13, Gather

\* The intents #fire leaves are the ones it found, with no pid of a survivor
\* that it signals.
LEMMA FiredIs ==
  ASSUME TypeParts, NEW due, due = Due, NEW kept, kept = Dispatching(due), NEW r,
         r = [k \in Keys |-> IF k \in due \cap bootPids THEN [kept[k] EXCEPT !.pid = 0] ELSE kept[k]]
  PROVE  /\ kept \in Record /\ r \in Record
         /\ \A k \in Keys : (kept[k] = None <=> intents[k] = None) /\ (r[k] = None <=> intents[k] = None)
         /\ \A k \in Keys \ due : r[k] = intents[k]
         /\ due \subseteq Keys /\ \A k \in due : intents[k] \in Intent
<1>0. intents \in [Keys -> Intent \cup {None}] /\ 0 \in 0..MaxPids BY DeferAssumption DEF TypeParts, Record
<1>1. due \subseteq Keys /\ \A k \in due : intents[k] # None BY DEF Due, Held
<1>2. \A k \in due : intents[k] \in Intent BY <1>0, <1>1
<1>3. \A i \in Intent : [i EXCEPT !.status = "dispatching"] \in Intent /\ [i EXCEPT !.pid = 0] \in Intent
  BY <1>0 DEF Intent
<1>4. kept = [k \in Keys |-> IF k \in due THEN [intents[k] EXCEPT !.status = "dispatching"] ELSE intents[k]]
  BY DEF Dispatching
<1>5. /\ \A k \in due : kept[k] \in Intent
      /\ \A k \in Keys \ due : kept[k] = intents[k]
  BY <1>1, <1>2, <1>3, <1>4
<1>6. \A k \in due : r[k] \in Intent
  <2> SUFFICES ASSUME NEW k \in due PROVE r[k] \in Intent OBVIOUS
  <2>1. r[k] = IF k \in due \cap bootPids THEN [kept[k] EXCEPT !.pid = 0] ELSE kept[k] BY <1>1
  <2>2. kept[k] \in Intent BY <1>5
  <2>3. [kept[k] EXCEPT !.pid = 0] \in Intent BY <1>3, <2>2
  <2> QED BY <2>1, <2>2, <2>3
<1>7. \A k \in Keys \ due : r[k] = intents[k] BY <1>5
<1>8. kept \in [Keys -> Intent \cup {None}]
  <2>1. \A k \in Keys : kept[k] \in Intent \cup {None} BY <1>0, <1>5
  <2> QED BY <1>4, <2>1
<1>9. r \in [Keys -> Intent \cup {None}]
  <2>1. \A k \in Keys : r[k] \in Intent \cup {None} BY <1>0, <1>6, <1>7
  <2> QED BY <2>1
<1>10. ASSUME NEW k \in Keys
       PROVE  (kept[k] = None <=> intents[k] = None) /\ (r[k] = None <=> intents[k] = None)
  <2>1. CASE k \in due
    <3>1. kept[k] # None /\ r[k] # None /\ intents[k] # None BY <1>2, <1>5, <1>6, <2>1, NoneIs
    <3> QED BY <3>1
  <2>2. CASE k \notin due BY <1>5, <1>7, <2>2
  <2> QED BY <2>1, <2>2
<1>11. kept \in Record /\ r \in Record BY <1>8, <1>9 DEF Record
<1> QED BY <1>1, <1>2, <1>7, <1>10, <1>11

\* The processes after some of them were signalled.
LEMMA SignalledIs ==
  ASSUME TypeParts, NEW gone \in SUBSET live, NEW failing
  PROVE  /\ Signalled(gone, failing) \subseteq Harness
         /\ \A h \in Signalled(gone, failing) :
              /\ h.sig = "none" => h \in live \ gone
              /\ \E g \in live : /\ g.pid = h.pid /\ g.key = h.key /\ g.mine = h.mine /\ g.replay = h.replay
                                 /\ h = IF g \in gone THEN [g EXCEPT !.sig = IF g \in failing THEN "left" ELSE "term"]
                                       ELSE g
<1> DEFINE To(h) == IF h \in gone THEN [h EXCEPT !.sig = IF h \in failing THEN "left" ELSE "term"] ELSE h
<1>1. Signalled(gone, failing) = {To(h) : h \in live} BY DEF Signalled
<1>2. ASSUME NEW h \in live
      PROVE  /\ To(h) \in Harness /\ To(h).pid = h.pid /\ To(h).key = h.key /\ To(h).mine = h.mine
             /\ To(h).replay = h.replay /\ (To(h).sig = "none" => To(h) = h /\ h \notin gone)
  <2>1. h \in Harness BY DEF TypeParts
  <2>2. CASE h \in gone
    <3>1. PICK x \in {"left", "term"} : To(h) = [h EXCEPT !.sig = x] BY <2>2
    <3> HIDE DEF To
    <3> QED BY <2>1, <3>1 DEF Harness
  <2>3. CASE h \notin gone BY <2>1, <2>3
  <2> QED BY <2>2, <2>3
<1>3. \A h \in live : To(h) = IF h \in gone THEN [h EXCEPT !.sig = IF h \in failing THEN "left" ELSE "term"] ELSE h
  OBVIOUS
<1> HIDE DEF To
<1>4. ASSUME NEW h \in live
      PROVE  /\ To(h).sig = "none" => To(h) \in live \ gone
             /\ \E g \in live :
                  /\ g.pid = To(h).pid /\ g.key = To(h).key /\ g.mine = To(h).mine /\ g.replay = To(h).replay
                  /\ To(h) = IF g \in gone THEN [g EXCEPT !.sig = IF g \in failing THEN "left" ELSE "term"] ELSE g
  BY <1>2, <1>3
<1> QED BY <1>1, <1>2, <1>4

LEMMA FireInv ==
  ASSUME IInv, Fire
  PROVE  IInv'
<1>0. TypeParts /\ IsABag(jobs) BY TypeIs DEF IInv, JobsOK
<1> DEFINE New(k) == [key |-> k, kind |-> intents[k].kind, phase |-> "gate", pid |-> 0]
<1>1. PICK due, kept : due = Due /\ kept = Dispatching(due) OBVIOUS
<1>2. /\ inFlight' = inFlight \cup due /\ timer' = Arm(window, kept, inFlight')
      /\ IF due = {} THEN UNCHANGED <<file, failed>> ELSE Persist(kept)
      /\ bootPids' = bootPids \ due
      /\ jobs' = jobs (+) SetToBag({New(k) : k \in due})
      /\ UNCHANGED <<window, raws, pids, ghosts>>
  BY <1>1 DEF Fire
<1>3. intents' = [k \in Keys |-> IF k \in due \cap bootPids THEN [kept[k] EXCEPT !.pid = 0] ELSE kept[k]]
  BY <1>1 DEF Fire
<1>18. PICK failing : live' = Signalled(ReapedSurvivors(due), failing) BY <1>1 DEF Fire
<1>19. /\ live' \subseteq Harness
       /\ \A h \in live' :
            /\ h.sig = "none" => h \in live \ ReapedSurvivors(due)
            /\ \E g \in live :
                 /\ g.pid = h.pid /\ g.key = h.key /\ g.mine = h.mine /\ g.replay = h.replay
                 /\ h = IF g \in ReapedSurvivors(due) THEN [g EXCEPT !.sig = IF g \in failing THEN "left" ELSE "term"]
                       ELSE g
  <2>1. ReapedSurvivors(due) \in SUBSET live BY DEF ReapedSurvivors
  <2> QED BY <1>0, <1>18, <2>1, SignalledIs
<1>20. \A g, h \in live' : g.pid = h.pid => g = h
  <2> SUFFICES ASSUME NEW g \in live', NEW h \in live', g.pid = h.pid PROVE g = h OBVIOUS
  <2> DEFINE To(x) == IF x \in ReapedSurvivors(due) THEN [x EXCEPT !.sig = IF x \in failing THEN "left" ELSE "term"]
                      ELSE x
  <2>1. PICK e \in live : e.pid = g.pid /\ g = To(e) BY <1>19
  <2>2. PICK f \in live : f.pid = h.pid /\ h = To(f) BY <1>19
  <2>3. e = f BY <2>1, <2>2 DEF IInv, PidsOK
  <2> HIDE DEF To
  <2> QED BY <2>1, <2>2, <2>3
<1>4. /\ kept \in Record /\ intents' \in Record
      /\ \A k \in Keys : (kept[k] = None <=> intents[k] = None) /\ (intents'[k] = None <=> intents[k] = None)
      /\ \A k \in Keys \ due : intents'[k] = intents[k]
      /\ due \subseteq Keys /\ \A k \in due : intents[k] \in Intent
  BY <1>0, <1>1, <1>3, FiredIs
<1>5. \A k \in due : /\ New(k) \in Job /\ New(k).key = k /\ New(k).phase = "gate" /\ IsReplay(New(k))
  BY <1>4, DeferAssumption DEF Intent, Job, IsReplay
<1>6. PICK N : N = {New(k) : k \in due} OBVIOUS
<1>7. \A n \in N : n \in Job /\ n.key \in due /\ n = New(n.key) /\ n.phase = "gate" /\ IsReplay(n)
  BY <1>5, <1>6
<1>8. jobs' = jobs (+) SetToBag(N) BY <1>2, <1>6
<1>9. /\ IsABag(jobs') /\ DOMAIN jobs' = DOMAIN jobs \cup N
      /\ \A e : Copies(e, jobs') = Copies(e, jobs) + (IF e \in N THEN 1 ELSE 0)
  BY <1>0, <1>8, BagAdd
<1> HIDE DEF New
<1>10. \A j \in DOMAIN jobs' : j \notin N => j \in DOMAIN jobs /\ jobs'[j] = jobs[j]
  <2> SUFFICES ASSUME NEW j \in DOMAIN jobs', j \notin N PROVE j \in DOMAIN jobs /\ jobs'[j] = jobs[j] OBVIOUS
  <2>1. j \in DOMAIN jobs BY <1>9
  <2>2. Copies(j, jobs') = Copies(j, jobs) + 0 BY <1>9
  <2>3. jobs'[j] = Copies(j, jobs') /\ jobs[j] = Copies(j, jobs) BY <2>1 DEF Copies
  <2>4. jobs[j] \in Nat BY <1>0, <2>1 DEF IsABag
  <2> QED BY <2>1, <2>2, <2>3, <2>4
<1>11. JobsOK' /\ SeatsOK' /\ PidsOK'
  <2>1. \A j \in DOMAIN jobs' : \/ j \in DOMAIN jobs /\ jobs'[j] <= jobs[j]
                                \/ j.phase # "spawning" /\ IsReplay(j)
    <3>1. \A j \in DOMAIN jobs : jobs[j] <= jobs[j] BY <1>0 DEF IsABag
    <3> QED BY <1>7, <1>10, <3>1
  <2>2. \A h \in live' : \E g \in live : g.pid = h.pid /\ g.key = h.key /\ g.mine = h.mine BY <1>19
  <2> QED BY <1>2, <1>9, <1>20, <2>1, <2>2, SeatsKeptBy
<1>12. /\ FileOK' /\ file' \in Record \cup {NoRecord} /\ failed' \in BOOLEAN /\ (~failed' => ~failed)
  <2>1. CASE due = {}
    <3>1. UNCHANGED <<file, failed>> BY <1>2, <2>1
    <3> QED BY <1>0, <1>2, <1>4, <3>1, FileKept DEF TypeParts
  <2>2. CASE due # {}
    <3>1. Persist(kept) BY <1>2, <2>2
    <3>2. /\ file' \in Record \cup {NoRecord} /\ failed' \in BOOLEAN
          /\ ~failed' => ~failed /\ file' = kept
      BY <1>0, <1>4, <3>1, PersistIs
    <3> QED BY <1>4, <3>2 DEF FileOK
  <2> QED BY <2>1, <2>2
<1>13. window = "none" => intents' = EmptyRecord
  <2> SUFFICES ASSUME window = "none" PROVE intents' = EmptyRecord OBVIOUS
  <2>1. \A k \in Keys : intents'[k] = None BY <1>0, <1>4, EmptyIs DEF TypeParts
  <2> QED BY <1>4, <2>1 DEF EmptyRecord, Record
<1>14. TypeParts'
  <2>1. DOMAIN jobs' \subseteq Job BY <1>0, <1>7, <1>9 DEF TypeParts
  <2>2. timer' \in {"off", "reset", "now"} BY <1>2, ArmIs
  <2> QED BY <1>0, <1>2, <1>4, <1>12, <1>13, <1>19, <2>1, <2>2 DEF TypeParts, ghosts
<1>15. SurvivorsOK'
  <2>0. SurvivorsOK BY DEF IInv
  <2>1. ASSUME NEW h \in live', ~h.mine, h.pid \notin loose', h.sig = "none"
        PROVE  h.key \in bootPids' /\ intents'[h.key].pid = h.pid
    <3>1. h \in live /\ h \notin ReapedSurvivors(due) /\ h.pid \notin loose BY <1>2, <1>19, <2>1 DEF ghosts
    <3>2. h.key \in bootPids /\ intents[h.key].pid = h.pid BY <2>0, <2>1, <3>1 DEF SurvivorsOK
    <3>3. h.key \notin due BY <3>1, <3>2 DEF ReapedSurvivors
    <3>4. h.key \in Keys BY <1>0, <3>2 DEF TypeParts
    <3> QED BY <1>2, <1>4, <3>2, <3>3, <3>4
  <2>2. \A j \in DOMAIN jobs' : IsReplay(j) => j.key \notin bootPids'
    BY <1>2, <1>7, <1>10, <2>0 DEF SurvivorsOK
  <2>3. \A h \in live' : h.mine /\ h.replay => h.key \notin bootPids' BY <1>2, <1>19, <2>0 DEF SurvivorsOK
  <2> QED BY <2>1, <2>2, <2>3 DEF SurvivorsOK, IsReplay
<1>16. ReplaysOK'
  <2> SUFFICES ASSUME NEW k \in Keys \ overtaken
               PROVE  /\ \A i, j \in Replays(k)' : i = j
                      /\ \A j \in Replays(k)' : /\ jobs'[j] = 1
                                                /\ k \in inFlight' \/ k \notin Held'
                                                /\ j.phase # "gate" => k \notin owed'
    BY <1>2 DEF ReplaysOK, ghosts
  <2>0. /\ \A i, j \in Replays(k) : i = j
        /\ \A j \in Replays(k) : /\ jobs[j] = 1
                                 /\ k \in inFlight \/ k \notin Held
                                 /\ j.phase # "gate" => k \notin owed
    BY DEF IInv, ReplaysOK
  <2>1. CASE k \in due
    <3>1. k \in Held /\ k \notin inFlight BY <1>1, <2>1 DEF Due
    <3>2. Replays(k) = {} BY <2>0, <3>1
    <3>3. \A j \in Replays(k)' : j \in N /\ j = New(k) BY <1>7, <1>10, <3>2 DEF Replays, IsReplay
    <3>4. ASSUME NEW j \in Replays(k)' PROVE jobs'[j] = 1
      <4>1. j \in N /\ j \in DOMAIN jobs' /\ j \notin DOMAIN jobs BY <3>2, <3>3 DEF Replays, IsReplay
      <4>2. Copies(j, jobs) = 0 /\ Copies(j, jobs') = jobs'[j] BY <4>1 DEF Copies
      <4> QED BY <1>9, <4>1, <4>2
    <3> QED BY <1>2, <1>7, <2>1, <3>3, <3>4
  <2>2. CASE k \notin due
    <3>1. \A j \in Replays(k)' : j \in Replays(k) /\ jobs'[j] = jobs[j]
      BY <1>7, <1>10, <2>2 DEF Replays, IsReplay
    <3>2. k \in Held' <=> k \in Held BY <1>4 DEF Held
    <3> QED BY <1>2, <2>0, <3>1, <3>2 DEF ghosts
  <2> QED BY <2>1, <2>2
<1>17. OwedOK' BY <1>0, <1>2, <1>4, <1>12 DEF IInv, OwedOK, Held, ghosts
<1> QED BY <1>11, <1>12, <1>14, <1>15, <1>16, <1>17, Gather

LEMMA CrashInv ==
  ASSUME IInv, Crash
  PROVE  IInv'
<1> DEFINE After(h) == [h EXCEPT !.mine = FALSE, !.sig = IF h.sig = "term" THEN "left" ELSE h.sig]
<1>0. TypeParts BY TypeIs DEF IInv
<1>1. /\ jobs' = EmptyBag /\ raws' = {} /\ inFlight' = {} /\ threw' = {}
      /\ window' = BootWindow /\ intents' = IF file = NoRecord THEN EmptyRecord ELSE file
      /\ bootPids' \subseteq Keys /\ timer' = Arm(window', intents', {})
      /\ UNCHANGED <<file, pids, owed, overtaken, failed>>
  BY DEF Crash
<1>2. PICK left \in SUBSET live :
        /\ live' = {After(h) : h \in left}
        /\ loose' = loose \cup {h.pid : h \in {s \in left : ~(s.key \in bootPids' /\ intents'[s.key].pid = s.pid)}}
  BY DEF Crash
<1>3. window' \in {"none", "open", "elapsed"} /\ (window' = "none" <=> file = NoRecord)
  <2>1. CASE file = NoRecord BY <1>1, <2>1 DEF BootWindow
  <2>2. CASE file # NoRecord /\ window = "open" BY <1>1, <2>2 DEF BootWindow
  <2>3. CASE file # NoRecord /\ window # "open" BY <1>1, <2>3 DEF BootWindow
  <2> QED BY <2>1, <2>2, <2>3
<1>4. intents' \in Record /\ (file # NoRecord => file \in Record /\ intents' = file)
  BY <1>0, <1>1, EmptyIs DEF TypeParts
<1>5. \A h \in left : h \in Harness BY <1>0 DEF TypeParts
<1>6. \A g \in live' : \E h \in left : /\ g = After(h) /\ g \in Harness
                                       /\ g.pid = h.pid /\ g.key = h.key /\ ~g.mine
  <2>1. ASSUME NEW h \in left
        PROVE  After(h) \in Harness /\ After(h).pid = h.pid /\ After(h).key = h.key /\ ~After(h).mine
    <3>1. h \in Harness BY <1>5
    <3> DEFINE x == IF h.sig = "term" THEN "left" ELSE h.sig
    <3>2. x \in {"none", "term", "left"} BY <3>1 DEF Harness
    <3>3. After(h) = [h EXCEPT !.mine = FALSE, !.sig = x] OBVIOUS
    <3> HIDE DEF x, After
    <3> QED BY <3>1, <3>2, <3>3 DEF Harness
  <2> HIDE DEF After
  <2>2. \A g \in live' : \E h \in left : g = After(h) BY <1>2
  <2> QED BY <2>1, <2>2
<1> HIDE DEF After
<1>7. DOMAIN jobs' = {} /\ IsABag(jobs') BY <1>1 DEF EmptyBag, SetToBag, IsABag
<1>8. loose' \subseteq 1..MaxPids /\ loose \subseteq loose'
  <2>1. \A h \in left : h.pid \in 1..MaxPids BY <1>5 DEF Harness
  <2>2. loose \subseteq 1..MaxPids BY <1>0 DEF TypeParts
  <2> QED BY <1>2, <2>1, <2>2
<1>9. TypeParts'
  <2>1. live' \subseteq Harness BY <1>6
  <2>2. window' = "none" => intents' = EmptyRecord BY <1>1, <1>3
  <2>3. timer' \in {"off", "reset", "now"} BY <1>1, ArmIs
  <2> QED BY <1>0, <1>1, <1>3, <1>4, <1>7, <1>8, <2>1, <2>2, <2>3 DEF TypeParts
<1>10. JobsOK' BY <1>7 DEF JobsOK
<1>11. SeatsOK' BY <1>6, <1>7 DEF SeatsOK
<1>12. PidsOK'
  <2>1. PidsOK BY DEF IInv
  <2>2. \A g \in live' : g.pid <= pids' BY <1>1, <1>6, <2>1 DEF PidsOK
  <2>3. ASSUME NEW f \in live', NEW g \in live', f.pid = g.pid PROVE f = g
    <3>1. PICK h \in left : f = After(h) /\ f.pid = h.pid BY <1>6
    <3>2. PICK i \in left : g = After(i) /\ g.pid = i.pid BY <1>6
    <3>3. h = i BY <2>1, <2>3, <3>1, <3>2 DEF PidsOK
    <3> QED BY <3>1, <3>2, <3>3
  <2> QED BY <2>2, <2>3 DEF PidsOK
<1>13. SurvivorsOK'
  <2>1. ASSUME NEW g \in live', g.pid \notin loose' PROVE g.key \in bootPids' /\ intents'[g.key].pid = g.pid
    <3>1. PICK h \in left : g.pid = h.pid /\ g.key = h.key BY <1>6
    <3> QED BY <1>2, <2>1, <3>1
  <2> QED BY <1>6, <1>7, <2>1 DEF SurvivorsOK
<1>14. ReplaysOK' BY <1>7 DEF ReplaysOK, Replays
<1>15. FileOK' BY <1>1, <1>3, <1>4 DEF FileOK
<1>16. OwedOK'
  <2> SUFFICES ASSUME ~failed, NEW k \in owed \ overtaken PROVE k \in Held' BY <1>1 DEF OwedOK
  <2>1. k \in Keys /\ intents[k] # None BY DEF IInv, OwedOK, Held
  <2>2. window # "none" BY <1>0, <2>1, HeldIs
  <2>3. file \in Record /\ file[k] # None BY <2>1, <2>2 DEF IInv, FileOK
  <2>4. file # NoRecord
    <3>1. DOMAIN file = Keys BY <2>3 DEF Record
    <3>2. DOMAIN NoRecord = {} BY DEF NoRecord
    <3> QED BY <2>1, <3>1, <3>2
  <2> QED BY <1>4, <2>1, <2>3, <2>4 DEF Held
<1> QED BY <1>9, <1>10, <1>11, <1>12, <1>13, <1>14, <1>15, <1>16, Gather

-----------------------------------------------------------------------------
LEMMA InitInv ==
  ASSUME Init
  PROVE  IInv
<1>1. DOMAIN jobs = {} /\ IsABag(jobs) BY DEF Init, EmptyBag, SetToBag, IsABag
<1>2. TypeParts
  <2>1. pids \in 0..MaxPids BY DeferAssumption DEF Init
  <2>2. intents \in Record /\ file \in Record \cup {NoRecord} BY EmptyIs DEF Init
  <2>3. failed \in BOOLEAN BY DEF Init
  <2> QED BY <1>1, <2>1, <2>2, <2>3 DEF Init, TypeParts
<1>3. live = {} BY DEF Init
<1>4. JobsOK BY <1>1 DEF JobsOK
<1>5. SeatsOK BY <1>1, <1>3 DEF SeatsOK
<1>6. PidsOK /\ SurvivorsOK BY <1>1, <1>3 DEF PidsOK, SurvivorsOK
<1>7. ReplaysOK BY <1>1 DEF ReplaysOK, Replays
<1>8. FileOK /\ OwedOK BY DEF Init, FileOK, OwedOK
<1> QED BY <1>2, <1>4, <1>5, <1>6, <1>7, <1>8, TypeIs DEF IInv

\* What a handler does once it has begun.
LEMMA ReplayInv ==
  ASSUME IInv, NEW k \in Keys, ReplayStep(k)
  PROVE  IInv'
<1>1. PICK j \in DOMAIN jobs :
        ReplayDeferred(j) \/ ReplayDropped(j) \/ ReplayAdmitted(j) \/ ReplaySpawns(j)
        \/ ReplayThrows(j) \/ ReportPid(j) \/ AckIntent(j)
  BY DEF ReplayStep, JobsOf, BagToSet
<1>2. IsReplay(j)
  <2>1. ~IsReplay(j) => j.kind = "event" /\ j.phase = "spawning" BY DEF IInv, JobsOK, IsReplay
  <2> QED BY <1>1, <2>1 DEF ReplayDeferred, ReplayDropped, ReplayAdmitted, ReplaySpawns, ReplayThrows,
                            ReportPid, AckIntent
<1> QED BY <1>1, <1>2, ReplayDeferredInv, ReplayDroppedInv, ReplayAdmittedInv, ReplaySpawnsInv,
           ReplayThrowsInv, ReportPidInv, AckIntentInv

LEMMA NextInv ==
  ASSUME IInv, [Next]_vars
  PROVE  IInv'
<1>1. ASSUME NEW k \in Keys, NEW kind \in {"trigger", "mention"}, DeferEvent(k, kind) \/ DispatchEvent(k, kind)
      PROVE  IInv'
  BY <1>1, DeferEventInv, DispatchEventInv
<1>2. ASSUME NEW k \in Keys, Cancel(k) \/ EventStep(k) \/ ReplayStep(k) PROVE IInv'
  <2>1. CASE EventStep(k)
    <3>1. PICK j \in DOMAIN jobs : SpawnEvent(j) BY <2>1 DEF EventStep, JobsOf, BagToSet
    <3> QED BY <3>1, SpawnEventInv
  <2> QED BY <1>2, <2>1, CancelInv, ReplayInv
<1>3. ASSUME NEW h \in live, Exit(h) \/ HitLimit(h) \/ Sigkill(h) PROVE IInv'
  BY <1>3, ExitInv, HitLimitInv, SigkillInv
<1>4. CASE OtherLimit \/ Elapse \/ Fire \/ Crash
  BY <1>4, OtherLimitInv, ElapseInv, FireInv, CrashInv
<1>5. CASE UNCHANGED vars
  <2>0. TypeParts BY TypeIs DEF IInv
  <2>1. TypeParts' BY <1>5, <2>0 DEF TypeParts, vars, store, ghosts
  <2>2. FileOK' BY <1>5, FileKept DEF vars, store
  <2> QED BY <1>5, <2>1, <2>2, QuietInv DEF vars, store, ghosts
<1> QED BY <1>1, <1>2, <1>3, <1>4, <1>5 DEF Next

\* Whatever is written to the store or to its file keeps the notes of pids.
LEMMA PersistNotes ==
  ASSUME NEW r, Noted(r), file # NoRecord => Noted(file), Persist(r)
  PROVE  (file # NoRecord => Noted(file))'
<1>1. file' = r \/ file' = file BY DEF Persist
<1> QED BY <1>1 DEF Noted

LEMMA AddNotes ==
  ASSUME IInv, PidNotes, NEW k \in Keys, NEW kind \in {"trigger", "mention"}, intents' = Added(k, kind),
         Persist(intents'), bootPids' = bootPids
  PROVE  PidNotes'
<1>1. /\ intents'[k] # None /\ \A l \in Keys : l # k => intents'[l] = intents[l]
      /\ intents'[k].pid = intents[k].pid /\ (intents[k] # None => intents'[k].status = intents[k].status)
  BY AddedIs DEF IInv
<1>2. \A l \in Keys : intents'[l].pid # 0 => intents'[l].status = "dispatching"
  BY <1>1, NoneIs DEF PidNotes, Noted
<1>3. \A l \in bootPids : intents'[l].pid # 0 BY <1>1 DEF PidNotes, IInv, TypeParts
<1>4. (file # NoRecord => Noted(file))' BY <1>2, PersistNotes DEF PidNotes, Noted
<1> QED BY <1>2, <1>3, <1>4 DEF PidNotes, Noted

LEMMA RemoveNotes ==
  ASSUME IInv, PidNotes, NEW k \in Keys, intents' = [intents EXCEPT ![k] = None],
         bootPids' \subseteq bootPids, k \notin bootPids',
         UNCHANGED file \/ Persist(intents') \/ Persist(NoRecord)
  PROVE  PidNotes'
<1>1. intents'[k] = None /\ \A l \in Keys : l # k => intents'[l] = intents[l]
  BY TakenOut DEF IInv
<1>2. \A l \in Keys : intents'[l].pid # 0 => intents'[l].status = "dispatching"
  BY <1>1, NoneIs DEF PidNotes, Noted
<1>3. \A l \in bootPids' : intents'[l].pid # 0 BY <1>1 DEF PidNotes, IInv, TypeParts
<1>4. (file # NoRecord => Noted(file))'
  <2>1. file' \in {file, intents', NoRecord} BY DEF Persist
  <2> QED BY <1>2, <2>1 DEF PidNotes, Noted
<1> QED BY <1>2, <1>3, <1>4 DEF PidNotes, Noted

LEMMA FireNotes ==
  ASSUME IInv, PidNotes, Fire
  PROVE  PidNotes'
<1>0. TypeParts BY DEF IInv
<1>1. PICK due, kept : due = Due /\ kept = Dispatching(due) OBVIOUS
<1>2. /\ IF due = {} THEN UNCHANGED <<file, failed>> ELSE Persist(kept)
      /\ bootPids' = bootPids \ due
      /\ intents' = [k \in Keys |-> IF k \in due \cap bootPids THEN [kept[k] EXCEPT !.pid = 0] ELSE kept[k]]
  BY <1>1 DEF Fire
<1>3. /\ \A k \in Keys \ due : intents'[k] = intents[k]
      /\ due \subseteq Keys /\ \A k \in due : intents[k] \in Intent
  BY <1>0, <1>1, <1>2, FiredIs
<1>4. kept = [k \in Keys |-> IF k \in due THEN [intents[k] EXCEPT !.status = "dispatching"] ELSE intents[k]]
  BY <1>1 DEF Dispatching
<1>5. \A i \in Intent : /\ [i EXCEPT !.status = "dispatching"] \in Intent
                        /\ [i EXCEPT !.status = "dispatching"].status = "dispatching"
                        /\ [i EXCEPT !.pid = 0].status = i.status
  BY DEF Intent
<1>6. \A k \in due : kept[k].status = "dispatching" /\ kept[k] \in Intent BY <1>3, <1>4, <1>5
<1>7. \A k \in Keys \ due : kept[k] = intents[k] BY <1>4
<1>8. Noted(kept) BY <1>6, <1>7 DEF PidNotes, Noted
<1>9. ASSUME NEW k \in due PROVE intents'[k].status = "dispatching"
  <2>1. intents'[k] = IF k \in due \cap bootPids THEN [kept[k] EXCEPT !.pid = 0] ELSE kept[k] BY <1>2, <1>3
  <2>2. kept[k].status = "dispatching" /\ [kept[k] EXCEPT !.pid = 0].status = kept[k].status BY <1>5, <1>6
  <2> QED BY <2>1, <2>2
<1>10. Noted(intents)' BY <1>3, <1>9 DEF PidNotes, Noted
<1>11. (file # NoRecord => Noted(file))'
  <2>1. file' \in {file, kept} BY <1>2 DEF Persist
  <2> QED BY <1>8, <2>1 DEF PidNotes, Noted
<1>12. \A k \in bootPids' : intents'[k].pid # 0 BY <1>0, <1>2, <1>3 DEF PidNotes, TypeParts
<1> QED BY <1>10, <1>11, <1>12 DEF PidNotes

LEMMA ReportNotes ==
  ASSUME IInv, PidNotes, NEW j \in DOMAIN jobs, ReportPid(j)
  PROVE  PidNotes'
<1>0. TypeParts BY DEF IInv
<1>1. j.phase = "spawned" /\ bootPids' = bootPids BY DEF ReportPid
<1>2. j.key \in Keys /\ j.key \notin bootPids
  BY <1>0, <1>1 DEF IInv, TypeParts, Job, JobsOK, SurvivorsOK
<1>3. CASE TakesPid(j.key)
  <2> DEFINE new == [intents[j.key] EXCEPT !.pid = j.pid]
  <2>1. intents' = [intents EXCEPT ![j.key] = new] /\ Persist(intents') BY <1>3 DEF ReportPid
  <2>2. intents \in [Keys -> Intent \cup {None}] BY <1>0 DEF TypeParts, Record
  <2>3. intents[j.key] \in Intent /\ intents[j.key].status = "dispatching"
    BY <1>2, <1>3, <2>2, NoneIs DEF TakesPid
  <2>4. new.status = "dispatching" BY <2>3 DEF Intent
  <2> HIDE DEF new
  <2>5. intents'[j.key] = new /\ \A l \in Keys : l # j.key => intents'[l] = intents[l] BY <1>2, <2>1, <2>2
  <2>6. \A l \in Keys : intents'[l].pid # 0 => intents'[l].status = "dispatching"
    BY <2>4, <2>5 DEF PidNotes, Noted
  <2>7. (file # NoRecord => Noted(file))' BY <2>1, <2>6, PersistNotes DEF PidNotes, Noted
  <2>8. \A l \in bootPids' : intents'[l].pid # 0 BY <1>0, <1>1, <1>2, <2>5 DEF PidNotes, TypeParts
  <2> QED BY <2>6, <2>7, <2>8 DEF PidNotes, Noted
<1>4. CASE ~TakesPid(j.key)
  <2>1. UNCHANGED <<intents, file>> BY <1>4 DEF ReportPid
  <2> QED BY <1>1, <2>1 DEF PidNotes, Noted
<1> QED BY <1>3, <1>4

LEMMA NotesKept ==
  ASSUME PidNotes, UNCHANGED <<intents, file, bootPids>>
  PROVE  PidNotes'
  BY DEF PidNotes, Noted

LEMMA NotesStep ==
  ASSUME IInv, PidNotes, [Next]_vars
  PROVE  PidNotes'
<1>0. TypeParts BY DEF IInv
<1>1. ASSUME NEW k \in Keys, NEW kind \in {"trigger", "mention"}, DeferEvent(k, kind) PROVE PidNotes'
  BY <1>1, AddNotes DEF DeferEvent, Defer
<1>2. ASSUME NEW k \in Keys, Cancel(k) PROVE PidNotes'
  <2>1. /\ intents' = [intents EXCEPT ![k] = None] /\ bootPids' = IF k \in Held THEN bootPids \ {k} ELSE bootPids
        /\ Persist(intents') \/ UNCHANGED file
    BY <1>2 DEF Cancel
  <2>2. k \notin Held => k \notin bootPids BY NoneIs DEF PidNotes, Held
  <2> QED BY <2>1, <2>2, RemoveNotes
<1>3. ASSUME NEW j \in DOMAIN jobs, ReplayDeferred(j) PROVE PidNotes'
  <2>1. j.phase = "gate" BY <1>3 DEF ReplayDeferred
  <2>2. j.key \in Keys /\ j.kind \in {"trigger", "mention"}
    BY <1>0, <2>1 DEF TypeParts, Job, IInv, JobsOK, IsReplay
  <2> QED BY <1>3, <2>2, AddNotes DEF ReplayDeferred, Defer
<1>4. ASSUME NEW j \in DOMAIN jobs, AckIntent(j) PROVE PidNotes'
  <2>1. j.key \in Keys BY <1>0 DEF TypeParts, Job
  <2>2. /\ intents' = [intents EXCEPT ![j.key] = None] /\ bootPids' = bootPids \ {j.key}
        /\ Persist(intents') \/ Persist(NoRecord)
    BY <1>4 DEF AckIntent
  <2> QED BY <2>1, <2>2, RemoveNotes
<1>5. ASSUME NEW h \in live, HitLimit(h) PROVE PidNotes'
  <2>1. h.key \in Keys BY <1>0 DEF TypeParts, Harness
  <2>2. CASE h.key \in raws BY <1>5, <2>1, <2>2, AddNotes DEF HitLimit
  <2>3. CASE h.key \notin raws
    <3>1. UNCHANGED <<intents, bootPids>> /\ Persist(intents') BY <1>5, <2>3 DEF HitLimit
    <3>2. Persist(intents) BY <3>1 DEF Persist
    <3>3. (file # NoRecord => Noted(file))' BY <3>2, PersistNotes DEF PidNotes
    <3> QED BY <3>1, <3>3 DEF PidNotes, Noted
  <2> QED BY <2>2, <2>3
<1>6. CASE OtherLimit
  <2>1. UNCHANGED <<intents, bootPids>> /\ Persist(intents) BY <1>6 DEF OtherLimit
  <2>2. (file # NoRecord => Noted(file))' BY <2>1, PersistNotes DEF PidNotes
  <2> QED BY <2>1, <2>2 DEF PidNotes, Noted
<1>7. CASE Crash
  <2>1. /\ intents' = IF file = NoRecord THEN EmptyRecord ELSE file
        /\ bootPids' = {k \in Keys : intents'[k].status = "dispatching" /\ intents'[k].pid # 0} /\ file' = file
    BY <1>7 DEF Crash
  <2>2. Noted(EmptyRecord) BY EmptyIs, NoneIs DEF Noted
  <2>3. Noted(intents)' BY <2>1, <2>2 DEF PidNotes, Noted
  <2> QED BY <2>1, <2>3 DEF PidNotes, Noted
<1>8. ASSUME NEW k \in Keys, EventStep(k) \/ ReplayStep(k) PROVE PidNotes'
  <2>1. CASE EventStep(k) BY <2>1, NotesKept DEF EventStep, SpawnEvent, store
  <2>2. CASE ReplayStep(k)
    <3>1. PICK j \in DOMAIN jobs :
            ReplayDeferred(j) \/ ReplayDropped(j) \/ ReplayAdmitted(j) \/ ReplaySpawns(j)
            \/ ReplayThrows(j) \/ ReportPid(j) \/ AckIntent(j)
      BY <2>2 DEF ReplayStep, JobsOf, BagToSet
    <3>2. CASE ReplayDropped(j) \/ ReplayAdmitted(j) \/ ReplaySpawns(j) \/ ReplayThrows(j)
      BY <3>2, NotesKept DEF ReplayDropped, ReplayAdmitted, ReplaySpawns, ReplayThrows, store
    <3> QED BY <1>3, <1>4, <3>1, <3>2, ReportNotes
  <2> QED BY <1>8, <2>1, <2>2
<1>9. ASSUME NEW k \in Keys, NEW kind \in {"trigger", "mention"}, DispatchEvent(k, kind) PROVE PidNotes'
  BY <1>9, NotesKept DEF DispatchEvent, store
<1>10. ASSUME NEW h \in live, Exit(h) \/ Sigkill(h) PROVE PidNotes'
  BY <1>10, NotesKept DEF Exit, Sigkill, store
<1>11. CASE Elapse \/ UNCHANGED vars
  BY <1>11, NotesKept DEF Elapse, vars, store
<1> QED BY <1>1, <1>2, <1>5, <1>6, <1>7, <1>8, <1>9, <1>10, <1>11, FireNotes DEF Next

\* The invariant holds of every state the agent manager reaches.
THEOREM Inductive == Spec => [](IInv /\ PidNotes)
<1>1. Init => IInv /\ PidNotes
  <2> SUFFICES ASSUME Init PROVE IInv /\ PidNotes OBVIOUS
  <2>1. PidNotes BY EmptyIs, NoneIs DEF Init, PidNotes, Noted
  <2> QED BY <2>1, InitInv
<1>2. IInv /\ PidNotes /\ [Next]_vars => (IInv /\ PidNotes)' BY NextInv, NotesStep
<1> QED BY <1>1, <1>2, PTL DEF Spec

\* Type correctness of the store, its file and the handlers; and a pid is kept
\* with an intent only while its replay is under way, also across a crash.
THEOREM TypeCorrect == Spec => []TypeOK
<1>1. IInv /\ PidNotes => TypeOK BY TypeIs DEF IInv
<1> QED BY <1>1, Inductive, PTL

\* Work that was deferred stays in memory and on disk until a handler has taken
\* it on, whatever crashes in between, unless it was deferred over its own
\* running replay or a write failed (addPendingIntent, #fire, #ackIntent, load).
THEOREM DeferredStaysStored == Spec => []LostOnlyIfOvertaken
<1>1. IInv => LostOnlyIfOvertaken
  <2> SUFFICES ASSUME IInv, ~failed, NEW k \in owed \ overtaken
               PROVE  k \in Held /\ file # NoRecord /\ file[k] # None
    BY DEF LostOnlyIfOvertaken
  <2>0. TypeParts BY TypeIs DEF IInv
  <2>1. k \in Held /\ k \in Keys /\ intents[k] # None BY DEF IInv, OwedOK, Held
  <2>2. window # "none" BY <2>0, <2>1, HeldIs
  <2>3. file \in Record /\ file[k] # None BY <2>1, <2>2 DEF IInv, FileOK
  <2>4. DOMAIN file = Keys BY <2>3 DEF Record
  <2>5. DOMAIN NoRecord = {} BY DEF NoRecord
  <2> QED BY <2>1, <2>3, <2>4, <2>5
<1> QED BY <1>1, Inductive, PTL

\* Of the processes that replays of a key spawned, not counting survivors of a
\* crash that no intent names, at most one was not told to end: the survivor is
\* named by its intent, and #replayOne signals it before the handler can ask for
\* the seat.  That it has ended by then is not promised.
THEOREM ReplayedAloneUnlessTold == Spec => []NoTwin
<1>1. IInv => NoTwin
  <2> SUFFICES ASSUME IInv, NEW g \in live, NEW h \in live, g.replay, h.replay, g.key = h.key,
                      g.pid \notin loose, h.pid \notin loose, g.sig = "none", h.sig = "none"
               PROVE  g = h
    BY DEF NoTwin
  <2>1. CASE g.mine /\ h.mine BY <2>1 DEF IInv, SeatsOK
  <2>2. CASE ~g.mine /\ ~h.mine
    <3>1. g.pid = h.pid BY <2>2 DEF IInv, SurvivorsOK
    <3> QED BY <3>1 DEF IInv, PidsOK
  <2>3. CASE g.mine /\ ~h.mine BY <2>3 DEF IInv, SurvivorsOK
  <2>4. CASE ~g.mine /\ h.mine BY <2>4 DEF IInv, SurvivorsOK
  <2> QED BY <2>1, <2>2, <2>3, <2>4
<1> QED BY <1>1, Inductive, PTL
=============================================================================

------------------------ MODULE PrerequisitesProofs ------------------------
(* Proofs about Prerequisites, for any number of tickets and of            *)
(* overlapping callers.  Each result names the meetings of two callers     *)
(* that could break it, and no other assumption.                           *)
EXTENDS Prerequisites, TLAPS

-----------------------------------------------------------------------------
(* Facts about links and flags.                                            *)

LEMMA PrereqIs ==
  ASSUME NEW ls \in SUBSET (Tickets \X Tickets), NEW t, NEW p
  PROVE  p \in PrereqsOf(t, ls) <=> <<t, p>> \in ls
<1>1. ASSUME p \in PrereqsOf(t, ls) PROVE <<t, p>> \in ls
  <2>1. PICK l \in ls : l[1] = t /\ l[2] = p BY <1>1 DEF PrereqsOf
  <2> QED BY <2>1
<1>2. ASSUME <<t, p>> \in ls PROVE p \in PrereqsOf(t, ls)
  <2>1. <<t, p>>[1] = t /\ <<t, p>>[2] = p OBVIOUS
  <2> QED BY <1>2, <2>1 DEF PrereqsOf
<1> QED BY <1>1, <1>2

LEMMA DependentIs ==
  ASSUME NEW ls \in SUBSET (Tickets \X Tickets), NEW t, NEW p
  PROVE  t \in DependentsOf(p, ls) <=> <<t, p>> \in ls
<1>1. ASSUME t \in DependentsOf(p, ls) PROVE <<t, p>> \in ls
  <2>1. PICK l \in ls : l[1] = t /\ l[2] = p BY <1>1 DEF DependentsOf
  <2> QED BY <2>1
<1>2. ASSUME <<t, p>> \in ls PROVE t \in DependentsOf(p, ls)
  <2>1. <<t, p>>[1] = t /\ <<t, p>>[2] = p OBVIOUS
  <2> QED BY <1>2, <2>1 DEF DependentsOf
<1> QED BY <1>1, <1>2

\* A guarded write of the flag of tickets whose flag is as it was read.
LEMMA FlagWriteIs ==
  ASSUME NEW ts, NEW next, next \subseteq ts
  PROVE  FlagWrite(parked \cap ts, next, ts) = (parked \ ts) \cup next
  BY DEF FlagWrite

-----------------------------------------------------------------------------
(* Types.                                                                  *)

LEMMA IdleIs ==
  /\ Idle \in JobState /\ Idle.at = "idle" /\ Idle.t = {} /\ Idle.ps = {} /\ Idle.seen = {}
  /\ Idle.was = {} /\ Idle.open = {} /\ Idle.left = {} /\ Idle.flips = {}
  BY DEF Idle, JobState

\* The add transaction sets no flag but its dependent's.
OwnFlag == \A j \in Jobs : job[j].at = "commit" => job[j].open \subseteq job[j].t
TInv == TypeOK /\ OwnFlag

\* The job after the read of a dependent d.
LEMMA EvaluatingType ==
  ASSUME TypeOK, NEW j \in Jobs, NEW d \in Tickets, NEW seen \in SUBSET Tickets, NEW left \in SUBSET Tickets,
         NEW x, x = Evaluating(j, d, seen, left)
  PROVE  x \in JobState /\ x.at = "write"
<1>1. job[j] \in JobState BY DEF TypeOK
<1>2. parked \cap {d} \in SUBSET Tickets /\ {y \in {d} \cap exists : AnyPrereqOpen(y, links)} \in SUBSET Tickets
  BY DEF TypeOK
<1> QED BY <1>1, <1>2 DEF Evaluating, JobState

LEMMA JobFields ==
  ASSUME TypeOK, NEW j \in Jobs
  PROVE  /\ job[j] \in JobState
         /\ {job[j].t, job[j].ps, job[j].seen, job[j].was, job[j].open, job[j].left, job[j].flips}
              \subseteq SUBSET Tickets
  BY DEF TypeOK, JobState

\* Each step of a job leaves it in one of these states.
LEMMA NextJob ==
  ASSUME TypeOK, NEW j \in Jobs, Step(j)
  PROVE  \E x \in JobState :
           job' = [job EXCEPT ![j] = x] /\ (x.at = "commit" => x.open \subseteq x.t)
<1> DEFINE Becomes(x) == job' = [job EXCEPT ![j] = x] /\ (x.at = "commit" => x.open \subseteq x.t)
           Goal == \E x \in JobState : Becomes(x)
<1> USE DEF Become, EndJob
<1>0. job \in [Jobs -> JobState] /\ job[j] \in JobState BY DEF TypeOK
<1>1. ASSUME NEW x \in JobState, job' = [job EXCEPT ![j] = x], x.at # "commit" PROVE Goal
  BY <1>1
<1>2. ASSUME NEW t \in Tickets, NEW ps \in SUBSET Tickets, AddValidate(j, t, ps) PROVE Goal
  <2> DEFINE x == [Idle EXCEPT !.at = "cycle", !.t = {t}, !.ps = ps, !.was = parked \cap {t}]
  <2>1. x \in JobState /\ x.at = "cycle" BY DEF Idle, JobState
  <2>2. job' = [job EXCEPT ![j] = x] BY <1>2 DEF AddValidate
  <2> HIDE DEF x, Goal
  <2> QED BY <1>1, <2>1, <2>2
<1>3. CASE AddCheckCycle(j)
  <2> DEFINE x == [job[j] EXCEPT !.at = "insert"]
  <2>1. x \in JobState /\ x.at = "insert" BY <1>0 DEF JobState
  <2>2. job' = [job EXCEPT ![j] = x] \/ job' = [job EXCEPT ![j] = Idle] BY <1>3 DEF AddCheckCycle
  <2> HIDE DEF x, Goal
  <2> QED BY <1>1, <2>1, <2>2, IdleIs
<1>4. CASE AddEvaluate(j)
  <2> DEFINE os == {t \in job[j].t : AnyPrereqOpen(t, links \cup NewLinks(j))}
             x == [job[j] EXCEPT !.at = "commit", !.open = os]
  <2>1. os \in SUBSET Tickets /\ os \subseteq job[j].t BY <1>0 DEF JobState
  <2> HIDE DEF os
  <2>2. x \in JobState /\ x.open = os /\ x.t = job[j].t BY <1>0, <2>1 DEF JobState
  <2>3. job' = [job EXCEPT ![j] = x] BY <1>4 DEF AddEvaluate, os
  <2> QED BY <2>1, <2>2, <2>3
<1>5. CASE AddCommit(j) \/ EvaluateEnd(j)
  <2>1. job' = [job EXCEPT ![j] = Idle] BY <1>5 DEF AddCommit, EvaluateEnd
  <2> HIDE DEF Goal
  <2> QED BY <1>1, <2>1, IdleIs
<1>6. ASSUME NEW t \in Tickets, NEW p \in Tickets, RemoveLink(j, t, p) PROVE Goal
  <2> DEFINE x == [Idle EXCEPT !.at = "removed", !.ps = {t}, !.seen = parked \cap {t}]
  <2>1. x \in JobState /\ x.at = "removed" BY DEF Idle, JobState
  <2>2. job' = [job EXCEPT ![j] = x] BY <1>6 DEF RemoveLink
  <2> HIDE DEF x, Goal
  <2> QED BY <1>1, <2>1, <2>2
<1>7. ASSUME NEW p \in Tickets, DoneHook(j, p) \/ DeleteStart(j, p) PROVE Goal
  <2> DEFINE x == [Idle EXCEPT !.at = "next", !.left = Reached(p)]
             y == [Idle EXCEPT !.at = "next", !.t = {p}, !.left = DependentsOf(p, links)]
  <2>1. DependentsOf(p, links) \in SUBSET Tickets BY DEF DependentsOf, TypeOK
  <2>2. x \in JobState /\ x.at = "next" /\ y \in JobState /\ y.at = "next"
    BY <2>1 DEF Idle, JobState, Reached
  <2>3. \/ job' = [job EXCEPT ![j] = x] \/ job' = [job EXCEPT ![j] = y]
        \/ job[j].at = "idle" /\ job' = [job EXCEPT ![j] = job[j]]
    BY <1>0, <1>7 DEF DoneHook, DeleteStart
  <2> HIDE DEF x, y, Goal
  <2> QED BY <1>0, <1>1, <2>2, <2>3
<1>8. CASE RemoveEvaluate(j)
  <2>1. PICK d \in job[j].ps : job' = [job EXCEPT ![j] = Evaluating(j, d, job[j].seen, {})]
    BY <1>8 DEF RemoveEvaluate
  <2>2. d \in Tickets /\ job[j].seen \in SUBSET Tickets /\ {} \in SUBSET Tickets BY JobFields
  <2>3. PICK x : x = Evaluating(j, d, job[j].seen, {}) OBVIOUS
  <2>4. x \in JobState /\ x.at = "write" BY <2>2, <2>3, EvaluatingType
  <2>5. job' = [job EXCEPT ![j] = x] BY <2>1, <2>3
  <2> HIDE DEF Goal
  <2> QED BY <1>1, <2>4, <2>5
<1>9. CASE EvaluateRead(j)
  <2>1. PICK d \in job[j].left : job' = [job EXCEPT ![j] = Evaluating(j, d, parked \cap {d}, job[j].left \ {d})]
    BY <1>9 DEF EvaluateRead
  <2>2. d \in Tickets /\ job[j].left \ {d} \in SUBSET Tickets /\ parked \cap {d} \in SUBSET Tickets
    BY JobFields
  <2>3. PICK x : x = Evaluating(j, d, parked \cap {d}, job[j].left \ {d}) OBVIOUS
  <2>4. x \in JobState /\ x.at = "write" BY <2>2, <2>3, EvaluatingType
  <2>5. job' = [job EXCEPT ![j] = x] BY <2>1, <2>3
  <2> HIDE DEF Goal
  <2> QED BY <1>1, <2>4, <2>5
<1>10. CASE EvaluateWrite(j)
  <2> DEFINE x == [job[j] EXCEPT !.at = "next", !.ps = {}, !.seen = {}, !.was = {}, !.open = {},
                    !.flips = @ \cup Flipped(j)]
  <2>1. Flipped(j) \in SUBSET Tickets BY JobFields DEF Flipped
  <2>2. x \in JobState /\ x.at = "next" BY <1>0, <2>1 DEF JobState
  <2>3. job' = [job EXCEPT ![j] = x] BY <1>10 DEF EvaluateWrite
  <2> HIDE DEF x, Goal
  <2> QED BY <1>1, <2>2, <2>3
<1> QED
  BY <1>2, <1>3, <1>4, <1>5, <1>6, <1>7, <1>8, <1>9, <1>10 DEF Step

LEMMA TypeStep == TInv /\ [NextOverlap]_vars => TInv'
<1> SUFFICES ASSUME TInv, [NextOverlap]_vars PROVE TInv' OBVIOUS
<1>0. TypeOK /\ OwnFlag BY DEF TInv
<1>1. ASSUME NEW j \in Jobs, Step(j) PROVE TInv'
  <2>1. PICK x \in JobState : job' = [job EXCEPT ![j] = x] /\ (x.at = "commit" => x.open \subseteq x.t)
    BY <1>0, <1>1, NextJob
  <2>2. job' \in [Jobs -> JobState] /\ OwnFlag' BY <1>0, <2>1 DEF TypeOK, OwnFlag
  <2>3. CASE AddCommit(j)
    <3>1. NewLinks(j) \subseteq exists \X exists /\ job[j].t \subseteq exists
      BY <2>3 DEF AddCommit, KeysHold, NewLinks
    <3>2. parked' \subseteq exists BY <1>0, <2>3, <3>1 DEF AddCommit, FlagWrite, TypeOK, OwnFlag
    <3> QED BY <1>0, <2>2, <2>3, <3>1, <3>2 DEF AddCommit, TypeOK, TInv
  <2>4. CASE \/ \E t \in Tickets, ps \in SUBSET Tickets : AddValidate(j, t, ps)
             \/ AddCheckCycle(j) \/ AddEvaluate(j) \/ RemoveEvaluate(j) \/ EvaluateRead(j)
    BY <1>0, <2>2, <2>4 DEF AddValidate, AddCheckCycle, AddEvaluate, RemoveEvaluate, EvaluateRead, TypeOK, TInv
  <2>5. CASE \/ \E t, p \in Tickets : RemoveLink(j, t, p)
             \/ \E p \in Tickets : DoneHook(j, p) \/ DeleteStart(j, p)
    <3>1. links' \subseteq links /\ doneEvents' \subseteq doneEvents
          /\ UNCHANGED <<exists, done, archived, parked, reopened>>
      BY <2>5 DEF RemoveLink, DoneHook, DeleteStart
    <3> QED BY <1>0, <2>2, <3>1 DEF TypeOK, TInv
  <2>6. CASE EvaluateWrite(j)
    BY <1>0, <2>2, <2>6 DEF EvaluateWrite, TypeOK, TInv
  <2>7. CASE EvaluateEnd(j)
    <3>1. links' \subseteq exists' \X exists'
      BY <1>0, <2>7 DEF EvaluateEnd, Cascade, TypeOK
    <3> QED BY <1>0, <2>2, <2>7, <3>1 DEF EvaluateEnd, TypeOK, TInv
  <2> QED BY <1>1, <2>3, <2>4, <2>5, <2>6, <2>7 DEF Step
<1>2. ASSUME NEW t \in Tickets, MoveToDone(t) \/ Reopen(t) \/ Archive(t) \/ Unarchive(t) PROVE TInv'
  BY <1>0, <1>2 DEF MoveToDone, Reopen, Archive, Unarchive, TypeOK, OwnFlag, TInv
<1>3. CASE UNCHANGED vars
  BY <1>0, <1>3 DEF vars, TypeOK, OwnFlag, TInv
<1>4. ASSUME NEW j \in Jobs, AddFails(j) PROVE TInv'
  BY <1>0, <1>4, IdleIs DEF AddFails, EndJob, Become, TypeOK, OwnFlag, TInv
<1> QED BY <1>1, <1>2, <1>3, <1>4 DEF Next, NextOverlap

LEMMA TypeInit == Init => TInv
<1> SUFFICES ASSUME Init PROVE TInv OBVIOUS
<1>1. \A j \in Jobs : job[j] = Idle BY DEF Init
<1> QED BY <1>1, IdleIs DEF Init, TInv, TypeOK, OwnFlag

\* For any number of tickets and of overlapping callers: only existing tickets
\* keep links and flags, whatever is added, removed or deleted in between
\* (the foreign keys and evaluatePendingForDependentScoped).
THEOREM TypeCorrect == Spec => []TypeOK
<1>1. TInv /\ [Next]_vars => TInv' BY TypeStep DEF NextOverlap
<1>2. TInv => TypeOK BY DEF TInv
<1> QED BY <1>1, <1>2, TypeInit, PTL DEF Spec

\* The same when the transaction of an overlapping caller may fail.
THEOREM TypeCorrectOverlap == SpecOverlap => []TypeOK
<1>1. TInv => TypeOK BY DEF TInv
<1> QED BY <1>1, TypeInit, TypeStep, PTL DEF SpecOverlap

-----------------------------------------------------------------------------
(* The flags of overlapping callers.                                       *)

\* The dependents whose flag a job is about to write, and the links by which it
\* judges them.
Target(j) == IF Adds(j) THEN job[j].t ELSE job[j].ps
LinksOf(j) == IF job[j].at = "commit" THEN links \cup NewLinks(j) ELSE links
Judging(j) == job[j].at \in {"commit", "write"}

\* A link to a prerequisite that is open, and always was, parks its dependent.
LinksPark == \A l \in links : l[2] \in OpenTickets \ reopened => l[1] \in parked

\* Nothing that was open all along blocks t.
Free(t, ls) == PrereqsOf(t, ls) \cap OpenTickets \subseteq reopened

\* What a job holds of its dependents is as it was read, and those it judges
\* not blocked are free.
Fresh(j) ==
  /\ (Adds(j) \/ job[j].at = "write") /\ Target(j) \subseteq exists =>
       job[j].was = parked \cap Target(j)
  /\ Judging(j) =>
       /\ job[j].open \subseteq Target(j)
       /\ \A x \in Target(j) \ job[j].open : Free(x, LinksOf(j))

\* A job re-evaluates one dependent at a time, and none twice.
InTurn(j) ==
  /\ job[j].at \in {"removed", "write"} => job[j].seen \subseteq job[j].ps /\ \A d \in job[j].ps : job[j].ps = {d}
  /\ job[j].at = "write" => job[j].flips \cap job[j].ps = {} /\ job[j].left \cap job[j].ps = {}
  /\ job[j].flips \cap job[j].left = {}
  /\ job[j].at \notin {"next", "write"} => job[j].flips = {} /\ job[j].left = {}

FlipsFree(j) == \A t \in job[j].flips : t \notin parked /\ Free(t, links)

FInv == TInv /\ LinksPark /\ \A j \in Jobs : Fresh(j) /\ InTurn(j) /\ FlipsFree(j)

\* A job whose dependents nobody touches keeps what it holds.
LEMMA FreshKept ==
  ASSUME TInv, TInv', NEW i \in Jobs, job'[i] = job[i], Fresh(i), InTurn(i), FlipsFree(i),
         exists' \subseteq exists, OpenTickets' \ reopened' \subseteq OpenTickets \ reopened,
         \A d \in Dependents(i) : (d \in parked' => d \in parked) /\ (d \in parked /\ d \in exists' => d \in parked'),
         \A d \in Dependents(i) : PrereqsOf(d, links') \subseteq PrereqsOf(d, links)
  PROVE  Fresh(i)' /\ InTurn(i)' /\ FlipsFree(i)'
<1>1. /\ Target(i)' = Target(i) /\ Adds(i)' = Adds(i) /\ NewLinks(i)' = NewLinks(i) /\ Judging(i)' = Judging(i)
      /\ Target(i) \subseteq Dependents(i) /\ job[i].flips \subseteq Dependents(i)
  BY DEF Target, Adds, NewLinks, Judging, Dependents
<1>2. \A d \in Dependents(i) : PrereqsOf(d, LinksOf(i)') \subseteq PrereqsOf(d, LinksOf(i))
  <2>1. CASE job[i].at = "commit"
    <3>1. LinksOf(i)' = links' \cup NewLinks(i) /\ LinksOf(i) = links \cup NewLinks(i) BY <1>1, <2>1 DEF LinksOf
    <3>2. ASSUME NEW d \in Dependents(i)
          PROVE  PrereqsOf(d, links' \cup NewLinks(i)) \subseteq PrereqsOf(d, links \cup NewLinks(i))
      <4>1. PrereqsOf(d, links') \subseteq PrereqsOf(d, links) OBVIOUS
      <4> QED BY <4>1 DEF PrereqsOf
    <3> QED BY <3>1, <3>2
  <2>2. CASE job[i].at # "commit"
    <3>1. LinksOf(i)' = links' /\ LinksOf(i) = links BY <2>2 DEF LinksOf
    <3> QED BY <3>1
  <2> QED BY <2>1, <2>2
<1>3. \A d, ls, ms : PrereqsOf(d, ms) \subseteq PrereqsOf(d, ls) /\ Free(d, ls) =>
        PrereqsOf(d, ms) \cap OpenTickets' \subseteq reopened'
  BY DEF Free
<1>4. \A d \in Dependents(i) : Free(d, LinksOf(i)) => Free(d, LinksOf(i))' BY <1>2, <1>3 DEF Free
<1>5. \A d \in Dependents(i) : Free(d, links) => Free(d, links)' BY <1>3 DEF Free
<1>6. ASSUME Adds(i) \/ job[i].at = "write", Target(i) \subseteq exists' PROVE job[i].was = parked' \cap Target(i)
  <2>1. job[i].was = parked \cap Target(i) BY <1>6 DEF Fresh
  <2> QED BY <1>1, <1>6, <2>1
<1>7. Fresh(i)'
  <2>1. Judging(i) => /\ job[i].open \subseteq Target(i)
                      /\ \A x \in Target(i) \ job[i].open : Free(x, LinksOf(i))'
    BY <1>1, <1>4 DEF Fresh
  <2> QED BY <1>1, <1>6, <2>1 DEF Fresh
<1>8. InTurn(i)' BY DEF InTurn
<1>9. FlipsFree(i)' BY <1>1, <1>5 DEF FlipsFree
<1> QED BY <1>7, <1>8, <1>9

\* A step of job j, which leaves the dependents of every other job alone.
LEMMA FreshStep ==
  ASSUME FInv, TInv', NEW j \in Jobs, NEW y \in JobState, job' = [job EXCEPT ![j] = y],
         exists' \subseteq exists, OpenTickets' \ reopened' \subseteq OpenTickets \ reopened,
         \A i \in Jobs : i # j =>
           \A d \in Dependents(i) :
             /\ d \in parked' => d \in parked
             /\ d \in parked /\ d \in exists' => d \in parked'
             /\ PrereqsOf(d, links') \subseteq PrereqsOf(d, links),
         LinksPark', Fresh(j)', InTurn(j)', FlipsFree(j)'
  PROVE  FInv'
<1>1. ASSUME NEW i \in Jobs, i # j PROVE Fresh(i)' /\ InTurn(i)' /\ FlipsFree(i)'
  <2>1. job'[i] = job[i] BY <1>1 DEF FInv, TInv, TypeOK
  <2>2. TInv /\ Fresh(i) /\ InTurn(i) /\ FlipsFree(i) BY DEF FInv
  <2>3. \A d \in Dependents(i) : (d \in parked' => d \in parked) /\ (d \in parked /\ d \in exists' => d \in parked')
    BY <1>1
  <2>4. \A d \in Dependents(i) : PrereqsOf(d, links') \subseteq PrereqsOf(d, links) BY <1>1
  <2> QED BY <2>1, <2>2, <2>3, <2>4, FreshKept
<1> QED BY <1>1 DEF FInv

\* A step that writes no link, flag or job, and lets no ticket be open that
\* never was reopened.
LEMMA FreshMoves ==
  ASSUME FInv, TInv', UNCHANGED <<exists, links, parked, job>>,
         OpenTickets' \ reopened' \subseteq OpenTickets \ reopened
  PROVE  FInv'
<1>1. LinksPark' BY DEF FInv, LinksPark
<1>2. ASSUME NEW i \in Jobs PROVE Fresh(i)' /\ InTurn(i)' /\ FlipsFree(i)'
  BY FreshKept DEF FInv
<1> QED BY <1>1, <1>2 DEF FInv

LEMMA MoversFresh ==
  ASSUME FInv, TInv', NEW t \in Tickets, MoveToDone(t) \/ Reopen(t) \/ Archive(t) \/ Unarchive(t)
  PROVE  FInv'
<1>1. UNCHANGED <<exists, links, parked, job>> BY DEF MoveToDone, Reopen, Archive, Unarchive
<1>2. OpenTickets' \ reopened' \subseteq OpenTickets \ reopened
  BY DEF MoveToDone, Reopen, Archive, Unarchive, OpenTickets
<1> QED BY <1>1, <1>2, FreshMoves

\* What AnyPrereqOpen has just read as not open is free.
LEMMA JudgedFree ==
  ASSUME NEW ts, NEW ls
  PROVE  \A x \in ts \ {t \in ts : AnyPrereqOpen(t, ls)} : Free(x, ls)
  BY DEF AnyPrereqOpen, Free

\* A job only reads.
LEMMA ReadsFresh ==
  ASSUME FInv, TInv', NEW j \in Jobs, NEW y \in JobState, job' = [job EXCEPT ![j] = y],
         UNCHANGED <<exists, done, archived, links, parked, reopened>>,
         y.flips \subseteq job[j].flips, Fresh(j)', InTurn(j)'
  PROVE  FInv'
<1>1. OpenTickets' = OpenTickets BY DEF OpenTickets
<1>2. LinksPark' BY <1>1 DEF FInv, LinksPark
<1>3. job'[j] = y BY DEF FInv, TInv, TypeOK
<1>4. FlipsFree(j)' BY <1>1, <1>3 DEF FInv, FlipsFree, Free
<1> QED BY <1>1, <1>2, <1>4, FreshStep

LEMMA AddReadsFresh ==
  ASSUME FInv, TInv', NEW j \in Jobs,
         \/ \E t \in Tickets, ps \in SUBSET Tickets : AddValidate(j, t, ps)
         \/ AddCheckCycle(j) \/ AddEvaluate(j) \/ AddFails(j)
  PROVE  FInv'
<1> USE DEF Become, EndJob
<1>0. /\ TypeOK /\ job \in [Jobs -> JobState] /\ job[j] \in JobState /\ Fresh(j) /\ InTurn(j)
      /\ UNCHANGED <<exists, done, archived, links, parked, reopened>>
  BY DEF FInv, TInv, TypeOK, AddValidate, AddCheckCycle, AddEvaluate, AddFails
<1>1. job[j].left = {} /\ job[j].flips = {}
  BY <1>0 DEF InTurn, AddValidate, AddCheckCycle, AddEvaluate, AddFails
<1>2. ASSUME NEW y \in JobState, job' = [job EXCEPT ![j] = y], y.at \in {"idle", "cycle", "insert", "commit"},
             y.flips = {}, y.left = {},
             y.at # "idle" /\ y.t \subseteq exists => y.was = parked \cap y.t,
             y.at = "commit" => y.open \subseteq y.t /\ \A x \in y.t \ y.open : Free(x, links \cup (y.t \X y.ps))
      PROVE  FInv'
  <2>1. job'[j] = y BY <1>0, <1>2
  <2>2. OpenTickets' = OpenTickets BY <1>0 DEF OpenTickets
  <2>3. Adds(j)' = (y.at # "idle") /\ (y.at # "idle" => Target(j)' = y.t) /\ Judging(j)' = (y.at = "commit")
        /\ (y.at = "commit" => LinksOf(j)' = links \cup (y.t \X y.ps))
    BY <1>0, <1>2, <2>1 DEF Adds, Target, Judging, LinksOf, NewLinks
  <2>4. Fresh(j)' BY <1>0, <1>2, <2>1, <2>2, <2>3 DEF Fresh, Free
  <2>5. InTurn(j)' BY <1>2, <2>1 DEF InTurn
  <2>6. y.flips \subseteq job[j].flips BY <1>2
  <2> QED BY <1>0, <1>2, <2>4, <2>5, <2>6, ReadsFresh
<1>3. ASSUME NEW t \in Tickets, NEW ps \in SUBSET Tickets, AddValidate(j, t, ps) PROVE FInv'
  <2> DEFINE y == [Idle EXCEPT !.at = "cycle", !.t = {t}, !.ps = ps, !.was = parked \cap {t}]
  <2>1. /\ y \in JobState /\ y.at = "cycle" /\ y.flips = {} /\ y.left = {} /\ y.was = parked \cap y.t
    BY DEF Idle, JobState
  <2>2. job' = [job EXCEPT ![j] = y] BY <1>3 DEF AddValidate
  <2> HIDE DEF y
  <2> QED BY <1>2, <2>1, <2>2
<1>4. CASE AddCheckCycle(j)
  <2> DEFINE y == [job[j] EXCEPT !.at = "insert"]
  <2>1. y \in JobState /\ y.at = "insert" /\ y.flips = {} /\ y.left = {} /\ y.was = job[j].was /\ y.t = job[j].t
    BY <1>0, <1>1 DEF JobState
  <2>2. job' = [job EXCEPT ![j] = y] \/ job' = [job EXCEPT ![j] = Idle] BY <1>4 DEF AddCheckCycle
  <2> HIDE DEF y
  <2>3. Adds(j) /\ Target(j) = job[j].t BY <1>4 DEF AddCheckCycle, Adds, Target
  <2>4. y.t \subseteq exists => y.was = parked \cap y.t BY <1>0, <2>1, <2>3 DEF Fresh
  <2> QED BY <1>2, <2>1, <2>2, <2>4, IdleIs
<1>5. CASE AddEvaluate(j)
  <2> DEFINE os == {t \in job[j].t : AnyPrereqOpen(t, links \cup NewLinks(j))}
             y == [job[j] EXCEPT !.at = "commit", !.open = os]
  <2>1. os \in SUBSET Tickets /\ os \subseteq job[j].t BY <1>0 DEF JobState
  <2>2. \A x \in job[j].t \ os : Free(x, links \cup NewLinks(j)) BY JudgedFree
  <2> HIDE DEF os
  <2>3. /\ y \in JobState /\ y.at = "commit" /\ y.flips = {} /\ y.left = {} /\ y.was = job[j].was
        /\ y.open = os /\ y.t = job[j].t /\ y.ps = job[j].ps
    BY <1>0, <1>1, <2>1 DEF JobState
  <2>4. job' = [job EXCEPT ![j] = y] BY <1>5 DEF AddEvaluate, os
  <2> HIDE DEF y
  <2>5. Adds(j) /\ Target(j) = job[j].t BY <1>5 DEF AddEvaluate, Adds, Target
  <2>6. y.t \subseteq exists => y.was = parked \cap y.t BY <1>0, <2>3, <2>5 DEF Fresh
  <2> QED BY <1>2, <2>1, <2>2, <2>3, <2>4, <2>6 DEF NewLinks
<1>6. CASE AddFails(j)
  <2>1. job' = [job EXCEPT ![j] = Idle] BY <1>6 DEF AddFails
  <2> QED BY <1>2, <2>1, IdleIs
<1> QED BY <1>3, <1>4, <1>5, <1>6

\* What a re-evaluating job holds once it has read dependent d.
HasRead(y, j, d, seen, left) ==
  /\ y \in JobState /\ y.at = "write" /\ y.t = job[j].t /\ y.ps = {d} /\ y.seen = seen
  /\ y.was = parked \cap {d} /\ y.left = left /\ y.flips = job[j].flips
  /\ y.open \subseteq {d} \cap exists /\ (d \in y.open <=> PrereqsOf(d, links) \cap OpenTickets # {})

LEMMA EvaluatingIs ==
  ASSUME TypeOK, NEW j \in Jobs, NEW d \in Tickets, NEW seen \in SUBSET Tickets, NEW left \in SUBSET Tickets,
         NEW y, y = Evaluating(j, d, seen, left)
  PROVE  HasRead(y, j, d, seen, left)
<1>1. job[j] \in JobState BY DEF TypeOK
<1>2. AnyPrereqOpen(d, links) => d \in exists BY DEF AnyPrereqOpen, PrereqsOf, TypeOK
<1>3. PICK os \in SUBSET Tickets : os = {x \in {d} \cap exists : AnyPrereqOpen(x, links)} BY DEF TypeOK
<1>4. os \subseteq {d} \cap exists /\ (d \in os <=> AnyPrereqOpen(d, links)) BY <1>2, <1>3
<1>5. y = [job[j] EXCEPT !.at = "write", !.ps = {d}, !.seen = seen, !.left = left,
             !.was = parked \cap {d}, !.open = os]
  BY <1>3 DEF Evaluating
<1>6. /\ y \in JobState /\ y.at = "write" /\ y.t = job[j].t /\ y.ps = {d} /\ y.seen = seen
      /\ y.was = parked \cap {d} /\ y.open = os /\ y.left = left /\ y.flips = job[j].flips
  <2>1. parked \cap {d} \in SUBSET Tickets /\ {d} \in SUBSET Tickets OBVIOUS
  <2>2. y \in JobState BY <1>1, <1>5, <2>1 DEF JobState
  <2>3. y.at = "write" /\ y.t = job[j].t /\ y.ps = {d} /\ y.seen = seen BY <1>1, <1>5 DEF JobState
  <2>4. y.was = parked \cap {d} /\ y.open = os BY <1>1, <1>5 DEF JobState
  <2>5. y.left = left /\ y.flips = job[j].flips BY <1>1, <1>5 DEF JobState
  <2> QED BY <2>2, <2>3, <2>4, <2>5
<1> QED BY <1>4, <1>6 DEF AnyPrereqOpen, HasRead

\* The dependent that a job reads, with those left: from the removal of a link
\* or from its list.
LEMMA ReadsOne ==
  ASSUME TypeOK, NEW j \in Jobs, InTurn(j), RemoveEvaluate(j) \/ EvaluateRead(j)
  PROVE  \E d \in Tickets, seen \in SUBSET Tickets, left \in SUBSET Tickets :
           /\ job' = [job EXCEPT ![j] = Evaluating(j, d, seen, left)]
           /\ job[j].at \in {"removed", "next"}
           /\ seen \subseteq {d} /\ d \notin left /\ d \notin job[j].flips
           /\ left \subseteq job[j].left /\ job[j].left \subseteq left \cup {d}
           /\ job[j].at = "removed" => job[j].ps = {d}
<1> USE DEF Become
<1>1. CASE RemoveEvaluate(j)
  <2>1. PICK d \in job[j].ps : job' = [job EXCEPT ![j] = Evaluating(j, d, job[j].seen, {})]
    BY <1>1 DEF RemoveEvaluate
  <2>2. d \in Tickets /\ job[j].seen \in SUBSET Tickets /\ {} \in SUBSET Tickets BY JobFields
  <2>3. job[j].at = "removed" /\ job[j].ps = {d} /\ job[j].seen \subseteq {d}
        /\ job[j].flips = {} /\ job[j].left = {}
    BY <1>1, <2>1 DEF RemoveEvaluate, InTurn
  <2>4. d \notin {} /\ d \notin job[j].flips /\ {} \subseteq job[j].left /\ job[j].left \subseteq {} \cup {d}
        /\ job[j].at \in {"removed", "next"}
    BY <2>3
  <2> QED BY <2>1, <2>2, <2>3, <2>4, Zenon
<1>2. CASE EvaluateRead(j)
  <2>1. PICK d \in job[j].left : job' = [job EXCEPT ![j] = Evaluating(j, d, parked \cap {d}, job[j].left \ {d})]
    BY <1>2 DEF EvaluateRead
  <2>2. PICK seen, left : seen = parked \cap {d} /\ left = job[j].left \ {d} OBVIOUS
  <2>3. job' = [job EXCEPT ![j] = Evaluating(j, d, seen, left)] BY <2>1, <2>2
  <2>4. d \in Tickets /\ left \in SUBSET Tickets /\ seen \in SUBSET Tickets BY <2>2, JobFields
  <2>5. job[j].at = "next" /\ d \notin job[j].flips BY <1>2, <2>1 DEF EvaluateRead, InTurn
  <2>6. /\ seen \subseteq {d} /\ d \notin left /\ left \subseteq job[j].left /\ job[j].left \subseteq left \cup {d}
        /\ job[j].at \in {"removed", "next"} /\ job[j].at # "removed"
    BY <2>2, <2>5
  <2> QED BY <2>3, <2>4, <2>5, <2>6, Zenon
<1> QED BY <1>1, <1>2

LEMMA EvaluateReadsFresh ==
  ASSUME FInv, TInv', NEW j \in Jobs, RemoveEvaluate(j) \/ EvaluateRead(j)
  PROVE  FInv'
<1>0. /\ TypeOK /\ job \in [Jobs -> JobState] /\ InTurn(j)
      /\ UNCHANGED <<exists, done, archived, links, parked, reopened>>
  BY DEF FInv, TInv, TypeOK, RemoveEvaluate, EvaluateRead
<1>1. PICK d \in Tickets, seen \in SUBSET Tickets, left \in SUBSET Tickets :
           /\ job' = [job EXCEPT ![j] = Evaluating(j, d, seen, left)]
           /\ job[j].at \in {"removed", "next"}
           /\ seen \subseteq {d} /\ d \notin left /\ d \notin job[j].flips
           /\ left \subseteq job[j].left /\ job[j].left \subseteq left \cup {d}
  BY <1>0, ReadsOne
<1>2. PICK y : y = Evaluating(j, d, seen, left) OBVIOUS
<1>3. job' = [job EXCEPT ![j] = y] /\ HasRead(y, j, d, seen, left) BY <1>0, <1>1, <1>2, EvaluatingIs
<1>4. job'[j] = y BY <1>0, <1>3
<1>5. OpenTickets' = OpenTickets BY <1>0 DEF OpenTickets
<1>6. Target(j)' = {d} /\ LinksOf(j)' = links BY <1>0, <1>3, <1>4 DEF HasRead, Target, Adds, LinksOf
<1>7. \A x \in {d} \ y.open : Free(x, links) BY <1>3 DEF HasRead, Free
<1>8. \A x \in {d} \ y.open : Free(x, LinksOf(j))' BY <1>0, <1>5, <1>6, <1>7 DEF Free
<1>9. Fresh(j)' BY <1>0, <1>3, <1>4, <1>6, <1>8 DEF HasRead, Fresh
<1>10. InTurn(j)' BY <1>0, <1>1, <1>3, <1>4 DEF HasRead, InTurn
<1>11. y \in JobState /\ y.flips \subseteq job[j].flips BY <1>3 DEF HasRead
<1> QED BY <1>0, <1>3, <1>9, <1>10, <1>11, ReadsFresh

\* The commit of an add: the links and the flag of one dependent, which no
\* other job is at.
LEMMA CommitFresh ==
  ASSUME FInv, TInv', DependentsApart, NEW j \in Jobs, AddCommit(j)
  PROVE  FInv'
<1>0. /\ TypeOK /\ TInv /\ LinksPark /\ Fresh(j) /\ InTurn(j) /\ job' = [job EXCEPT ![j] = Idle] /\ job'[j] = Idle
  BY DEF FInv, TInv, TypeOK, AddCommit, EndJob, Become
<1> DEFINE new == links \cup NewLinks(j)
<1>1. Adds(j) /\ Judging(j) /\ Target(j) = job[j].t /\ LinksOf(j) = new /\ job[j].t \subseteq exists
  BY DEF AddCommit, Adds, Judging, Target, LinksOf, KeysHold
<1>2. /\ job[j].open \subseteq job[j].t /\ \A x \in job[j].t \ job[j].open : Free(x, new)
      /\ job[j].was = parked \cap job[j].t
  BY <1>0, <1>1 DEF Fresh
<1>3. parked' = (parked \ job[j].t) \cup job[j].open BY <1>2, FlagWriteIs DEF AddCommit
<1>4. /\ new \in SUBSET (Tickets \X Tickets) /\ links \in SUBSET (Tickets \X Tickets) /\ links' = new
      /\ \A l \in NewLinks(j) : l[1] \in job[j].t
  BY <1>0, JobFields DEF NewLinks, AddCommit, TypeOK
<1> HIDE DEF new
<1>5. OpenTickets' = OpenTickets /\ reopened' = reopened /\ exists' = exists BY DEF OpenTickets, AddCommit
<1>6. LinksPark'
  <2> SUFFICES ASSUME NEW l \in new, l[2] \in OpenTickets \ reopened, l[1] \notin parked' PROVE FALSE
    BY <1>4, <1>5 DEF LinksPark
  <2>1. CASE l[1] \in job[j].t
    <3>1. Free(l[1], new) BY <1>2, <1>3, <2>1
    <3>2. l = <<l[1], l[2]>> BY <1>4
    <3>3. l[2] \in PrereqsOf(l[1], new) BY <1>4, <3>2, PrereqIs
    <3> QED BY <3>1, <3>3 DEF Free
  <2>2. CASE l[1] \notin job[j].t
    <3>1. l \in links BY <1>4, <2>2 DEF new
    <3> QED BY <1>0, <1>3, <2>2, <3>1 DEF LinksPark
  <2> QED BY <2>1, <2>2
<1>7. Fresh(j)' /\ InTurn(j)' /\ FlipsFree(j)'
  BY <1>0, IdleIs DEF Fresh, InTurn, FlipsFree, Adds, Judging
<1>8. ASSUME NEW i \in Jobs, i # j, NEW d \in Dependents(i)
      PROVE  (d \in parked' <=> d \in parked) /\ PrereqsOf(d, links') \subseteq PrereqsOf(d, links)
  <2>1. d \notin job[j].t BY <1>1, <1>8 DEF DependentsApart, Dependents
  <2>2. PrereqsOf(d, links') \subseteq PrereqsOf(d, links) BY <1>4, <2>1 DEF PrereqsOf, new
  <2> QED BY <1>2, <1>3, <2>1, <2>2
<1> QED BY <1>0, <1>5, <1>6, <1>7, <1>8, IdleIs, FreshStep

\* A job starts: some links go and no flag changes.
LEMMA StartFresh ==
  ASSUME FInv, TInv', NEW j \in Jobs, NEW y \in JobState, job' = [job EXCEPT ![j] = y],
         UNCHANGED <<exists, done, archived, parked, reopened>>, links' \subseteq links,
         y.at \in {"removed", "next"}, y.flips = {}, y.at = "removed" => y.left = {},
         y.at = "removed" => y.seen \subseteq y.ps /\ \A d \in y.ps : y.ps = {d}
  PROVE  FInv'
<1>1. job'[j] = y BY DEF FInv, TInv, TypeOK
<1>2. OpenTickets' = OpenTickets BY DEF OpenTickets
<1>3. LinksPark' BY <1>2 DEF FInv, LinksPark
<1>4. Fresh(j)' /\ InTurn(j)' /\ FlipsFree(j)' BY <1>1 DEF Fresh, InTurn, FlipsFree, Adds, Judging
<1>5. \A d : PrereqsOf(d, links') \subseteq PrereqsOf(d, links) BY DEF PrereqsOf
<1> QED BY <1>2, <1>3, <1>4, <1>5, FreshStep

\* How each of the callers starts.
Starts(j, y) ==
  /\ y \in JobState /\ job[j].at = "idle" /\ job' = [job EXCEPT ![j] = y]
  /\ UNCHANGED <<exists, done, archived, parked, reopened>>
  /\ y.flips = {} /\ y.at \in {"removed", "next"}
  /\ y.at = "removed" => y.left = {} /\ y.seen \subseteq y.ps /\ \A d \in y.ps : y.ps = {d}

LEMMA RemoveStarts ==
  ASSUME TInv, NEW j \in Jobs, NEW t \in Tickets, NEW p \in Tickets, RemoveLink(j, t, p)
  PROVE  \E y : Starts(j, y) /\ y.at = "removed" /\ y.ps = {t} /\ y.t = {}
<1>1. PICK y : y = [Idle EXCEPT !.at = "removed", !.ps = {t}, !.seen = parked \cap {t}] OBVIOUS
<1>2. /\ y \in JobState /\ y.at = "removed" /\ y.ps = {t} /\ y.seen = parked \cap {t}
      /\ y.flips = {} /\ y.left = {} /\ y.t = {}
  BY <1>1 DEF Idle, JobState
<1>3. /\ job' = [job EXCEPT ![j] = y] /\ job[j].at = "idle"
      /\ UNCHANGED <<exists, done, archived, parked, reopened>>
  BY <1>1 DEF RemoveLink, Become
<1>4. Starts(j, y) BY <1>2, <1>3 DEF Starts
<1> QED BY <1>2, <1>4

LEMMA HookStarts ==
  ASSUME TInv, NEW j \in Jobs, NEW p \in Tickets, DoneHook(j, p), p \in done
  PROVE  \E y : Starts(j, y) /\ y.at = "next" /\ y.ps = {} /\ y.t = {} /\ y.left = DependentsOf(p, links)
<1>0. DependentsOf(p, links) \in SUBSET Tickets BY DEF DependentsOf, TInv, TypeOK
<1>1. PICK y : y = [Idle EXCEPT !.at = "next", !.left = DependentsOf(p, links)] OBVIOUS
<1>2. /\ y \in JobState /\ y.at = "next" /\ y.ps = {} /\ y.flips = {} /\ y.left = DependentsOf(p, links) /\ y.t = {}
  BY <1>0, <1>1 DEF Idle, JobState
<1>3. /\ job' = [job EXCEPT ![j] = y] /\ job[j].at = "idle"
      /\ UNCHANGED <<exists, done, archived, parked, reopened>>
  BY <1>1 DEF DoneHook, Become, Reached
<1>4. Starts(j, y) BY <1>2, <1>3 DEF Starts
<1> QED BY <1>2, <1>4

LEMMA DeleteStarts ==
  ASSUME TInv, NEW j \in Jobs, NEW p \in Tickets, DeleteStart(j, p)
  PROVE  \E y : Starts(j, y) /\ y.at = "next" /\ y.ps = {} /\ y.t = {p} /\ y.left = DependentsOf(p, links)
<1>0. DependentsOf(p, links) \in SUBSET Tickets BY DEF DependentsOf, TInv, TypeOK
<1>1. PICK y : y = [Idle EXCEPT !.at = "next", !.t = {p}, !.left = DependentsOf(p, links)] OBVIOUS
<1>2. /\ y \in JobState /\ y.at = "next" /\ y.ps = {} /\ y.flips = {} /\ y.left = DependentsOf(p, links) /\ y.t = {p}
  BY <1>0, <1>1 DEF Idle, JobState
<1>3. /\ job' = [job EXCEPT ![j] = y] /\ job[j].at = "idle"
      /\ UNCHANGED <<exists, done, archived, parked, reopened>>
  BY <1>1 DEF DeleteStart, Become
<1>4. Starts(j, y) BY <1>2, <1>3 DEF Starts
<1> QED BY <1>2, <1>4

LEMMA StartsFresh ==
  ASSUME FInv, TInv', NEW j \in Jobs,
         (\E t, p \in Tickets : RemoveLink(j, t, p)) \/ \E p \in Tickets : DoneHook(j, p) \/ DeleteStart(j, p)
  PROVE  FInv'
<1>0. TInv /\ links' \subseteq links BY DEF FInv, RemoveLink, DoneHook, DeleteStart
<1>1. ASSUME NEW y, Starts(j, y) PROVE FInv' BY <1>0, <1>1, StartFresh DEF Starts
<1>2. ASSUME NEW p \in Tickets, DoneHook(j, p), p \notin done PROVE FInv'
  <2>1. UNCHANGED <<exists, links, parked, job>> BY <1>2 DEF DoneHook
  <2>2. OpenTickets' \ reopened' \subseteq OpenTickets \ reopened BY <1>2 DEF DoneHook, OpenTickets
  <2> QED BY <2>1, <2>2, FreshMoves
<1> QED BY <1>0, <1>1, <1>2, RemoveStarts, HookStarts, DeleteStarts

\* The flag of one dependent as EvaluateWrite leaves it, and the job.
LEMMA WriteIs ==
  ASSUME FInv, NEW j \in Jobs, EvaluateWrite(j)
  PROVE  /\ \E y \in JobState : /\ job' = [job EXCEPT ![j] = y] /\ job'[j] = y
                                /\ y.at = "next" /\ y.t = job[j].t /\ y.ps = {} /\ y.left = job[j].left
                                /\ y.flips = job[j].flips \cup Flipped(j)
         /\ parked' = ((parked \ job[j].ps) \cup job[j].open) \cap exists
         /\ UNCHANGED <<exists, done, archived, links, doneEvents, reopened>>
         /\ job[j].at = "write" /\ job[j].open \subseteq job[j].ps /\ Dependents(j) = job[j].flips \cup job[j].ps
         /\ \A x \in job[j].ps \ job[j].open : Free(x, links)
<1>0. TypeOK /\ job \in [Jobs -> JobState] /\ job[j] \in JobState /\ Fresh(j) /\ InTurn(j) /\ job[j].at = "write"
  BY DEF FInv, TInv, TypeOK, EvaluateWrite
<1>1. PICK fs : fs = job[j].flips \cup Flipped(j) OBVIOUS
<1>2. fs \in SUBSET Tickets BY <1>0, <1>1, JobFields DEF Flipped
<1>3. PICK y : y = [job[j] EXCEPT !.at = "next", !.ps = {}, !.seen = {}, !.was = {}, !.open = {}, !.flips = fs]
  OBVIOUS
<1>4. /\ y \in JobState /\ y.at = "next" /\ y.t = job[j].t /\ y.ps = {} /\ y.left = job[j].left /\ y.flips = fs
  BY <1>0, <1>2, <1>3 DEF JobState
<1>5. job' = [job EXCEPT ![j] = y] BY <1>1, <1>3 DEF EvaluateWrite, Become
<1>6. job'[j] = y BY <1>0, <1>5
<1>7. ~Adds(j) /\ Target(j) = job[j].ps /\ Judging(j) /\ LinksOf(j) = links
  BY <1>0 DEF Adds, Target, Judging, LinksOf
<1>8. Dependents(j) = job[j].flips \cup job[j].ps BY <1>7 DEF Dependents
<1>9. job[j].open \subseteq job[j].ps /\ \A x \in job[j].ps \ job[j].open : Free(x, links) BY <1>0, <1>7 DEF Fresh
<1>10. parked' = ((parked \ job[j].ps) \cup job[j].open) \cap exists
  <2>1. CASE job[j].ps \subseteq exists
    <3>1. job[j].was = parked \cap job[j].ps BY <1>0, <1>7, <2>1 DEF Fresh
    <3> QED BY <1>9, <3>1, FlagWriteIs DEF EvaluateWrite
  <2>2. CASE ~(job[j].ps \subseteq exists)
    <3>1. PICK d \in job[j].ps : d \notin exists /\ job[j].ps = {d} BY <1>0, <2>2 DEF InTurn
    <3>2. parked \subseteq exists BY <1>0 DEF TypeOK
    <3> QED BY <1>9, <3>1, <3>2 DEF EvaluateWrite, FlagWrite
  <2> QED BY <2>1, <2>2
<1>11. UNCHANGED <<exists, done, archived, links, doneEvents, reopened>> BY DEF EvaluateWrite
<1> QED BY <1>0, <1>1, <1>4, <1>5, <1>6, <1>8, <1>9, <1>10, <1>11

LEMMA WriteFresh ==
  ASSUME FInv, TInv', DependentsApart, NEW j \in Jobs, EvaluateWrite(j)
  PROVE  FInv'
<1>0. TypeOK /\ TInv /\ LinksPark /\ InTurn(j) /\ FlipsFree(j) BY DEF FInv, TInv
<1>1. PICK y \in JobState : /\ job' = [job EXCEPT ![j] = y] /\ job'[j] = y
                            /\ y.at = "next" /\ y.t = job[j].t /\ y.ps = {} /\ y.left = job[j].left
                            /\ y.flips = job[j].flips \cup Flipped(j)
  BY WriteIs
<1>2. /\ parked' = ((parked \ job[j].ps) \cup job[j].open) \cap exists
      /\ UNCHANGED <<exists, done, archived, links, doneEvents, reopened>>
      /\ job[j].at = "write" /\ job[j].open \subseteq job[j].ps /\ Dependents(j) = job[j].flips \cup job[j].ps
      /\ \A x \in job[j].ps \ job[j].open : Free(x, links)
  BY WriteIs
<1>3. /\ job[j].seen \subseteq job[j].ps /\ job[j].flips \cap job[j].ps = {}
      /\ job[j].left \cap job[j].ps = {} /\ job[j].flips \cap job[j].left = {}
  BY <1>0, <1>2 DEF InTurn
<1>4. OpenTickets' = OpenTickets BY <1>2 DEF OpenTickets
<1>5. links \in SUBSET (Tickets \X Tickets) /\ \A l \in links : l[1] \in exists BY <1>0 DEF TypeOK
<1>6. LinksPark'
  <2> SUFFICES ASSUME NEW l \in links, l[2] \in OpenTickets \ reopened, l[1] \notin parked' PROVE FALSE
    BY <1>2, <1>4 DEF LinksPark
  <2>1. l[1] \in job[j].ps \ job[j].open BY <1>0, <1>2, <1>5 DEF LinksPark
  <2>2. Free(l[1], links) BY <1>2, <2>1
  <2>3. l = <<l[1], l[2]>> BY <1>5
  <2>4. l[2] \in PrereqsOf(l[1], links) BY <1>5, <2>3, PrereqIs
  <2> QED BY <2>2, <2>4 DEF Free
<1>7. \A t \in job[j].flips \cup Flipped(j) : t \notin parked' /\ Free(t, links)
  BY <1>0, <1>2, <1>3 DEF FlipsFree, Flipped
<1>8. FlipsFree(j)' BY <1>1, <1>2, <1>4, <1>7 DEF FlipsFree, Free
<1>9. InTurn(j)'
  <2>1. (job[j].flips \cup Flipped(j)) \cap job[j].left = {} BY <1>3 DEF Flipped
  <2> QED BY <1>1, <2>1 DEF InTurn
<1>10. Fresh(j)' BY <1>1 DEF Fresh, Adds, Judging
<1>11. ASSUME NEW i \in Jobs, i # j, NEW d \in Dependents(i)
       PROVE  (d \in parked' => d \in parked) /\ (d \in parked /\ d \in exists' => d \in parked')
  <2>1. d \notin job[j].ps BY <1>2, <1>11 DEF DependentsApart
  <2> QED BY <1>2, <2>1
<1> QED BY <1>1, <1>2, <1>4, <1>6, <1>8, <1>9, <1>10, <1>11, FreshStep

LEMMA EndFresh ==
  ASSUME FInv, TInv', NEW j \in Jobs, EvaluateEnd(j)
  PROVE  FInv'
<1>0. TypeOK /\ LinksPark /\ job' = [job EXCEPT ![j] = Idle] /\ job'[j] = Idle
  BY DEF FInv, TInv, TypeOK, EvaluateEnd, EndJob, Become
<1>1. OpenTickets' \subseteq OpenTickets /\ parked' = parked \ job[j].t /\ reopened' = reopened
      /\ exists' = exists \ job[j].t /\ links' = {l \in links : l[1] \notin job[j].t /\ l[2] \notin job[j].t}
  BY DEF EvaluateEnd, OpenTickets, Cascade
<1>2. LinksPark' BY <1>0, <1>1 DEF LinksPark
<1>3. Fresh(j)' /\ InTurn(j)' /\ FlipsFree(j)'
  BY <1>0, IdleIs DEF Fresh, InTurn, FlipsFree, Adds, Judging
<1>4. \A d : PrereqsOf(d, links') \subseteq PrereqsOf(d, links) BY <1>1 DEF PrereqsOf
<1>5. \A d : (d \in parked' => d \in parked) /\ (d \in parked /\ d \in exists' => d \in parked') BY <1>1
<1> QED BY <1>0, <1>1, <1>2, <1>3, <1>4, <1>5, IdleIs, FreshStep

LEMMA FreshInit == Init => FInv
<1> SUFFICES ASSUME Init PROVE FInv OBVIOUS
<1>1. \A j \in Jobs : job[j] = Idle BY DEF Init
<1>2. LinksPark BY DEF Init, LinksPark
<1>3. \A j \in Jobs : Fresh(j) /\ InTurn(j) /\ FlipsFree(j)
  BY <1>1, IdleIs DEF Fresh, InTurn, FlipsFree, Adds, Judging
<1> QED BY <1>2, <1>3, TypeInit DEF FInv

LEMMA FreshNext == FInv /\ DependentsApart /\ [NextOverlap]_vars => FInv'
<1> SUFFICES ASSUME FInv, DependentsApart, [NextOverlap]_vars PROVE FInv' OBVIOUS
<1>0. TInv' BY TypeStep DEF FInv
<1>1. ASSUME NEW j \in Jobs, Step(j) PROVE FInv'
  BY <1>0, <1>1, AddReadsFresh, EvaluateReadsFresh, CommitFresh, StartsFresh, WriteFresh, EndFresh DEF Step
<1>2. ASSUME NEW j \in Jobs, AddFails(j) PROVE FInv' BY <1>0, <1>2, AddReadsFresh
<1>3. CASE \E t \in Tickets : MoveToDone(t) \/ Reopen(t) \/ Archive(t) \/ Unarchive(t)
  BY <1>0, <1>3, MoversFresh
<1>4. CASE UNCHANGED vars
  <2>1. UNCHANGED <<exists, links, parked, job>> BY <1>4 DEF vars
  <2>2. OpenTickets' \ reopened' \subseteq OpenTickets \ reopened BY <1>4 DEF vars, OpenTickets
  <2> QED BY <1>0, <2>1, <2>2, FreshMoves
<1> QED BY <1>1, <1>2, <1>3, <1>4 DEF Next, NextOverlap

\* For any number of overlapping callers: as long as no two of them are at the
\* same dependent, every caller writes what it has read.
THEOREM ReadsStayFresh == SpecOverlap /\ []DependentsApart => []FInv
  BY FreshInit, FreshNext, PTL DEF SpecOverlap

\* addPrerequisites and evaluatePendingForDependentScoped: a ticket with a
\* prerequisite that is open, and always was, is parked, even while callers are
\* at work; only two callers at the same dependent can break this.
THEOREM LinksAlwaysPark == SpecOverlap /\ []DependentsApart => [](LinksPark /\ BlockedIsParked)
<1>1. FInv => LinksPark /\ BlockedIsParked BY DEF FInv, LinksPark, BlockedIsParked
<1> QED BY <1>1, ReadsStayFresh, PTL

\* onPrerequisiteReached and onPrerequisiteRemoved: whoever is handed to
\* resumeTicket is neither parked nor blocked by a prerequisite that was open
\* all along; only another caller that comes to a dependent before it is handed
\* over can break this.
THEOREM FlipsAreFree == SpecOverlap /\ []DependentsApart => []ResumedIsFree
<1>1. FInv => ResumedIsFree BY DEF FInv, FlipsFree, Free, ResumedIsFree
<1> QED BY <1>1, ReadsStayFresh, PTL

-----------------------------------------------------------------------------
(* Nobody stays parked for nothing.                                        *)

\* A prerequisite that is not done, or whose activity is not handled yet,
\* keeps a ticket parked; else some job is about to look at it.
Holds(p) == p \notin done \/ p \in doneEvents
Held(t, ls) == \E p \in PrereqsOf(t, ls) : Holds(p)
Attended(j) == job[j].left \cup (IF job[j].at \in {"removed", "write"} THEN job[j].ps ELSE {})
ParkedIsHeld == \A t \in parked : Held(t, links) \/ \E j \in Jobs : t \in Attended(j)

\* Whoever a job judges blocked is held, or another job still has to look at
\* it, and nobody waits for the ticket a job deletes.
Elsewhere(j, t) == \E k \in Jobs : k # j /\ t \in job[k].left
Stays(j) ==
  /\ Judging(j) => \A x \in job[j].open \cap exists : Held(x, LinksOf(j)) \/ Elsewhere(j, x)
  /\ \A l \in links : l[2] \notin Deleting(j)

HInv == FInv /\ ParkedIsHeld /\ \A j \in Jobs : Stays(j)

\* A job at other dependents than job j keeps its judgement.
LEMMA StaysKept ==
  ASSUME HInv, NEW j \in Jobs, NEW y \in JobState, job' = [job EXCEPT ![j] = y], exists' \subseteq exists,
         NEW i \in Jobs, i # j,
         \A x \in job[i].open \cap exists' : Judging(i) /\ Held(x, LinksOf(i)) => Held(x, LinksOf(i))' \/ x \in y.left,
         \A x \in Dependents(i) \cap job[j].left : x \in y.left,
         \A l \in links' : l \in links \/ l[2] \notin Deleting(i)
  PROVE  Stays(i)'
<1>0. /\ job \in [Jobs -> JobState] /\ job'[i] = job[i] /\ job'[j] = y /\ \A k \in Jobs : k # j => job'[k] = job[k]
  BY DEF HInv, FInv, TInv, TypeOK
<1>1. Judging(i)' = Judging(i) /\ Deleting(i)' = Deleting(i) BY <1>0 DEF Judging, Deleting, Adds
<1>2. Judging(i) => job[i].open \subseteq Dependents(i) BY DEF HInv, FInv, Fresh, Target, Dependents
<1>3. ASSUME Judging(i), NEW x \in job[i].open \cap exists' PROVE Held(x, LinksOf(i))' \/ Elsewhere(i, x)'
  <2>1. Held(x, LinksOf(i)) \/ Elsewhere(i, x) BY <1>3 DEF HInv, Stays
  <2>2. x \in y.left => Elsewhere(i, x)' BY <1>0 DEF Elsewhere
  <2>3. CASE Elsewhere(i, x)
    <3>1. PICK k \in Jobs : k # i /\ x \in job[k].left BY <2>3 DEF Elsewhere
    <3>2. x \in job'[k].left BY <1>0, <1>2, <1>3, <3>1
    <3> QED BY <3>1, <3>2 DEF Elsewhere
  <2> QED BY <1>3, <2>1, <2>2, <2>3
<1>4. \A l \in links' : l[2] \notin Deleting(i) BY DEF HInv, Stays
<1> QED BY <1>0, <1>1, <1>3, <1>4 DEF Stays

\* A step that writes no link, flag or job and lets no prerequisite go.
LEMMA StaysMoves ==
  ASSUME HInv, FInv', UNCHANGED <<exists, links, parked, job>>, \A p : Holds(p) => Holds(p)'
  PROVE  HInv'
<1>1. \A i : LinksOf(i)' = LinksOf(i) /\ Judging(i)' = Judging(i) /\ Deleting(i)' = Deleting(i)
  BY DEF LinksOf, NewLinks, Judging, Deleting, Adds
<1>2. \A t : Held(t, links) => Held(t, links)' BY DEF Held
<1>3. \A i, t : Held(t, LinksOf(i)) => Held(t, LinksOf(i))' BY <1>1 DEF Held
<1>4. ParkedIsHeld' BY <1>2 DEF HInv, ParkedIsHeld, Attended
<1>5. \A i \in Jobs : Stays(i)' BY <1>1, <1>3 DEF HInv, Stays, Elsewhere
<1> QED BY <1>4, <1>5 DEF HInv

LEMMA MoversStay ==
  ASSUME HInv, FInv', NEW t \in Tickets, MoveToDone(t) \/ Reopen(t) \/ Archive(t) \/ Unarchive(t)
  PROVE  HInv'
<1>1. UNCHANGED <<exists, links, parked, job>> BY DEF MoveToDone, Reopen, Archive, Unarchive
<1>2. \A p : Holds(p) => Holds(p)' BY DEF MoveToDone, Reopen, Archive, Unarchive, Holds
<1> QED BY <1>1, <1>2, StaysMoves

\* A job only reads, and looks at each ticket it was to look at.
LEMMA ReadsStay ==
  ASSUME HInv, FInv', NEW j \in Jobs, NEW y \in JobState, job' = [job EXCEPT ![j] = y],
         UNCHANGED <<exists, done, archived, links, parked, doneEvents, reopened>>,
         Attended(j) \subseteq Attended(j)', Stays(j)',
         \A i \in Jobs : i # j => \A x \in Dependents(i) \cap job[j].left : x \in y.left
  PROVE  HInv'
<1>0. \A k \in Jobs : k # j => job'[k] = job[k] BY DEF HInv, FInv, TInv, TypeOK
<1>1. \A p : Holds(p)' = Holds(p) BY DEF Holds
<1>2. \A t : Held(t, links)' = Held(t, links) BY <1>1 DEF Held
<1>3. ParkedIsHeld'
  <2>1. \A k \in Jobs : Attended(k) \subseteq Attended(k)' BY <1>0 DEF Attended
  <2> QED BY <1>2, <2>1 DEF HInv, ParkedIsHeld
<1>4. ASSUME NEW i \in Jobs, i # j PROVE Stays(i)'
  <2>1. LinksOf(i)' = LinksOf(i) BY <1>0, <1>4 DEF LinksOf, NewLinks
  <2>2. \A x : Held(x, LinksOf(i)) => Held(x, LinksOf(i))' BY <1>1, <2>1 DEF Held
  <2> QED BY <1>4, <2>2, StaysKept
<1> QED BY <1>3, <1>4 DEF HInv

LEMMA AddReadsStay ==
  ASSUME HInv, FInv', NEW j \in Jobs,
         \/ \E t \in Tickets, ps \in SUBSET Tickets : AddValidate(j, t, ps)
         \/ AddCheckCycle(j) \/ AddEvaluate(j) \/ AddFails(j)
  PROVE  HInv'
<1> USE DEF Become, EndJob
<1>0. /\ TypeOK /\ job \in [Jobs -> JobState] /\ job[j] \in JobState /\ InTurn(j) /\ Stays(j)
      /\ UNCHANGED <<exists, done, archived, links, parked, doneEvents, reopened>>
  BY DEF HInv, FInv, TInv, TypeOK, AddValidate, AddCheckCycle, AddEvaluate, AddFails
<1>1. job[j].left = {} /\ Attended(j) = {}
  BY <1>0 DEF InTurn, Attended, AddValidate, AddCheckCycle, AddEvaluate, AddFails
<1>2. ASSUME NEW y \in JobState, job' = [job EXCEPT ![j] = y], Stays(j)' PROVE HInv'
  BY <1>0, <1>1, <1>2, ReadsStay
<1>3. ASSUME NEW y \in JobState, job' = [job EXCEPT ![j] = y], y.at \in {"cycle", "insert"} \/ y = Idle PROVE HInv'
  <2>1. job'[j] = y BY <1>0, <1>3
  <2>2. ~Judging(j)' /\ Deleting(j)' = {} BY <1>3, <2>1, IdleIs DEF Judging, Deleting, Adds
  <2>3. Stays(j)' BY <2>2 DEF Stays
  <2> QED BY <1>2, <1>3, <2>3
<1>4. ASSUME NEW t \in Tickets, NEW ps \in SUBSET Tickets, AddValidate(j, t, ps) PROVE HInv'
  <2> DEFINE y == [Idle EXCEPT !.at = "cycle", !.t = {t}, !.ps = ps, !.was = parked \cap {t}]
  <2>1. y \in JobState /\ y.at = "cycle" BY DEF Idle, JobState
  <2>2. job' = [job EXCEPT ![j] = y] BY <1>4 DEF AddValidate
  <2> HIDE DEF y
  <2> QED BY <1>3, <2>1, <2>2
<1>5. CASE AddCheckCycle(j) \/ AddFails(j)
  <2> DEFINE y == [job[j] EXCEPT !.at = "insert"]
  <2>1. y \in JobState /\ y.at = "insert" BY <1>0 DEF JobState
  <2>2. job' = [job EXCEPT ![j] = y] \/ job' = [job EXCEPT ![j] = Idle] BY <1>5 DEF AddCheckCycle, AddFails
  <2> HIDE DEF y
  <2> QED BY <1>3, <2>1, <2>2, IdleIs
<1>6. CASE AddEvaluate(j)
  <2> DEFINE os == {t \in job[j].t : AnyPrereqOpen(t, links \cup NewLinks(j))}
             y == [job[j] EXCEPT !.at = "commit", !.open = os]
  <2>1. os \in SUBSET Tickets /\ \A x \in os : PrereqsOf(x, links \cup NewLinks(j)) \cap OpenTickets # {}
    BY <1>0 DEF JobState, AnyPrereqOpen
  <2> HIDE DEF os
  <2>2. y \in JobState /\ y.at = "commit" /\ y.open = os /\ y.t = job[j].t /\ y.ps = job[j].ps
    BY <1>0, <2>1 DEF JobState
  <2>3. job' = [job EXCEPT ![j] = y] BY <1>6 DEF AddEvaluate, os
  <2> HIDE DEF y
  <2>4. job'[j] = y BY <1>0, <2>3
  <2>5. LinksOf(j)' = links \cup NewLinks(j) /\ Deleting(j)' = {}
    BY <1>0, <2>2, <2>4 DEF LinksOf, NewLinks, Deleting, Adds
  <2>6. ASSUME NEW x \in os PROVE Held(x, LinksOf(j))'
    <3>1. PICK p \in PrereqsOf(x, links \cup NewLinks(j)) : p \in OpenTickets BY <2>1, <2>6
    <3>2. Holds(p)' BY <1>0, <3>1 DEF Holds, OpenTickets
    <3> QED BY <2>5, <3>1, <3>2 DEF Held
  <2>7. Stays(j)' BY <2>2, <2>4, <2>5, <2>6 DEF Stays
  <2> QED BY <1>2, <2>2, <2>3, <2>7
<1> QED BY <1>4, <1>5, <1>6

LEMMA EvaluateReadsStay ==
  ASSUME HInv, FInv', DependentsApart', NEW j \in Jobs, RemoveEvaluate(j) \/ EvaluateRead(j)
  PROVE  HInv'
<1>0. /\ TypeOK /\ job \in [Jobs -> JobState] /\ InTurn(j) /\ Stays(j)
      /\ UNCHANGED <<exists, done, archived, links, parked, doneEvents, reopened>>
  BY DEF HInv, FInv, TInv, TypeOK, RemoveEvaluate, EvaluateRead
<1>1. PICK d \in Tickets, seen \in SUBSET Tickets, left \in SUBSET Tickets :
           /\ job' = [job EXCEPT ![j] = Evaluating(j, d, seen, left)]
           /\ job[j].at \in {"removed", "next"}
           /\ seen \subseteq {d} /\ d \notin left /\ d \notin job[j].flips
           /\ left \subseteq job[j].left /\ job[j].left \subseteq left \cup {d}
           /\ job[j].at = "removed" => job[j].ps = {d}
  BY <1>0, ReadsOne
<1>2. PICK y : y = Evaluating(j, d, seen, left) OBVIOUS
<1>3. job' = [job EXCEPT ![j] = y] /\ HasRead(y, j, d, seen, left) BY <1>0, <1>1, <1>2, EvaluatingIs
<1>4. job'[j] = y BY <1>0, <1>3
<1>5. Attended(j) \subseteq Attended(j)' BY <1>1, <1>3, <1>4 DEF HasRead, Attended
<1>6. Deleting(j)' = Deleting(j) /\ LinksOf(j)' = links BY <1>0, <1>1, <1>3, <1>4 DEF HasRead, Deleting, Adds, LinksOf
<1>7. ASSUME NEW x \in y.open PROVE Held(x, LinksOf(j))'
  <2>1. x = d /\ PrereqsOf(d, links) \cap OpenTickets # {} BY <1>3, <1>7 DEF HasRead
  <2>2. PICK p \in PrereqsOf(x, links) : p \in OpenTickets BY <2>1
  <2>3. Holds(p)' BY <1>0, <2>2 DEF Holds, OpenTickets
  <2> QED BY <1>6, <2>2, <2>3 DEF Held
<1>8. Stays(j)' BY <1>0, <1>4, <1>6, <1>7 DEF Stays
<1>9. ASSUME NEW i \in Jobs, i # j, NEW x \in Dependents(i) \cap job[j].left PROVE x \in y.left
  <2>1. job'[i] = job[i] BY <1>0, <1>3, <1>9
  <2>2. x \in Dependents(i)' BY <1>9, <2>1 DEF Dependents, Adds
  <2>3. d \in Dependents(j)' BY <1>3, <1>4 DEF HasRead, Dependents, Adds
  <2>4. x # d BY <1>9, <2>2, <2>3 DEF DependentsApart
  <2> QED BY <1>1, <1>3, <1>9, <2>4 DEF HasRead
<1>10. y \in JobState BY <1>3 DEF HasRead
<1> QED BY <1>0, <1>3, <1>5, <1>8, <1>9, <1>10, ReadsStay

\* What a job judges by, as pairs.
LEMMA LinksOfIs ==
  ASSUME TypeOK, NEW i \in Jobs
  PROVE  /\ LinksOf(i) \in SUBSET (Tickets \X Tickets) /\ links \in SUBSET (Tickets \X Tickets)
         /\ NewLinks(i) \in SUBSET (Tickets \X Tickets)
  BY JobFields DEF LinksOf, NewLinks, TypeOK

LEMMA CommitStay ==
  ASSUME HInv, FInv', DependentsApart, DeletesApart, NEW j \in Jobs, AddCommit(j)
  PROVE  HInv'
<1>0. /\ TypeOK /\ FInv /\ ParkedIsHeld /\ Fresh(j) /\ InTurn(j) /\ Stays(j)
      /\ job' = [job EXCEPT ![j] = Idle] /\ job'[j] = Idle /\ \A k \in Jobs : k # j => job'[k] = job[k]
      /\ UNCHANGED <<exists, done, archived, doneEvents, reopened>>
  BY DEF HInv, FInv, TInv, TypeOK, AddCommit, EndJob, Become
<1> DEFINE new == links \cup NewLinks(j)
<1>1. /\ Adds(j) /\ Judging(j) /\ Target(j) = job[j].t /\ LinksOf(j) = new /\ job[j].t \subseteq exists
      /\ links' = new
  BY DEF AddCommit, Adds, Judging, Target, LinksOf, KeysHold
<1>2. job[j].open \subseteq job[j].t /\ job[j].was = parked \cap job[j].t BY <1>0, <1>1 DEF Fresh
<1>3. parked' = (parked \ job[j].t) \cup job[j].open BY <1>2, FlagWriteIs DEF AddCommit
<1>4. job[j].left = {} /\ Attended(j) = {} BY <1>0 DEF AddCommit, InTurn, Attended
<1>5. \A p : Holds(p)' = Holds(p) BY <1>0 DEF Holds
<1>6. \A x : PrereqsOf(x, links) \subseteq PrereqsOf(x, new) BY DEF PrereqsOf
<1> HIDE DEF new
<1>7. ASSUME NEW x \in parked' PROVE Held(x, links)' \/ \E k \in Jobs : x \in Attended(k)'
  <2>1. Held(x, new) \/ \E k \in Jobs : k # j /\ x \in Attended(k)
    <3>1. CASE x \in job[j].open
      <4>1. x \in job[j].open \cap exists BY <1>1, <1>2, <3>1
      <4>2. Held(x, new) \/ Elsewhere(j, x) BY <1>0, <1>1, <4>1 DEF Stays
      <4> QED BY <4>2 DEF Elsewhere, Attended
    <3>2. CASE x \in parked
      <4>1. Held(x, links) \/ \E k \in Jobs : x \in Attended(k) BY <1>0, <3>2 DEF ParkedIsHeld
      <4>2. Held(x, links) => Held(x, new) BY <1>6 DEF Held
      <4> QED BY <1>4, <4>1, <4>2
    <3> QED BY <1>3, <1>7, <3>1, <3>2
  <2>2. Held(x, new) => Held(x, links)' BY <1>1, <1>5 DEF Held
  <2>3. \A k \in Jobs : k # j => Attended(k)' = Attended(k) BY <1>0 DEF Attended
  <2> QED BY <2>1, <2>2, <2>3
<1>8. ParkedIsHeld' BY <1>7 DEF ParkedIsHeld
<1>9. Stays(j)' BY <1>0, IdleIs DEF Stays, Judging, Deleting, Adds
<1>10. ASSUME NEW i \in Jobs, i # j PROVE Stays(i)'
  <2>1. job'[i] = job[i] BY <1>0, <1>10
  <2>2. \A x : PrereqsOf(x, LinksOf(i)) \subseteq PrereqsOf(x, LinksOf(i)')
    BY <1>1, <2>1 DEF LinksOf, NewLinks, PrereqsOf, new
  <2>3. \A x : Held(x, LinksOf(i)) => Held(x, LinksOf(i))' BY <1>5, <2>2 DEF Held
  <2>4. ASSUME NEW l \in links' PROVE l \in links \/ l[2] \notin Deleting(i)
    <3>1. l \in links \/ l[2] \in job[j].ps BY <1>1, <2>4 DEF new, NewLinks
    <3>2. Deleting(i) \cap job[j].ps = {} BY <1>1, <1>10 DEF DeletesApart, Linking
    <3> QED BY <3>1, <3>2
  <2> QED BY <1>0, <1>4, <1>10, <2>3, <2>4, IdleIs, StaysKept
<1> QED BY <1>8, <1>9, <1>10 DEF HInv

\* A job starts: every ticket that is held by less than before is one that it
\* will look at.
LEMMA StartStay ==
  ASSUME HInv, FInv', NEW j \in Jobs, NEW y, Starts(j, y), links' \subseteq links,
         \A l \in links' : l[2] \notin y.t,
         \A x : Held(x, links) => Held(x, links)' \/ x \in y.left \/ (y.at = "removed" /\ x \in y.ps),
         \A i \in Jobs : i # j => \A x \in job[i].open \cap exists :
           Judging(i) /\ Held(x, LinksOf(i)) => Held(x, LinksOf(i))' \/ x \in y.left
  PROVE  HInv'
<1>0. /\ TypeOK /\ ParkedIsHeld /\ InTurn(j) /\ job \in [Jobs -> JobState]
      /\ y \in JobState /\ job[j].at = "idle" /\ job' = [job EXCEPT ![j] = y]
      /\ UNCHANGED <<exists, done, archived, parked, reopened>> /\ y.at \in {"removed", "next"}
  BY DEF HInv, FInv, TInv, TypeOK, Starts
<1>1. job'[j] = y /\ \A k \in Jobs : k # j => job'[k] = job[k] BY <1>0
<1>2. Attended(j) = {} /\ job[j].left = {} BY <1>0 DEF Attended, InTurn
<1>3. Attended(j)' = y.left \cup (IF y.at = "removed" THEN y.ps ELSE {}) BY <1>0, <1>1 DEF Attended
<1>4. \A k \in Jobs : k # j => Attended(k)' = Attended(k) BY <1>1 DEF Attended
<1>5. ParkedIsHeld' BY <1>0, <1>2, <1>3, <1>4 DEF ParkedIsHeld
<1>6. ~Judging(j)' /\ Deleting(j)' = y.t BY <1>0, <1>1 DEF Judging, Deleting, Adds
<1>7. Stays(j)' BY <1>6 DEF Stays
<1>8. ASSUME NEW i \in Jobs, i # j PROVE Stays(i)' BY <1>0, <1>2, <1>8, StaysKept
<1> QED BY <1>5, <1>7, <1>8 DEF HInv

LEMMA RemoveLinkStay ==
  ASSUME HInv, FInv', DependentsApart', NEW j \in Jobs, NEW t \in Tickets, NEW p \in Tickets, RemoveLink(j, t, p)
  PROVE  HInv'
<1>0. TypeOK /\ TInv /\ job \in [Jobs -> JobState] /\ links' = links \ {<<t, p>>}
  BY DEF HInv, FInv, TInv, TypeOK, RemoveLink
<1>1. PICK y : Starts(j, y) /\ y.at = "removed" /\ y.ps = {t} /\ y.t = {} BY <1>0, RemoveStarts
<1>2. \A q : Holds(q)' = Holds(q) BY DEF Holds, RemoveLink
<1>3. \A x : x # t => PrereqsOf(x, links) \subseteq PrereqsOf(x, links')
  BY <1>0 DEF PrereqsOf
<1>4. \A x : x # t => (Held(x, links) => Held(x, links)') BY <1>2, <1>3 DEF Held
<1>5. ASSUME NEW i \in Jobs, i # j, NEW x \in job[i].open \cap exists, Judging(i), Held(x, LinksOf(i))
      PROVE  Held(x, LinksOf(i))'
  <2>1. job'[i] = job[i] /\ job'[j] = y BY <1>0, <1>1, <1>5 DEF Starts
  <2>2. x \in Dependents(i)' BY <1>5, <2>1 DEF HInv, FInv, Fresh, Target, Dependents, Adds
  <2>3. t \in Dependents(j)' BY <1>1, <2>1 DEF Dependents, Adds
  <2>4. x # t BY <1>5, <2>2, <2>3 DEF DependentsApart
  <2>5. PrereqsOf(x, LinksOf(i)) \subseteq PrereqsOf(x, LinksOf(i)')
    BY <1>0, <2>1, <2>4 DEF LinksOf, NewLinks, PrereqsOf
  <2> QED BY <1>2, <1>5, <2>5 DEF Held
<1> QED BY <1>0, <1>1, <1>4, <1>5, StartStay

LEMMA DoneHookStay ==
  ASSUME HInv, FInv', Heard, NEW j \in Jobs, NEW p \in Tickets, DoneHook(j, p)
  PROVE  HInv'
<1>0. TypeOK /\ TInv /\ job \in [Jobs -> JobState] /\ links' = links BY DEF HInv, FInv, TInv, TypeOK, DoneHook
<1>1. CASE p \in done
  <2>1. PICK y : Starts(j, y) /\ y.at = "next" /\ y.ps = {} /\ y.t = {} /\ y.left = DependentsOf(p, links)
    BY <1>0, <1>1, HookStarts
  <2>2. \A q : q # p => Holds(q)' = Holds(q) BY DEF Holds, DoneHook
  <2>3. ASSUME NEW x, Held(x, links), x \notin y.left PROVE Held(x, links)'
    <3>1. PICK q \in PrereqsOf(x, links) : Holds(q) BY <2>3 DEF Held
    <3>2. links \in SUBSET (Tickets \X Tickets) BY <1>0 DEF TypeOK
    <3>3. <<x, q>> \in links BY <3>1, <3>2, PrereqIs
    <3>4. q # p BY <2>1, <2>3, <3>2, <3>3, DependentIs
    <3> QED BY <1>0, <2>2, <3>1, <3>4 DEF Held
  <2>4. ASSUME NEW i \in Jobs, i # j, NEW x \in job[i].open \cap exists, Judging(i), Held(x, LinksOf(i)), x \notin y.left
        PROVE  Held(x, LinksOf(i))'
    <3>1. job'[i] = job[i] BY <1>0, <2>1, <2>4 DEF Starts
    <3>2. LinksOf(i)' = LinksOf(i) BY <1>0, <3>1 DEF LinksOf, NewLinks
    <3>3. PICK q \in PrereqsOf(x, LinksOf(i)) : Holds(q) BY <2>4 DEF Held
    <3>4. <<x, q>> \in LinksOf(i) BY <1>0, <3>3, LinksOfIs, PrereqIs
    <3>5. ASSUME q = p PROVE FALSE
      <4>1. <<x, p>> \notin links BY <1>0, <2>1, <2>4, LinksOfIs, DependentIs
      <4>2. job[i].at = "commit" /\ <<x, p>> \in NewLinks(i) BY <3>4, <3>5, <4>1 DEF LinksOf
      <4>3. p \in job[i].ps BY <4>2 DEF NewLinks
      <4>4. p \in doneEvents' BY <3>1, <4>2, <4>3 DEF Heard, DoneHook
      <4> QED BY <4>4 DEF DoneHook
    <3> QED BY <2>2, <3>2, <3>3, <3>5 DEF Held
  <2>5. \A l \in links' : l[2] \notin y.t BY <2>1
  <2> QED BY <1>0, <2>1, <2>3, <2>4, <2>5, StartStay
<1>2. CASE p \notin done
  <2>1. UNCHANGED <<exists, links, parked, job>> BY <1>2 DEF DoneHook
  <2>2. \A q : Holds(q) => Holds(q)' BY <1>2 DEF DoneHook, Holds
  <2> QED BY <2>1, <2>2, StaysMoves
<1> QED BY <1>1, <1>2

LEMMA DeleteStartStay ==
  ASSUME HInv, FInv', NEW j \in Jobs, NEW p \in Tickets, DeleteStart(j, p)
  PROVE  HInv'
<1>0. TypeOK /\ TInv /\ job \in [Jobs -> JobState] /\ links' = {l \in links : l[2] # p}
  BY DEF HInv, FInv, TInv, TypeOK, DeleteStart
<1>1. PICK y : Starts(j, y) /\ y.at = "next" /\ y.ps = {} /\ y.t = {p} /\ y.left = DependentsOf(p, links)
  BY <1>0, DeleteStarts
<1>2. \A q : Holds(q)' = Holds(q) BY DEF Holds, DeleteStart
<1>3. ASSUME NEW x, x \notin y.left PROVE PrereqsOf(x, links) \subseteq PrereqsOf(x, links')
  <2> SUFFICES ASSUME NEW l \in links, l[1] = x PROVE l[2] # p BY <1>0 DEF PrereqsOf
  <2>1. l = <<l[1], l[2]>> BY <1>0, LinksOfIs
  <2> QED BY <1>0, <1>1, <1>3, <2>1, LinksOfIs, DependentIs
<1>4. \A x : x \notin y.left => (Held(x, links) => Held(x, links)') BY <1>2, <1>3 DEF Held
<1>5. ASSUME NEW i \in Jobs, i # j, NEW x \in job[i].open \cap exists, Judging(i), Held(x, LinksOf(i)), x \notin y.left
      PROVE  Held(x, LinksOf(i))'
  <2>1. job'[i] = job[i] BY <1>0, <1>1, <1>5 DEF Starts
  <2>2. PrereqsOf(x, LinksOf(i)) \subseteq PrereqsOf(x, LinksOf(i)')
    <3>1. PrereqsOf(x, links) \subseteq PrereqsOf(x, links') BY <1>3, <1>5
    <3> QED BY <2>1, <3>1 DEF LinksOf, NewLinks, PrereqsOf
  <2> QED BY <1>2, <1>5, <2>2 DEF Held
<1>6. \A l \in links' : l[2] \notin y.t BY <1>0, <1>1
<1> QED BY <1>0, <1>1, <1>4, <1>5, <1>6, StartStay

LEMMA WriteStay ==
  ASSUME HInv, FInv', NEW j \in Jobs, EvaluateWrite(j)
  PROVE  HInv'
<1>0. TypeOK /\ FInv /\ ParkedIsHeld /\ InTurn(j) /\ Stays(j) /\ job \in [Jobs -> JobState]
  BY DEF HInv, FInv, TInv, TypeOK
<1>1. PICK y \in JobState : /\ job' = [job EXCEPT ![j] = y] /\ job'[j] = y
                            /\ y.at = "next" /\ y.t = job[j].t /\ y.ps = {} /\ y.left = job[j].left
                            /\ y.flips = job[j].flips \cup Flipped(j)
  BY <1>0, WriteIs
<1>2. /\ parked' = ((parked \ job[j].ps) \cup job[j].open) \cap exists
      /\ UNCHANGED <<exists, done, archived, links, doneEvents, reopened>> /\ job[j].at = "write"
  BY <1>0, WriteIs
<1>3. \A k \in Jobs : k # j => job'[k] = job[k] BY <1>0, <1>1
<1>4. \A p : Holds(p)' = Holds(p) BY <1>2 DEF Holds
<1>5. Judging(j) /\ LinksOf(j) = links /\ Deleting(j) = job[j].t BY <1>2 DEF Judging, LinksOf, Deleting, Adds
<1>6. Attended(j) = job[j].left \cup job[j].ps /\ Attended(j)' = job[j].left
      /\ \A k \in Jobs : k # j => Attended(k)' = Attended(k)
  BY <1>1, <1>2, <1>3 DEF Attended
<1>7. ASSUME NEW x \in parked' PROVE Held(x, links)' \/ \E k \in Jobs : x \in Attended(k)'
  <2>1. Held(x, links) \/ x \in job[j].left \/ \E k \in Jobs : k # j /\ x \in Attended(k)
    <3>1. CASE x \in job[j].open \cap exists
      <4>1. Held(x, links) \/ Elsewhere(j, x) BY <1>0, <1>5, <3>1 DEF Stays
      <4> QED BY <4>1 DEF Elsewhere, Attended
    <3>2. CASE x \in parked \ job[j].ps BY <1>0, <1>6, <3>2 DEF ParkedIsHeld
    <3> QED BY <1>2, <1>7, <3>1, <3>2
  <2>2. Held(x, links) => Held(x, links)' BY <1>2, <1>4 DEF Held
  <2> QED BY <1>6, <2>1, <2>2
<1>8. ParkedIsHeld' BY <1>7 DEF ParkedIsHeld
<1>9. ~Judging(j)' /\ Deleting(j)' = Deleting(j) BY <1>1, <1>5 DEF Judging, Deleting, Adds
<1>10. Stays(j)' BY <1>0, <1>2, <1>9 DEF Stays
<1>11. ASSUME NEW i \in Jobs, i # j PROVE Stays(i)'
  <2>1. LinksOf(i)' = LinksOf(i) BY <1>2, <1>3, <1>11 DEF LinksOf, NewLinks
  <2>2. \A x : Held(x, LinksOf(i)) => Held(x, LinksOf(i))' BY <1>4, <2>1 DEF Held
  <2> QED BY <1>1, <1>2, <1>11, <2>2, StaysKept
<1> QED BY <1>8, <1>10, <1>11 DEF HInv

LEMMA EndStay ==
  ASSUME HInv, FInv', NEW j \in Jobs, EvaluateEnd(j)
  PROVE  HInv'
<1>0. /\ TypeOK /\ ParkedIsHeld /\ Stays(j) /\ job' = [job EXCEPT ![j] = Idle] /\ job'[j] = Idle
      /\ \A k \in Jobs : k # j => job'[k] = job[k]
  BY DEF HInv, FInv, TInv, TypeOK, EvaluateEnd, EndJob, Become
<1>1. /\ exists' = exists \ job[j].t /\ parked' = parked \ job[j].t
      /\ links' = {l \in links : l[1] \notin job[j].t /\ l[2] \notin job[j].t}
      /\ \A q : Holds(q) => Holds(q)'
  BY DEF EvaluateEnd, Cascade, Holds
<1>2. Attended(j) = {} /\ job[j].left = {} /\ \A l \in links : l[2] \notin job[j].t
  BY <1>0 DEF EvaluateEnd, Attended, Stays, Deleting, Adds
<1>3. \A x : x \notin job[j].t => PrereqsOf(x, links) \subseteq PrereqsOf(x, links') BY <1>1, <1>2 DEF PrereqsOf
<1>4. \A x : x \notin job[j].t => (Held(x, links) => Held(x, links)') BY <1>1, <1>3 DEF Held
<1>5. ParkedIsHeld'
  <2>1. \A k \in Jobs : k # j => Attended(k)' = Attended(k) BY <1>0 DEF Attended
  <2> QED BY <1>0, <1>1, <1>2, <1>4, <2>1 DEF ParkedIsHeld
<1>6. Stays(j)' BY <1>0, IdleIs DEF Stays, Judging, Deleting, Adds
<1>7. ASSUME NEW i \in Jobs, i # j PROVE Stays(i)'
  <2>1. job'[i] = job[i] BY <1>0, <1>7
  <2>2. ASSUME NEW x \in exists', Held(x, LinksOf(i)) PROVE Held(x, LinksOf(i))'
    <3>1. PrereqsOf(x, links) \subseteq PrereqsOf(x, links') BY <1>1, <1>3, <2>2
    <3>2. PrereqsOf(x, LinksOf(i)) \subseteq PrereqsOf(x, LinksOf(i)')
      BY <2>1, <3>1 DEF LinksOf, NewLinks, PrereqsOf
    <3> QED BY <1>1, <2>2, <3>2 DEF Held
  <2> QED BY <1>0, <1>1, <1>2, <1>7, <2>2, IdleIs, StaysKept
<1> QED BY <1>5, <1>6, <1>7 DEF HInv

LEMMA StaysNext ==
  HInv /\ DependentsApart /\ DependentsApart' /\ DeletesApart /\ [NextOverlap]_vars /\ [Heard]_vars => HInv'
<1> SUFFICES ASSUME HInv, DependentsApart, DependentsApart', DeletesApart, [NextOverlap]_vars, [Heard]_vars
             PROVE  HInv'
  OBVIOUS
<1>0. FInv' BY FreshNext DEF HInv
<1>1. ASSUME NEW j \in Jobs, NEW p \in Tickets, DoneHook(j, p) PROVE HInv'
  <2>1. doneEvents' # doneEvents BY <1>1 DEF DoneHook
  <2>2. Heard BY <2>1 DEF vars
  <2> QED BY <1>0, <1>1, <2>2, DoneHookStay
<1>2. ASSUME NEW j \in Jobs, Step(j) PROVE HInv'
  BY <1>0, <1>1, <1>2, AddReadsStay, EvaluateReadsStay, CommitStay, RemoveLinkStay, DeleteStartStay, WriteStay, EndStay
  DEF Step
<1>3. ASSUME NEW j \in Jobs, AddFails(j) PROVE HInv' BY <1>0, <1>3, AddReadsStay
<1>4. CASE \E t \in Tickets : MoveToDone(t) \/ Reopen(t) \/ Archive(t) \/ Unarchive(t)
  BY <1>0, <1>4, MoversStay
<1>5. CASE UNCHANGED vars
  <2>1. UNCHANGED <<exists, links, parked, job>> BY <1>5 DEF vars
  <2>2. \A q : Holds(q) => Holds(q)' BY <1>5 DEF vars, Holds
  <2> QED BY <1>0, <2>1, <2>2, StaysMoves
<1> QED BY <1>2, <1>3, <1>4, <1>5 DEF Next, NextOverlap

\* evaluatePendingForDependent, for any number of tickets and of overlapping
\* callers: a ticket that is parked when everything has settled has an open
\* prerequisite or one that was archived.  Only three things can break this: two
\* callers at the same dependent, a link to a ticket that another caller is
\* deleting, and an activity handled while a transaction has read its ticket as
\* an open prerequisite and is still to commit.
THEOREM ParkedIsNotStranded ==
  SpecOverlap /\ []DependentsApart /\ []DeletesApart /\ [][Heard]_vars => []NoneStranded
<1>1. Init => HInv
  <2> SUFFICES ASSUME Init PROVE HInv OBVIOUS
  <2>1. \A j \in Jobs : job[j] = Idle BY DEF Init
  <2>2. ParkedIsHeld BY DEF Init, ParkedIsHeld
  <2>3. \A j \in Jobs : Stays(j) BY <2>1, IdleIs DEF Init, Stays, Judging
  <2> QED BY <2>2, <2>3, FreshInit DEF HInv
<1>2. HInv => NoneStranded
  <2> SUFFICES ASSUME HInv, Settled, NEW t \in parked
               PROVE  AnyPrereqOpen(t, links) \/ PrereqsOf(t, links) \cap archived # {}
    BY DEF NoneStranded
  <2>1. \A j \in Jobs : Attended(j) = {} BY DEF Settled, Attended, HInv, FInv, InTurn
  <2>2. Held(t, links) BY <2>1 DEF HInv, ParkedIsHeld
  <2>3. PICK p \in PrereqsOf(t, links) : p \notin done BY <2>2 DEF Held, Holds, Settled
  <2>4. p \in exists BY <2>3 DEF HInv, FInv, TInv, TypeOK, PrereqsOf
  <2> QED BY <2>3, <2>4 DEF AnyPrereqOpen, OpenTickets
<1> QED BY <1>1, <1>2, StaysNext, PTL DEF SpecOverlap

-----------------------------------------------------------------------------
(* The links have no cycle.                                                *)

\* What the search visits from c is closed, and within any closed set with c.
LEMMA VisitedIs ==
  ASSUME NEW ls \in SUBSET (Tickets \X Tickets), NEW c \in Tickets
  PROVE  /\ c \in Visited(c, ls) /\ Visited(c, ls) \in SUBSET Tickets /\ Closed(Visited(c, ls), ls)
         /\ \A S \in SUBSET Tickets : c \in S /\ Closed(S, ls) => Visited(c, ls) \subseteq S
<1>1. c \in Visited(c, ls) /\ Visited(c, ls) \in SUBSET Tickets BY DEF Visited
<1>2. \A S \in SUBSET Tickets : c \in S /\ Closed(S, ls) => Visited(c, ls) \subseteq S BY DEF Visited
<1>3. ASSUME NEW l \in ls, l[1] \in Visited(c, ls) PROVE l[2] \in Visited(c, ls)
  <2>1. l[2] \in Tickets OBVIOUS
  <2> SUFFICES ASSUME NEW S \in SUBSET Tickets, c \in S, Closed(S, ls) PROVE l[2] \in S BY <2>1 DEF Visited
  <2>2. l[1] \in S BY <1>2, <1>3
  <2> QED BY <2>2 DEF Closed
<1> QED BY <1>1, <1>2, <1>3 DEF Closed

\* With fewer links the search visits less.
LEMMA VisitsLess ==
  ASSUME NEW ls, NEW ms, ms \subseteq ls, NEW c
  PROVE  Visited(c, ms) \subseteq Visited(c, ls)
<1>1. \A S : Closed(S, ls) => Closed(S, ms) BY DEF Closed
<1> QED BY <1>1 DEF Visited

NoCycle(ls) == \A l \in ls : l[1] \notin Visited(l[2], ls)

LEMMA NoCycleIs ==
  ASSUME NEW ls \in SUBSET (Tickets \X Tickets)
  PROVE  NoCycle(ls) <=> \A t \in Tickets : \A p \in PrereqsOf(t, ls) : t \notin Visited(p, ls)
<1>1. \A l \in ls : l[1] \in Tickets /\ l[2] \in PrereqsOf(l[1], ls) BY DEF PrereqsOf
<1>2. \A t : \A p \in PrereqsOf(t, ls) : \E l \in ls : l[1] = t /\ l[2] = p BY DEF PrereqsOf
<1> QED BY <1>1, <1>2 DEF NoCycle

\* The links of t to prerequisites from none of which the search has come to t
\* close no cycle.  Where t is visited from q, the witness against a cycle
\* through q is what is visited from q or from a new prerequisite.
LEMMA NoCycleAdded ==
  ASSUME NEW ls \in SUBSET (Tickets \X Tickets), NoCycle(ls), NEW t \in Tickets, NEW ps \in SUBSET Tickets,
         \A p \in ps : t \notin Visited(p, ls)
  PROVE  NoCycle(ls \cup ({t} \X ps))
<1> DEFINE ms == ls \cup ({t} \X ps)
<1>0. ms \in SUBSET (Tickets \X Tickets) OBVIOUS
<1>1. \A l \in ms : l \in ls \/ (l[1] = t /\ l[2] \in ps) OBVIOUS
<1> HIDE DEF ms
<1>2. ASSUME NEW q \in Tickets, t \notin Visited(q, ls) PROVE Closed(Visited(q, ls), ms)
  <2>1. Closed(Visited(q, ls), ls) BY VisitedIs
  <2> QED BY <1>1, <1>2, <2>1 DEF Closed
<1>3. ASSUME NEW l \in ms PROVE l[1] \notin Visited(l[2], ms)
  <2>0. l[1] \in Tickets /\ l[2] \in Tickets BY <1>0
  <2>1. PICK x \in Tickets, q \in Tickets : x = l[1] /\ q = l[2] BY <2>0
  <2>2. q \in Visited(q, ls) /\ Visited(q, ls) \in SUBSET Tickets BY VisitedIs
  <2>3. x \notin Visited(q, ls) BY <1>1, <2>1 DEF NoCycle
  <2>4. CASE t \notin Visited(q, ls)
    <3>1. Closed(Visited(q, ls), ms) BY <1>2, <2>4
    <3>2. Visited(q, ms) \subseteq Visited(q, ls) BY <1>0, <2>2, <3>1, VisitedIs
    <3> QED BY <2>1, <2>3, <3>2
  <2>5. CASE t \in Visited(q, ls)
    <3> DEFINE S == Visited(q, ls) \cup UNION {Visited(p, ls) : p \in ps}
    <3>1. l \in ls BY <1>1, <2>1, <2>5
    <3>2. ASSUME NEW p \in ps PROVE x \notin Visited(p, ls)
      <4> SUFFICES ASSUME x \in Visited(p, ls) PROVE FALSE OBVIOUS
      <4>1. Closed(Visited(p, ls), ls) /\ Visited(p, ls) \in SUBSET Tickets BY VisitedIs
      <4>2. q \in Visited(p, ls) BY <2>1, <3>1, <4>1 DEF Closed
      <4>3. Visited(q, ls) \subseteq Visited(p, ls) BY <4>1, <4>2, VisitedIs
      <4> QED BY <2>5, <4>3
    <3>3. S \in SUBSET Tickets /\ q \in S /\ x \notin S
      <4>1. \A p \in ps : Visited(p, ls) \in SUBSET Tickets BY VisitedIs
      <4> QED BY <2>2, <2>3, <3>2, <4>1
    <3>4. Closed(S, ms)
      <4> SUFFICES ASSUME NEW m \in ms, m[1] \in S PROVE m[2] \in S BY DEF Closed
      <4>1. CASE m \in ls
        <5>1. Closed(Visited(q, ls), ls) /\ \A p \in ps : Closed(Visited(p, ls), ls) BY VisitedIs
        <5> QED BY <4>1, <5>1 DEF Closed
      <4>2. CASE m[2] \in ps
        <5>1. m[2] \in Visited(m[2], ls) BY <4>2, VisitedIs
        <5> QED BY <4>2, <5>1
      <4> QED BY <1>1, <4>1, <4>2
    <3> HIDE DEF S
    <3>5. Visited(q, ms) \subseteq S BY <1>0, <3>3, <3>4, VisitedIs
    <3> QED BY <2>1, <3>3, <3>5
  <2> QED BY <2>4, <2>5
<1> QED BY <1>3 DEF NoCycle, ms

\* A caller past the search still has its answer.
Searched(j) ==
  /\ \A s, t \in job[j].t : job[j].at \in {"cycle", "insert", "commit"} => s = t
  /\ job[j].at \in {"insert", "commit"} =>
       \A t \in job[j].t, p \in job[j].ps : t \notin Visited(p, links)
CInv == TInv /\ Acyclic /\ \A j \in Jobs : Searched(j)

\* A step that adds no link and starts no insert.
LEMMA FewerLinks ==
  ASSUME CInv, TInv', NEW j \in Jobs, links' \subseteq links, NEW x, job' = [job EXCEPT ![j] = x],
         x.at \notin {"insert", "commit"}, \A s, t \in x.t : x.at = "cycle" => s = t
  PROVE  CInv'
<1>0. TInv /\ Acyclic /\ links \in SUBSET (Tickets \X Tickets) BY DEF CInv, TInv, TypeOK
<1>1. links' \in SUBSET (Tickets \X Tickets) BY <1>0
<1>2. NoCycle(links) BY <1>0, NoCycleIs DEF Acyclic
<1>3. NoCycle(links') BY <1>2, VisitsLess DEF NoCycle
<1>4. Acyclic' BY <1>1, <1>3, NoCycleIs DEF Acyclic
<1>5. job'[j] = x /\ \A i \in Jobs : i # j => job'[i] = job[i] BY <1>0 DEF TInv, TypeOK
<1>6. \A c : Visited(c, links') \subseteq Visited(c, links) BY VisitsLess
<1>7. ASSUME NEW i \in Jobs PROVE Searched(i)'
  <2>1. CASE i = j BY <1>5, <2>1 DEF Searched
  <2>2. CASE i # j
    <3>1. Searched(i) /\ job'[i] = job[i] BY <1>5, <2>2 DEF CInv
    <3> QED BY <1>6, <3>1 DEF Searched
  <2> QED BY <2>1, <2>2
<1> QED BY <1>4, <1>7 DEF CInv

\* A step that changes no link and leaves the answer of the search as it is.
LEMMA SameLinks ==
  ASSUME CInv, TInv', links' = links, \A i \in Jobs : Searched(i)'
  PROVE  CInv'
<1>1. Acyclic' BY DEF CInv, Acyclic
<1> QED BY <1>1 DEF CInv

LEMMA SearchInv ==
  ASSUME CInv, TInv', NEW j \in Jobs,
         (\E t \in Tickets, ps \in SUBSET Tickets : AddValidate(j, t, ps)) \/ AddCheckCycle(j) \/ AddEvaluate(j)
  PROVE  CInv'
<1>0. job \in [Jobs -> JobState] /\ job[j] \in JobState /\ Searched(j) BY DEF CInv, TInv, TypeOK
<1>1. ASSUME NEW t \in Tickets, NEW ps \in SUBSET Tickets, AddValidate(j, t, ps) PROVE CInv'
  <2>1. PICK x : x = [Idle EXCEPT !.at = "cycle", !.t = {t}, !.ps = ps, !.was = parked \cap {t}] OBVIOUS
  <2>2. x.at = "cycle" /\ x.t = {t} BY <2>1 DEF Idle
  <2>3. job' = [job EXCEPT ![j] = x] /\ links' \subseteq links BY <1>1, <2>1 DEF AddValidate, Become
  <2>4. x.at \notin {"insert", "commit"} /\ \A r, s \in x.t : r = s BY <2>2
  <2> QED BY <2>3, <2>4, FewerLinks
<1>2. CASE AddCheckCycle(j)
  <2>1. CASE job' = [job EXCEPT ![j] = Idle]
    <3>1. links' \subseteq links BY <1>2 DEF AddCheckCycle
    <3> QED BY <2>1, <3>1, IdleIs, FewerLinks
  <2>2. CASE job' # [job EXCEPT ![j] = Idle]
    <3>1. PICK x : x = [job[j] EXCEPT !.at = "insert"] OBVIOUS
    <3>2. x.at = "insert" /\ x.t = job[j].t /\ x.ps = job[j].ps BY <1>0, <3>1 DEF JobState
    <3>3. /\ job' = [job EXCEPT ![j] = x] /\ links' = links /\ job[j].at = "cycle"
          /\ \A t \in job[j].t, p \in job[j].ps : t \notin Visited(p, links)
      BY <1>2, <2>2, <3>1 DEF AddCheckCycle, Become, EndJob, WouldCreateCycle
    <3>4. job'[j] = x /\ \A i \in Jobs : i # j => job'[i] = job[i] BY <1>0, <3>3
    <3>5. \A i \in Jobs : Searched(i)' BY <1>0, <3>2, <3>3, <3>4 DEF CInv, Searched
    <3> QED BY <3>3, <3>5, SameLinks
  <2> QED BY <2>1, <2>2
<1>3. CASE AddEvaluate(j)
  <2>1. PICK os : os = {t \in job[j].t : AnyPrereqOpen(t, links \cup NewLinks(j))} OBVIOUS
  <2>2. PICK x : x = [job[j] EXCEPT !.at = "commit", !.open = os] OBVIOUS
  <2>3. x.at = "commit" /\ x.t = job[j].t /\ x.ps = job[j].ps BY <1>0, <2>2 DEF JobState
  <2>4. job' = [job EXCEPT ![j] = x] /\ links' = links /\ job[j].at = "insert"
    BY <1>3, <2>1, <2>2 DEF AddEvaluate, Become
  <2>5. job'[j] = x /\ \A i \in Jobs : i # j => job'[i] = job[i] BY <1>0, <2>4
  <2>6. \A i \in Jobs : Searched(i)' BY <1>0, <2>3, <2>4, <2>5 DEF CInv, Searched
  <2> QED BY <2>4, <2>6, SameLinks
<1> QED BY <1>1, <1>2, <1>3

\* No other job has searched and is still to commit.
LEMMA InsertInv ==
  ASSUME CInv, SearchesApart, TInv', NEW j \in Jobs, AddCommit(j)
  PROVE  CInv'
<1>0. /\ job \in [Jobs -> JobState] /\ Searched(j) /\ links \in SUBSET (Tickets \X Tickets)
      /\ job[j].t \in SUBSET Tickets /\ job[j].ps \in SUBSET Tickets
  BY JobFields DEF CInv, TInv, TypeOK
<1>1. /\ job[j].at = "commit" /\ links' = links \cup (job[j].t \X job[j].ps)
      /\ job' = [job EXCEPT ![j] = Idle]
  BY DEF AddCommit, EndJob, Become, NewLinks
<1>2. NoCycle(links) BY <1>0, NoCycleIs DEF CInv, Acyclic
<1>3. links' \in SUBSET (Tickets \X Tickets) BY <1>0, <1>1
<1>4. NoCycle(links')
  <2>1. CASE job[j].t = {}
    <3>1. links' = links BY <1>1, <2>1
    <3> QED BY <1>2, <3>1
  <2>2. CASE job[j].t # {}
    <3>1. PICK t \in job[j].t : TRUE BY <2>2
    <3>2. job[j].t = {t} BY <1>0, <1>1 DEF Searched
    <3>3. \A p \in job[j].ps : t \notin Visited(p, links) BY <1>0, <1>1 DEF Searched
    <3>4. t \in Tickets BY <1>0
    <3>5. NoCycle(links \cup ({t} \X job[j].ps)) BY <1>0, <1>2, <3>3, <3>4, NoCycleAdded
    <3> QED BY <1>1, <3>2, <3>5
  <2> QED BY <2>1, <2>2
<1>5. Acyclic' BY <1>3, <1>4, NoCycleIs DEF Acyclic
<1>6. job'[j] = Idle /\ \A i \in Jobs : i # j => job'[i] = job[i] BY <1>0, <1>1
<1>7. ASSUME NEW i \in Jobs PROVE Searched(i)'
  <2>1. CASE i = j BY <1>6, <2>1, IdleIs DEF Searched
  <2>2. CASE i # j
    <3>1. job[i].at \notin {"insert", "commit"} BY <1>1, <2>2 DEF SearchesApart
    <3> QED BY <1>6, <2>2, <3>1 DEF CInv, Searched
  <2> QED BY <2>1, <2>2
<1> QED BY <1>5, <1>7 DEF CInv

\* The steps that only take links away.
LEMMA RemovalInv ==
  ASSUME CInv, TInv', NEW j \in Jobs,
         \/ \E t, p \in Tickets : RemoveLink(j, t, p)
         \/ \E p \in Tickets : DoneHook(j, p) \/ DeleteStart(j, p)
         \/ RemoveEvaluate(j) \/ EvaluateRead(j) \/ EvaluateWrite(j) \/ EvaluateEnd(j) \/ AddFails(j)
  PROVE  CInv'
<1>0. TypeOK /\ job \in [Jobs -> JobState] /\ job[j] \in JobState /\ Searched(j) BY DEF CInv, TInv, TypeOK
<1>1. links' \subseteq links
  BY DEF RemoveLink, DoneHook, DeleteStart, RemoveEvaluate, EvaluateRead, EvaluateWrite, EvaluateEnd, AddFails, Cascade
<1>2. ASSUME NEW x, job' = [job EXCEPT ![j] = x], x.at \in {"idle", "removed", "next", "write"} PROVE CInv'
  BY <1>1, <1>2, FewerLinks
<1>3. ASSUME NEW t \in Tickets, NEW p \in Tickets, RemoveLink(j, t, p) PROVE CInv'
  <2>1. PICK x : x = [Idle EXCEPT !.at = "removed", !.ps = {t}, !.seen = parked \cap {t}] OBVIOUS
  <2>2. x.at = "removed" BY <2>1 DEF Idle
  <2> QED BY <1>2, <1>3, <2>1, <2>2 DEF RemoveLink, Become
<1>4. ASSUME NEW p \in Tickets, DoneHook(j, p) PROVE CInv'
  <2>1. PICK x : x = [Idle EXCEPT !.at = "next", !.left = Reached(p)] OBVIOUS
  <2>2. x.at = "next" BY <2>1 DEF Idle
  <2>3. job' = [job EXCEPT ![j] = x] \/ (job[j].at = "idle" /\ job' = [job EXCEPT ![j] = job[j]])
    BY <1>0, <1>4, <2>1 DEF DoneHook, Become
  <2> QED BY <1>2, <2>2, <2>3
<1>5. ASSUME NEW p \in Tickets, DeleteStart(j, p) PROVE CInv'
  <2>1. PICK x : x = [Idle EXCEPT !.at = "next", !.t = {p}, !.left = DependentsOf(p, links)] OBVIOUS
  <2>2. x.at = "next" BY <2>1 DEF Idle
  <2> QED BY <1>2, <1>5, <2>1, <2>2 DEF DeleteStart, Become
<1>6. CASE RemoveEvaluate(j) \/ EvaluateRead(j)
  <2>1. PICK d, seen, left : job' = [job EXCEPT ![j] = Evaluating(j, d, seen, left)]
    BY <1>6 DEF RemoveEvaluate, EvaluateRead, Become
  <2>2. PICK x : x = Evaluating(j, d, seen, left) OBVIOUS
  <2>3. x.at = "write" BY <1>0, <2>2 DEF Evaluating, JobState
  <2> QED BY <1>2, <2>1, <2>2, <2>3
<1>7. CASE EvaluateWrite(j)
  <2>1. PICK fs : fs = job[j].flips \cup Flipped(j) OBVIOUS
  <2>2. PICK x : x = [job[j] EXCEPT !.at = "next", !.ps = {}, !.seen = {}, !.was = {}, !.open = {}, !.flips = fs]
    OBVIOUS
  <2>3. x.at = "next" BY <1>0, <2>2 DEF JobState
  <2>4. job' = [job EXCEPT ![j] = x] BY <1>7, <2>1, <2>2 DEF EvaluateWrite, Become
  <2> QED BY <1>2, <2>3, <2>4
<1>8. CASE EvaluateEnd(j) \/ AddFails(j)
  BY <1>2, <1>8, IdleIs DEF EvaluateEnd, AddFails, EndJob, Become
<1> QED BY <1>3, <1>4, <1>5, <1>6, <1>7, <1>8

LEMMA CycleStep == CInv /\ SearchesApart /\ [NextOverlap]_vars => CInv'
<1> SUFFICES ASSUME CInv, SearchesApart, [NextOverlap]_vars PROVE CInv' OBVIOUS
<1>0. TInv' BY TypeStep DEF CInv
<1>1. ASSUME NEW j \in Jobs, Step(j) \/ AddFails(j) PROVE CInv'
  BY <1>0, <1>1, SearchInv, InsertInv, RemovalInv DEF Step
<1>2. CASE (\E t \in Tickets : MoveToDone(t) \/ Reopen(t) \/ Archive(t) \/ Unarchive(t)) \/ UNCHANGED vars
  <2>1. UNCHANGED <<links, job>> BY <1>2 DEF MoveToDone, Reopen, Archive, Unarchive, vars
  <2>2. \A i \in Jobs : Searched(i)' BY <2>1 DEF CInv, Searched
  <2> QED BY <1>0, <2>1, <2>2, SameLinks
<1> QED BY <1>1, <1>2 DEF Next, NextOverlap

\* wouldCreateCycle, for any number of overlapping callers: no ticket ever waits
\* for itself through any chain of links, whatever is linked, unlinked or
\* deleted; only two callers between search and commit can break this.
THEOREM LinksNeverCycle == SpecOverlap /\ []SearchesApart => []Acyclic
<1>1. Init => CInv
  <2> SUFFICES ASSUME Init PROVE CInv OBVIOUS
  <2>1. \A j \in Jobs : job[j] = Idle BY DEF Init
  <2>2. Acyclic BY DEF Init, Acyclic, PrereqsOf
  <2>3. \A j \in Jobs : Searched(j) BY <2>1, IdleIs DEF Searched
  <2> QED BY <2>2, <2>3, TypeInit DEF CInv
<1>2. CInv => Acyclic BY DEF CInv
<1> QED BY <1>1, <1>2, CycleStep, PTL DEF SpecOverlap
=============================================================================

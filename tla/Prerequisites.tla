---------------------------- MODULE Prerequisites ----------------------------
(***************************************************************************)
(* TicketPrerequisitesService: the "blocked by" links between tickets and  *)
(* the pending_on_tickets flag derived from them, with the callers that    *)
(* change links or the status of a prerequisite (TicketsController, the    *)
(* MCP prerequisite tools, TicketDispatchService.onDone).                  *)
(*                                                                         *)
(* A job is one execution of such a caller.  It reads in one step and      *)
(* writes in a later one, as the code does around its awaits; the add      *)
(* transaction sees the rows committed before its reads and publishes its  *)
(* own at its commit (Postgres, read committed).                           *)
(***************************************************************************)
EXTENDS Integers

CONSTANTS Tickets,
          Jobs          \* executions that may overlap

VARIABLES exists,       \* ticket rows
          done,         \* tickets with status done
          archived,     \* tickets with archived_at set
          links,        \* ticket_prerequisites rows <<dependent, prerequisite>>
          parked,       \* tickets with pending_on_tickets
          doneEvents,   \* in-process "moved to done" activities not handled yet
          job,          \* what each job holds between its steps
          reopened      \* tickets that left done or the archive at least once

vars == <<exists, done, archived, links, parked, doneEvents, job, reopened>>

Idle == [at |-> "idle", t |-> {}, ps |-> {}, seen |-> {}, was |-> {}, open |-> {},
         left |-> {}, flips |-> {}]

Init ==
  /\ exists = Tickets /\ done = {} /\ archived = {} /\ links = {} /\ parked = {}
  /\ doneEvents = {} /\ reopened = {}
  /\ job = [j \in Jobs |-> Idle]

PrereqsOf(t, ls) == {l[2] : l \in {k \in ls : k[1] = t}}
DependentsOf(p, ls) == {l[1] : l \in {k \in ls : k[2] = p}}

\* anyPrereqOpen: a missing, archived or done prerequisite is satisfied.
OpenTickets == exists \ (archived \cup done)
AnyPrereqOpen(t, ls) == PrereqsOf(t, ls) \cap OpenTickets # {}

\* wouldCreateCycle: the depth-first search from c visits c and whatever a
\* visited ticket waits for, and nothing else: the least set closed under links.
Closed(S, ls) == \A l \in ls : l[1] \in S => l[2] \in S
Visited(c, ls) ==
  {t \in Tickets : \A S \in SUBSET Tickets : c \in S /\ Closed(S, ls) => t \in S}
\* Seeded fault: only the direct prerequisites of the candidate are looked at.
WouldCreateShortCycle(t, c, ls) == t = c \/ t \in PrereqsOf(c, ls)
WouldCreateCycle(t, c, ls) == t \in Visited(c, ls)

Become(j, r) == job' = [job EXCEPT ![j] = r]
EndJob(j) == Become(j, Idle)

-----------------------------------------------------------------------------
(* addPrerequisites.                                                       *)

\* The validation reads: the dependent row is kept and used again later.
AddValidate(j, t, ps) ==
  /\ job[j].at = "idle"
  /\ ps # {} /\ t \in exists \ archived
  /\ t \notin ps /\ ps \subseteq exists \ archived
  /\ Become(j, [Idle EXCEPT !.at = "cycle", !.t = {t}, !.ps = ps, !.was = parked \cap {t}])
  /\ UNCHANGED <<exists, done, archived, links, parked, doneEvents, reopened>>

AddCheckCycle(j) ==
  /\ job[j].at = "cycle"
  /\ \/ /\ \A t \in job[j].t, p \in job[j].ps : ~WouldCreateCycle(t, p, links)
        /\ Become(j, [job[j] EXCEPT !.at = "insert"])
     \/ /\ \E t \in job[j].t, p \in job[j].ps : WouldCreateCycle(t, p, links)
        /\ EndJob(j)
  /\ UNCHANGED <<exists, done, archived, links, parked, doneEvents, reopened>>

NewLinks(j) == job[j].t \X job[j].ps

\* Inside the transaction: insert, re-read the links, read each prerequisite.
AddEvaluate(j) ==
  /\ job[j].at = "insert"
  /\ Become(j, [job[j] EXCEPT !.at = "commit",
                  !.open = {t \in job[j].t : AnyPrereqOpen(t, links \cup NewLinks(j))}])
  /\ UNCHANGED <<exists, done, archived, links, parked, doneEvents, reopened>>

\* The flag as it is after a write of `next` guarded by `before # next`.
\* Seeded fault: the flag is only ever cleared.
NeverPark(before, next, ts) == IF before # next THEN parked \ ts ELSE parked
FlagWrite(before, next, ts) == IF before # next THEN (parked \ ts) \cup next ELSE parked

\* The foreign keys of the inserted rows.
KeysHold(j) == job[j].t \cup job[j].ps \subseteq exists

\* The comparison is with the row read before the transaction.
AddCommit(j) ==
  /\ job[j].at = "commit" /\ KeysHold(j)
  /\ links' = links \cup NewLinks(j)
  /\ parked' = FlagWrite(job[j].was, job[j].open, job[j].t)
  /\ EndJob(j)
  /\ UNCHANGED <<exists, done, archived, doneEvents, reopened>>

\* The row a key points to is gone: the transaction rolls back.
AddFails(j) ==
  /\ job[j].at = "commit" /\ ~KeysHold(j)
  /\ EndJob(j)
  /\ UNCHANGED <<exists, done, archived, links, parked, doneEvents, reopened>>

-----------------------------------------------------------------------------
(* The callers that re-evaluate dependents.                                *)

\* The removal routes: the flag as the route reads it, then the link deleted.
RemoveLink(j, t, p) ==
  /\ job[j].at = "idle"
  /\ <<t, p>> \in links
  /\ links' = links \ {<<t, p>>}
  /\ Become(j, [Idle EXCEPT !.at = "removed", !.ps = {t}, !.seen = parked \cap {t}])
  /\ UNCHANGED <<exists, done, archived, parked, doneEvents, reopened>>

\* evaluatePendingForDependentScoped: the reads for dependent d, whose flag the
\* caller has already seen, with `left` still to be visited.
Evaluating(j, d, seen, left) ==
  [job[j] EXCEPT !.at = "write", !.ps = {d}, !.seen = seen, !.left = left,
     !.was = parked \cap {d},
     !.open = {x \in {d} \cap exists : AnyPrereqOpen(x, links)}]

RemoveEvaluate(j) ==
  /\ job[j].at = "removed"
  /\ \E d \in job[j].ps : Become(j, Evaluating(j, d, job[j].seen, {}))
  /\ UNCHANGED <<exists, done, archived, links, parked, doneEvents, reopened>>

\* onPrerequisiteReached, for a "moved to done" activity of p (onDone).
\* Seeded fault: the hook looks at the prerequisites of p, not its dependents.
Backwards(p) == PrereqsOf(p, links)
Reached(p) == DependentsOf(p, links)

DoneHook(j, p) ==
  /\ job[j].at = "idle"
  /\ p \in doneEvents
  /\ doneEvents' = doneEvents \ {p}
  /\ IF p \in done
       THEN Become(j, [Idle EXCEPT !.at = "next", !.left = Reached(p)])
       ELSE UNCHANGED job
  /\ UNCHANGED <<exists, done, archived, links, parked, reopened>>

\* onPrerequisiteRemoved, before the row of p is deleted.
DeleteStart(j, p) ==
  /\ job[j].at = "idle"
  /\ p \in exists
  /\ links' = {l \in links : l[2] # p}
  /\ Become(j, [Idle EXCEPT !.at = "next", !.t = {p}, !.left = DependentsOf(p, links)])
  /\ UNCHANGED <<exists, done, archived, parked, doneEvents, reopened>>

\* _reevaluateAndCollectFlips: one dependent read ...
EvaluateRead(j) ==
  /\ job[j].at = "next"
  /\ \E d \in job[j].left :
       Become(j, Evaluating(j, d, parked \cap {d}, job[j].left \ {d}))
  /\ UNCHANGED <<exists, done, archived, links, parked, doneEvents, reopened>>

\* ... and its flag written; a dependent that was parked and is not any more
\* has flipped.
\* Seeded fault: one that was parked has.
FlippedIfParked(j) == job[j].seen
Flipped(j) == job[j].seen \ job[j].open

EvaluateWrite(j) ==
  /\ job[j].at = "write"
  /\ parked' = FlagWrite(job[j].was, job[j].open, job[j].ps) \cap exists
  /\ Become(j, [job[j] EXCEPT !.at = "next", !.ps = {}, !.seen = {}, !.was = {}, !.open = {},
                  !.flips = @ \cup Flipped(j)])
  /\ UNCHANGED <<exists, done, archived, links, doneEvents, reopened>>

\* The foreign keys take the links of a deleted row along.
\* Seeded fault: only the prerequisite's key cascades.
CascadePrerequisite(gone) == {l \in links : l[2] \notin gone}
Cascade(gone) == {l \in links : l[1] \notin gone /\ l[2] \notin gone}

\* Every dependent is done: delete the row if this is a delete, then hand the
\* flipped ones to resumeTicket.
EvaluateEnd(j) ==
  /\ job[j].at = "next" /\ job[j].left = {}
  /\ exists' = exists \ job[j].t
  /\ links' = Cascade(job[j].t)
  /\ parked' = parked \ job[j].t
  /\ done' = done \ job[j].t
  /\ archived' = archived \ job[j].t
  /\ EndJob(j)
  /\ UNCHANGED <<doneEvents, reopened>>

-----------------------------------------------------------------------------
(* Other writers of the rows the flag depends on.                          *)

\* TicketService.move to done: the save, then the activity its listener handles.
MoveToDone(t) ==
  /\ t \in exists \ (done \cup archived)
  /\ done' = done \cup {t}
  /\ doneEvents' = doneEvents \cup {t}
  /\ UNCHANGED <<exists, archived, links, parked, job, reopened>>

\* TicketService.move out of done: no dependent is looked at.
Reopen(t) ==
  /\ t \in done \ archived
  /\ done' = done \ {t}
  /\ reopened' = reopened \cup {t}
  /\ UNCHANGED <<exists, archived, links, parked, doneEvents, job>>

\* archiveTicket, unarchiveTicket and TicketArchiverService: archived_at only.
Archive(t) ==
  /\ t \in exists \ archived
  /\ archived' = archived \cup {t}
  /\ UNCHANGED <<exists, done, links, parked, doneEvents, job, reopened>>

Unarchive(t) ==
  /\ t \in archived
  /\ archived' = archived \ {t}
  /\ reopened' = reopened \cup {t}
  /\ UNCHANGED <<exists, done, links, parked, doneEvents, job>>

\* The process stops: jobs and undelivered in-process activities are gone.
Crash ==
  /\ doneEvents # {} \/ \E j \in Jobs : job[j].at # "idle"
  /\ doneEvents' = {}
  /\ job' = [j \in Jobs |-> Idle]
  /\ UNCHANGED <<exists, done, archived, links, parked, reopened>>

-----------------------------------------------------------------------------
Step(j) ==
  \/ \E t \in Tickets, ps \in SUBSET Tickets : AddValidate(j, t, ps)
  \/ AddCheckCycle(j) \/ AddEvaluate(j) \/ AddCommit(j)
  \/ \E t, p \in Tickets : RemoveLink(j, t, p)
  \/ \E p \in Tickets : DoneHook(j, p) \/ DeleteStart(j, p)
  \/ RemoveEvaluate(j) \/ EvaluateRead(j) \/ EvaluateWrite(j) \/ EvaluateEnd(j)

Next ==
  \/ \E j \in Jobs : Step(j)
  \/ \E t \in Tickets : MoveToDone(t) \/ Reopen(t) \/ Archive(t) \/ Unarchive(t)

Spec == Init /\ [][Next]_vars

SpecCrash == Init /\ [][Next \/ Crash]_vars

-----------------------------------------------------------------------------
(* Nothing in the code keeps two jobs apart between the reads and the      *)
(* writes of one of them.  These are the ways in which they may meet.      *)

\* The dependents that a job has read and will still write or hand over, the
\* prerequisites it is about to link, and the ticket it is about to delete.
Adds(j) == job[j].at \in {"cycle", "insert", "commit"}
Dependents(j) == job[j].flips \cup (IF Adds(j) THEN job[j].t ELSE job[j].ps)
Linking(j) == IF Adds(j) THEN job[j].ps ELSE {}
Deleting(j) == IF Adds(j) THEN {} ELSE job[j].t

\* No two jobs are at the same dependent.
DependentsApart == \A i, j \in Jobs : i # j => Dependents(i) \cap Dependents(j) = {}

\* None links to a ticket that another one deletes.
DeletesApart == \A i, j \in Jobs : i # j => Deleting(i) \cap Linking(j) = {}

\* No "moved to done" activity is handled while a transaction that has read its
\* ticket as a new prerequisite is still to commit.
Heard ==
  \A j \in Jobs : job[j].at = "commit" /\ job'[j] = job[j] =>
    job[j].ps \cap doneEvents \subseteq doneEvents'

\* No two jobs are between their search and their commit.
SearchesApart ==
  \A i, j \in Jobs : {job[i].at, job[j].at} \subseteq {"insert", "commit"} => i = j

\* With several jobs a row may vanish under an insert.
NextOverlap == Next \/ \E j \in Jobs : AddFails(j)
SpecOverlap == Init /\ [][NextOverlap]_vars

\* Overlapping jobs that never meet.
SpecApart ==
  Init /\ [][NextOverlap /\ DependentsApart' /\ DeletesApart' /\ SearchesApart' /\ Heard]_vars

-----------------------------------------------------------------------------
(* Properties.                                                             *)

JobState == [at: {"idle", "cycle", "insert", "commit", "removed", "next", "write"},
             t: SUBSET Tickets, ps: SUBSET Tickets, seen: SUBSET Tickets, was: SUBSET Tickets,
             open: SUBSET Tickets, left: SUBSET Tickets, flips: SUBSET Tickets]

\* Every variable stays in its domain; only existing tickets have links or flags.
TypeOK ==
  /\ exists \subseteq Tickets
  /\ done \subseteq exists /\ archived \subseteq exists /\ parked \subseteq exists
  /\ links \subseteq exists \X exists
  /\ doneEvents \subseteq Tickets /\ reopened \subseteq Tickets
  /\ job \in [Jobs -> JobState]

\* Nothing is under way that could still change a flag.
Settled == doneEvents = {} /\ \A j \in Jobs : job[j].at = "idle"

\* evaluatePendingForDependent: once everything has settled, a parked ticket
\* still waits for some open prerequisite, or for one that was archived while
\* it was open, which no route re-evaluates; nobody else is left behind.
NoneStranded ==
  Settled => \A t \in parked : AnyPrereqOpen(t, links) \/ PrereqsOf(t, links) \cap archived # {}

\* The promise of the header of ticket-prerequisites.service.ts, that archiving
\* a prerequisite leaves nobody behind either.  It does not hold.
ArchiveStrandsNobody == Settled => \A t \in parked : AnyPrereqOpen(t, links)

\* addPrerequisites: once everything has settled, a ticket blocked by an open
\* prerequisite is parked, unless that prerequisite was reopened later.
BlockedIsParked ==
  Settled => \A l \in links : l[2] \in OpenTickets \ reopened => l[1] \in parked

\* wouldCreateCycle: no ticket waits for itself through any chain of links.
Acyclic == \A t \in Tickets : \A p \in PrereqsOf(t, links) : t \notin Visited(p, links)

\* onPrerequisiteReached and onPrerequisiteRemoved: a dependent that is handed
\* to resumeTicket is neither parked nor blocked by a second prerequisite,
\* unless that one was reopened meanwhile.
ResumedIsFree ==
  \A j \in Jobs : \A t \in job[j].flips :
    t \notin parked /\ PrereqsOf(t, links) \cap OpenTickets \subseteq reopened
=============================================================================

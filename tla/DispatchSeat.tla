---------------------------- MODULE DispatchSeat ----------------------------
(***************************************************************************)
(* The seat of one (ticket, role, agent) in the agent manager: the         *)
(* reservation that column triggers, nudges, forced respawns and role      *)
(* mentions compete for before they provision a worktree and spawn.        *)
(*                                                                         *)
(* tryReserveDispatch is a synchronous compare-and-set, but a dispatch     *)
(* that has the seat awaits the worktree, the session and the one-shot,    *)
(* and holds the seat until its handler returns or the process it started  *)
(* exits.  A seat that is held too long is taken over, and its late holder *)
(* is still there.  What is turned away meanwhile may be owed a replay     *)
(* when the seat is given back.                                            *)
(*                                                                         *)
(* A dispatch is a slot: it is its own nonce and the pid of its one-shot.  *)
(* A slot is free again once its finally block, or the exit hook of its    *)
(* process, has run, and the replay that this step starts takes it over.   *)
(***************************************************************************)
EXTENDS Naturals, FiniteSets

CONSTANTS Slots,        \* bound: dispatches of the key in progress at once
          NoSlot,       \* the nonce of a reservation that has none
          Valve         \* INFLIGHT_SUPPRESS_SAFETY_VALVE

ASSUME SeatAssumption ==
  /\ IsFiniteSet(Slots) /\ NoSlot \notin Slots
  /\ Valve \in Nat \ {0}

VARIABLES persistent,   \* persistentTicketSessions: which registry holds the seat
          seat,         \* _inflight[key] or #fallback[key]
          suppress,     \* #reserveSuppress[key], no further than Valve
          slot,         \* the dispatches
          session,      \* _sessions[key]
          stray,        \* a one-shot runs that no seat was kept for
          holder,       \* #holders[key]
          pendingForce, \* #pendingForce has key
          pendingColumn \* #pendingColumnWorkflow has key

tracker == <<holder, pendingForce, pendingColumn>>
vars == <<persistent, seat, suppress, slot, session, stray, tracker>>

NoSeat == [nonce |-> NoSlot, pid |-> FALSE, age |-> "free"]
Idle == [kind |-> "none", phase |-> "idle", title |-> "none"]

\* title: what the dispatch has of the seat.  "none" it reused a live session
\* and placed no reservation, "lost" another dispatch took the seat over.
Dispatch == [kind: {"trigger", "force", "mention"},
             phase: {"provisioning", "session", "fallback", "oneshot", "running", "exited"},
             title: {"reserved", "none", "lost"}]
Replay == [kind: {"column", "force"}, phase: {"replay"}, title: {"none"}]
Ages == {"young", "old", "stale"}
Reservation == [nonce: Slots, pid: BOOLEAN, age: Ages] \cup [nonce: {NoSlot}, pid: {FALSE}, age: Ages]
SessionEntry == [state: {"live", "dead"}, title: {"reserved", "none", "lost"}]
NoSession == [state |-> "none", title |-> "none"]

Taken == seat # NoSeat
Live == session.state = "live"
Purged == IF Live THEN session ELSE NoSession
Reserved(d) == slot[d].title # "none"

Init ==
  /\ persistent \in BOOLEAN
  /\ seat = NoSeat /\ suppress = 0
  /\ slot = [d \in Slots |-> Idle]
  /\ session = NoSession /\ stray = FALSE
  /\ holder = "none" /\ pendingForce = FALSE /\ pendingColumn = FALSE

\* The process of the slot that the seat names still exists.
HolderAlive == seat.pid /\ slot[seat.nonce].phase = "running"

\* The reservation is presumed a zombie's.  A reservation with a pid is judged
\* by its process alone.
Evictable ==
  IF seat.pid THEN ~HolderAlive
  ELSE \/ seat.age = "stale"
       \/ persistent /\ suppress + 1 >= Valve /\ seat.age = "old"

\* The dispatches once the seat's owner has lost it.  To evict a process that
\* runs is no way to end its title.
Lost(d) == [slot[d] EXCEPT !.title = "lost"]
Robbed == [d \in Slots |-> IF d = seat.nonce THEN Lost(d) ELSE slot[d]]
Evicted == [d \in Slots |-> IF d = seat.nonce /\ slot[d].phase # "running" THEN Lost(d) ELSE slot[d]]

\* tryReserveDispatch asks for a live session first.
\* Seeded fault: the reservation alone decides.
SeatOnly == FALSE
LiveFirst == Live

Kind(k) == IF k \in {"column", "nudge"} THEN "trigger" ELSE k

\* tryReserveDispatch / tryAcquireFallback for dispatch d of kind k, and what
\* handleTrigger and handleCommentMention do with the answer.
Reuse(d, k) ==
  /\ LiveFirst
  /\ suppress' = 0
  /\ slot' = [slot EXCEPT ![d] =
       IF k = "mention" THEN Idle
       ELSE [kind |-> Kind(k), phase |-> "provisioning", title |-> "none"]]
  /\ UNCHANGED <<seat, session, tracker>>

\* recordSuppression; a forced trigger is replayed as such in any case.
Captures(k) == k = "column" /\ holder = "mention"

Suppressed(d, k) ==
  /\ ~LiveFirst /\ Taken /\ ~Evictable
  /\ suppress' = IF persistent /\ ~seat.pid /\ suppress < Valve THEN suppress + 1 ELSE suppress
  /\ pendingForce' = (pendingForce \/ k = "force")
  /\ pendingColumn' = (pendingColumn \/ Captures(k))
  /\ slot' = [slot EXCEPT ![d] = Idle]
  /\ session' = Purged
  /\ UNCHANGED <<seat, holder>>

\* noteHolder: the last writer wins.
NoteHolder(k) == IF k = "mention" THEN "mention" ELSE "trigger"

Reserve(d, k) ==
  /\ ~LiveFirst /\ (Taken => Evictable)
  /\ seat' = [nonce |-> d, pid |-> FALSE, age |-> "young"]
  /\ suppress' = 0
  /\ slot' = [Evicted EXCEPT ![d] =
       [kind |-> Kind(k), title |-> "reserved",
        phase |-> IF k = "mention" THEN "fallback" ELSE "provisioning"]]
  /\ holder' = NoteHolder(k)
  /\ session' = Purged
  /\ UNCHANGED <<pendingForce, pendingColumn>>

Handle(d, k) ==
  /\ Reuse(d, k) \/ Suppressed(d, k) \/ Reserve(d, k)
  /\ UNCHANGED <<persistent, stray>>

Arrive(d) ==
  /\ slot[d] = Idle
  /\ \E k \in {"column", "nudge", "force", "mention"} : Handle(d, k)

\* releaseDispatch / releaseFallback: the compare on the nonce makes the late
\* release of a holder that was evicted a no-op.
\* Seeded fault: no compare.
ReleasedByAny(d) == NoSeat
Released(d) == IF Taken /\ seat.nonce # d THEN seat ELSE NoSeat

\* onRelease and #replaySuppressedDispatch: at most one replay, a forced one
\* first.  The replay awaits the server before it is dispatched.
HandBack ==
  IF pendingForce \/ pendingColumn
  THEN [kind |-> IF pendingForce THEN "force" ELSE "column", phase |-> "replay", title |-> "none"]
  ELSE Idle

\* The finally block of handleTrigger and handleCommentMention, or the exit
\* hook in its place.  A dispatch that reused a session only settles the
\* tracker.
Settle(d, dispatches) ==
  /\ slot' = [dispatches EXCEPT ![d] = HandBack]
  /\ holder' = "none" /\ pendingForce' = FALSE /\ pendingColumn' = FALSE
  /\ UNCHANGED persistent

\* Seeded fault: the seat of a mention is given back without its onReleased.
EndDispatchUnheard(d) ==
  /\ seat' = IF Reserved(d) THEN Released(d) ELSE seat
  /\ suppress' = IF Reserved(d) /\ seat' = NoSeat THEN 0 ELSE suppress
  /\ IF slot[d].kind = "mention"
     THEN slot' = [slot EXCEPT ![d] = Idle] /\ UNCHANGED <<persistent, tracker>>
     ELSE Settle(d, slot)
EndDispatch(d) ==
  /\ seat' = IF Reserved(d) THEN Released(d) ELSE seat
  /\ suppress' = IF Reserved(d) /\ seat' = NoSeat THEN 0 ELSE suppress
  /\ Settle(d, slot)

\* #replaySuppressedForce, #replayColumnWorkflowTrigger: the server no longer
\* wants it, or it comes in like any trigger.
ReplayStale(d) ==
  /\ slot[d].phase = "replay"
  /\ slot' = [slot EXCEPT ![d] = Idle]
  /\ UNCHANGED <<persistent, seat, suppress, session, stray, tracker>>

ReplayArrives(d) == slot[d].phase = "replay" /\ Handle(d, slot[d].kind)

Go(d, phase) == slot' = [slot EXCEPT ![d].phase = phase]

\* A gate of #dispatchTriggerBody or of dispatchTrigger ends the dispatch.
Abort(d) ==
  /\ slot[d].phase = "provisioning"
  /\ EndDispatch(d)
  /\ UNCHANGED <<session, stray>>

\* dispatchTrigger: a follow-up turn for the live session.
FollowUp(d) ==
  /\ slot[d].phase = "provisioning" /\ persistent
  /\ Live /\ slot[d].kind # "force"
  /\ EndDispatch(d)
  /\ UNCHANGED <<session, stray>>

\* dispatchTrigger drops or declines; the one-shot is next.
Decline(d) ==
  /\ slot[d].phase = "provisioning"
  /\ persistent => ~Live
  /\ session' = Purged
  /\ Go(d, "fallback")
  /\ UNCHANGED <<persistent, seat, suppress, stray, tracker>>

\* dispatchTrigger spawns: for lack of a session, or after it has killed the
\* session, for a forced respawn, a split or a new key.  A dispatch that has
\* no reservation places one without a nonce.
InFlightSpawn(d) == ~Live /\ Taken /\ ~Reserved(d)
StartSession(d) ==
  /\ slot[d].phase = "provisioning" /\ persistent
  /\ ~InFlightSpawn(d)
  /\ session' = NoSession
  /\ IF Reserved(d)
     THEN Go(d, "session") /\ UNCHANGED seat
     ELSE /\ seat' = [nonce |-> NoSlot, pid |-> FALSE, age |-> "young"]
          /\ slot' = [Robbed EXCEPT ![d].phase = "session"]
  /\ UNCHANGED <<persistent, suppress, stray, tracker>>

\* The capacity gate comes after the kill.
DeclineAfterKill(d) ==
  /\ slot[d].phase = "provisioning" /\ persistent /\ Live
  /\ session' = NoSession
  /\ Go(d, "fallback")
  /\ UNCHANGED <<persistent, seat, suppress, stray, tracker>>

\* _spawnSession returns.  Without a reservation of the dispatcher's, the
\* finally block of dispatchTrigger then deletes whatever is in the seat.
SessionSpawned(d) ==
  /\ slot[d].phase = "session"
  /\ session' = [state |-> "live", title |-> slot[d].title]
  /\ IF Reserved(d) THEN EndDispatch(d)
     ELSE seat' = NoSeat /\ Settle(d, Robbed) /\ UNCHANGED suppress
  /\ UNCHANGED stray

SessionFailed(d) ==
  /\ slot[d].phase = "session"
  /\ IF Reserved(d) THEN Go(d, "fallback") /\ UNCHANGED seat
     ELSE seat' = NoSeat /\ slot' = [Robbed EXCEPT ![d].phase = "fallback"]
  /\ UNCHANGED <<persistent, suppress, session, stray, tracker>>

\* SubagentManager.spawn.  findDuplicateSpawn: a trigger is a duplicate of any
\* one-shot of the key, a mention of none.
Duplicate(d) ==
  /\ slot[d].kind # "mention"
  /\ stray \/ \E e \in Slots \ {d} : slot[e].phase \in {"oneshot", "running", "exited"}

OneShotDeclined(d) ==
  /\ slot[d].phase \in {"fallback", "oneshot"}
  /\ EndDispatch(d)
  /\ UNCHANGED <<session, stray>>

StartOneShot(d) ==
  /\ slot[d].phase = "fallback" /\ ~Duplicate(d)
  /\ Go(d, "oneshot")
  /\ UNCHANGED <<persistent, seat, suppress, session, stray, tracker>>

\* attachDispatchPid
\* Seeded fault: the pid is attached whosever the reservation is.
PromotedByAny(d) == [seat EXCEPT !.pid = TRUE, !.age = "young"]
Promoted(d) == IF Taken /\ seat.nonce = d THEN [seat EXCEPT !.pid = TRUE, !.age = "young"] ELSE seat

\* The one-shot runs: its exit hook has the seat, if the dispatch had one.
OneShotSpawned(d) ==
  /\ slot[d].phase = "oneshot"
  /\ IF Reserved(d)
     THEN Go(d, "running") /\ seat' = Promoted(d) /\ UNCHANGED <<persistent, suppress, stray, tracker>>
     ELSE EndDispatch(d) /\ stray' = TRUE
  /\ UNCHANGED session

OneShotDies(d) ==
  /\ slot[d].phase = "running"
  /\ Go(d, "exited")
  /\ UNCHANGED <<persistent, seat, suppress, session, stray, tracker>>

OnExit(d) ==
  /\ slot[d].phase = "exited"
  /\ EndDispatch(d)
  /\ UNCHANGED <<session, stray>>

StrayExits ==
  /\ stray /\ stray' = FALSE
  /\ UNCHANGED <<persistent, seat, suppress, slot, session, tracker>>

\* The session's process ends, its exit handler runs, or the manager gives the
\* entry up (idle, unhealthy, LRU) and closes the session.
SessionEnds ==
  /\ \/ Live /\ session' = [session EXCEPT !.state = "dead"]
     \/ session # NoSession /\ session' = NoSession
  /\ UNCHANGED <<persistent, seat, suppress, slot, stray, tracker>>

\* Time passes for a reservation that has no pid.
Age ==
  /\ Taken /\ ~seat.pid /\ seat.age # "stale"
  /\ seat' = [seat EXCEPT !.age = IF @ = "young" THEN "old" ELSE "stale"]
  /\ UNCHANGED <<persistent, suppress, slot, session, stray, tracker>>

Step(d) ==
  \/ ReplayStale(d) \/ ReplayArrives(d)
  \/ Abort(d) \/ FollowUp(d) \/ Decline(d) \/ StartSession(d) \/ DeclineAfterKill(d)
  \/ SessionSpawned(d) \/ SessionFailed(d)
  \/ OneShotDeclined(d) \/ StartOneShot(d) \/ OneShotSpawned(d)
  \/ OneShotDies(d) \/ OnExit(d)

Next == (\E d \in Slots : Arrive(d) \/ Step(d)) \/ StrayExits \/ SessionEnds \/ Age

Spec == Init /\ [][Next]_vars

\* Handlers return, one-shots are reaped by their TTL, and exit hooks run.
FairSpec == Spec /\ \A d \in Slots : WF_vars(Step(d))

-----------------------------------------------------------------------------

\* The registries hold reservations, sessions and dispatches in progress; only
\* a reservation with a nonce (tryReserveDispatch) ever has a pid attached
\* (attachDispatchPid).
TypeOK ==
  /\ persistent \in BOOLEAN /\ stray \in BOOLEAN
  /\ seat \in Reservation \cup {NoSeat}
  /\ suppress \in 0..Valve
  /\ slot \in [Slots -> Dispatch \cup Replay \cup {Idle}]
  /\ session \in SessionEntry \cup {NoSession}
  /\ holder \in {"none", "trigger", "mention"}
  /\ pendingForce \in BOOLEAN /\ pendingColumn \in BOOLEAN

OneShots == {d \in Slots : slot[d].phase = "running"}
Entitled == {d \in OneShots : slot[d].title = "reserved"}

\* Of the processes that were started under a reservation nobody took over in
\* its provisioning window, at most one runs: whichever of a trigger and a
\* mention comes first, however slowly it provisions, and however long its
\* one-shot runs (createDispatchSeat: release on exit, promote on spawn).
SoleWorker ==
  Cardinality(Entitled) + (IF Live /\ session.title = "reserved" THEN 1 ELSE 0) <= 1

\* A seat that is taken belongs to a dispatch in progress that will give it
\* back: no return, decline or exit leaves a reservation behind to suppress
\* every later trigger until it is stale (the finally blocks of handleTrigger,
\* handleCommentMention and dispatchTrigger, and the exit hook).
SeatHasOwner ==
  Taken =>
    \/ seat.nonce \in Slots /\ slot[seat.nonce].title = "reserved"
    \/ seat.nonce = NoSlot /\ \E d \in Slots : slot[d].phase = "session" /\ ~Reserved(d)

\* Until it is taken over, the seat stays with the dispatch that reserved it:
\* the late release of an evicted holder, or the exit hook of a dead process,
\* does not open it (the compare of releaseDispatch and releaseFallback).
SeatIsKept == \A d \in Slots : slot[d].title = "reserved" => seat.nonce = d

\* The registry and the dispatches agree on who owns the seat, through every
\* takeover, early return and exit (tryReserveDispatch, releaseDispatch).
SeatIsOwned == SeatHasOwner /\ SeatIsKept

\* A forced respawn or a column trigger that was captured when it was turned
\* away is replayed, whoever holds the seat and however its dispatch ends
\* (onRelease, #replaySuppressedDispatch).
CapturedIsReplayed ==
  pendingForce \/ pendingColumn ~> \E d \in Slots : slot[d].phase = "replay"

(***************************************************************************)
(* Two statements of the code's comments that do not hold: the seat has    *)
(* one worker, and every release that does not hold the seat is a no-op.   *)
(***************************************************************************)

\* One process at a time works for the key.
OneWorker ==
  Cardinality(OneShots) + (IF Live THEN 1 ELSE 0) + (IF stray THEN 1 ELSE 0) <= 1

\* A mention that holds the seat is known to (onRelease is not guarded by the
\* nonce).
HolderAlwaysKnown ==
  Taken /\ seat.nonce \in Slots =>
    (holder = "mention") = (slot[seat.nonce].kind = "mention")
=============================================================================

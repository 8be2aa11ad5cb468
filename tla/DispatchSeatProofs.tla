------------------------- MODULE DispatchSeatProofs -------------------------
(* Proofs about DispatchSeat, for any number of overlapping dispatches. *)
EXTENDS DispatchSeat, FiniteSetTheorems, TLAPS

-----------------------------------------------------------------------------
(* The inductive invariant.                                                *)

\* attachDispatchPid came with the spawn: a one-shot that runs under a title
\* is known to the seat by its pid, so that only its exit makes it evictable.
RunningIsPromoted ==
  \A d \in Slots : slot[d].phase = "running" /\ slot[d].title = "reserved" => seat.pid

\* A session that was spawned under a reservation is not joined by another
\* reservation while it lives.
SessionEndsTitle ==
  Live /\ session.title = "reserved" => \A d \in Slots : slot[d].title # "reserved"

IInv == TypeOK /\ SeatIsOwned /\ RunningIsPromoted /\ SessionEndsTitle

-----------------------------------------------------------------------------
(* Facts about the data.                                                   *)

SlotState == Dispatch \cup Replay \cup {Idle}

LEMMA SlotFields ==
  ASSUME NEW x \in SlotState
  PROVE  /\ x.kind \in {"trigger", "force", "mention", "column", "none"}
         /\ x.phase \in {"provisioning", "session", "fallback", "oneshot", "running", "exited",
                         "replay", "idle"}
         /\ x.title \in {"reserved", "none", "lost"}
         /\ x.phase \notin {"replay", "idle"} => x \in Dispatch
         /\ x.phase \in {"replay", "idle"} => x.title = "none"
  BY DEF SlotState, Dispatch, Replay, Idle

LEMMA SeatFields ==
  ASSUME TypeOK
  PROVE  /\ seat.nonce \in Slots \cup {NoSlot} /\ seat.pid \in BOOLEAN
         /\ seat.pid => seat.nonce \in Slots
         /\ seat = NoSeat => seat.nonce = NoSlot /\ ~seat.pid
         /\ Taken => seat \in Reservation
<1>1. seat \in Reservation \/ seat = NoSeat BY DEF TypeOK
<1>2. CASE seat \in [nonce: Slots, pid: BOOLEAN, age: Ages]
  <2>1. seat # NoSeat BY <1>2 DEF NoSeat, Ages
  <2> QED BY <1>1, <1>2, <2>1 DEF Taken
<1>3. CASE seat \in [nonce: {NoSlot}, pid: {FALSE}, age: Ages]
  <2>1. seat.nonce = NoSlot /\ seat.pid = FALSE BY <1>3
  <2> QED BY <1>1, <2>1 DEF Taken
<1>4. CASE seat = NoSeat
  <2>1. seat.nonce = NoSlot /\ seat.pid = FALSE BY <1>4 DEF NoSeat
  <2> QED BY <1>4, <2>1 DEF Taken
<1> QED BY <1>1, <1>2, <1>3, <1>4 DEF Reservation

\* Only the seat's own dispatch has a title to it.
LEMMA OwnerIsTitled ==
  ASSUME TypeOK, SeatIsOwned, NEW d \in Slots
  PROVE  slot[d].title = "reserved" <=> seat.nonce = d
  BY SeatAssumption, SeatFields DEF SeatIsOwned, SeatHasOwner, SeatIsKept, Taken, NoSeat

LEMMA PurgedFacts ==
  ASSUME TypeOK
  PROVE  /\ Purged \in {session, NoSession}
         /\ Purged \in SessionEntry \cup {NoSession} /\ NoSession \in SessionEntry \cup {NoSession}
         /\ NoSession.state # "live" /\ (Purged.state = "live" => Purged = session)
  BY DEF TypeOK, Purged, NoSession

\* What one dispatch does to its own phase leaves the seat alone, unless it
\* was spawning a session in a seat without a nonce, or starts to run.
LEMMA PhaseStep ==
  ASSUME IInv, NEW d \in Slots, slot[d] \in Dispatch,
         NEW p \in {"provisioning", "session", "fallback", "oneshot", "exited"},
         slot[d].phase = "session" => slot[d].title # "none",
         Go(d, p), UNCHANGED <<persistent, seat, suppress, stray, tracker>>,
         session' \in {session, NoSession}
  PROVE  IInv'
<1>1. slot' = [slot EXCEPT ![d] = [slot[d] EXCEPT !.phase = p]] BY DEF Go, IInv, TypeOK
<1>2. [slot[d] EXCEPT !.phase = p] \in Dispatch BY DEF Dispatch
<1>3. slot' \in [Slots -> SlotState] BY <1>1, <1>2 DEF IInv, TypeOK, SlotState
<1>4. TypeOK' BY <1>3 DEF IInv, TypeOK, SlotState, tracker, NoSession
<1>5. \A e \in Slots : /\ slot'[e].title = slot[e].title
                       /\ slot'[e].phase = IF e = d THEN p ELSE slot[e].phase
  BY <1>1, SlotFields DEF IInv, TypeOK, SlotState, Dispatch
<1>6. SeatIsOwned' BY <1>5 DEF IInv, SeatIsOwned, SeatHasOwner, SeatIsKept, Taken, NoSeat, Reserved
<1>7. RunningIsPromoted' BY <1>5 DEF IInv, RunningIsPromoted
<1>8. SessionEndsTitle' BY <1>5 DEF IInv, SessionEndsTitle, Live, NoSession
<1> QED BY <1>4, <1>6, <1>7, <1>8 DEF IInv

\* The finally blocks and the exit hook: what the dispatch has of the seat it
\* gives back, and nobody else's.
LEMMA EndStep ==
  ASSUME IInv, NEW d \in Slots, slot[d] \in Dispatch,
         slot[d].phase = "session" => slot[d].title # "none",
         EndDispatch(d), stray' \in BOOLEAN,
         \/ session' \in {session, NoSession}
         \/ session' \in SessionEntry /\ session'.title = slot[d].title
  PROVE  IInv'
<1>1. HandBack \in SlotState /\ HandBack.title = "none" /\ HandBack.phase \in {"idle", "replay"}
  BY DEF HandBack, SlotState, Replay, Idle
<1>2. slot' = [slot EXCEPT ![d] = HandBack] BY DEF EndDispatch, Settle
<1>3. slot' \in [Slots -> SlotState] BY <1>1, <1>2 DEF IInv, TypeOK, SlotState
<1>4. seat' = IF seat.nonce = d THEN NoSeat ELSE seat
  BY OwnerIsTitled, SeatFields, SeatAssumption DEF EndDispatch, Released, Reserved, IInv, Taken, NoSeat
<1>5. suppress' \in 0..Valve BY SeatAssumption DEF EndDispatch, IInv, TypeOK
<1>6. UNCHANGED persistent /\ holder' = "none" /\ pendingForce' = FALSE /\ pendingColumn' = FALSE
  BY DEF EndDispatch, Settle
<1>7. session' \in SessionEntry \cup {NoSession} BY DEF IInv, TypeOK
<1>8. TypeOK' BY <1>3, <1>4, <1>5, <1>6, <1>7 DEF IInv, TypeOK, SlotState
<1>9. \A e \in Slots : slot'[e] = IF e = d THEN HandBack ELSE slot[e]
  BY <1>2 DEF IInv, TypeOK
<1>10. \A e \in Slots : slot[e].title = "reserved" <=> seat.nonce = e
  BY OwnerIsTitled DEF IInv
<1>11. \A e \in Slots : slot'[e].title = "reserved" <=> seat'.nonce = e
  BY <1>1, <1>4, <1>9, <1>10, SeatAssumption DEF NoSeat
<1>12. SeatIsOwned'
  <2>1. SeatIsKept' BY <1>11 DEF SeatIsKept
  <2>2. SeatHasOwner'
    BY <1>1, <1>4, <1>9, <1>11 DEF IInv, SeatIsOwned, SeatHasOwner, Taken, NoSeat, Reserved
  <2> QED BY <2>1, <2>2 DEF SeatIsOwned
<1>13. RunningIsPromoted'
  BY <1>1, <1>4, <1>9, <1>10, <1>11 DEF IInv, RunningIsPromoted
<1>14. SessionEndsTitle'
  BY <1>1, <1>9, <1>10 DEF IInv, SessionEndsTitle, Live, NoSession
<1> QED BY <1>8, <1>12, <1>13, <1>14 DEF IInv

Requests == {"column", "nudge", "force", "mention"}

\* A trigger or a mention, or the replay of one, comes to the reservation.
LEMMA HandleStep ==
  ASSUME IInv, NEW d \in Slots, slot[d].phase \in {"idle", "replay"}, NEW k \in Requests,
         Handle(d, k)
  PROVE  IInv'
<1> DEFINE Busy(phase, title) == [kind |-> Kind(k), phase |-> phase, title |-> title]
<1>1. Kind(k) \in {"trigger", "force", "mention"} BY DEF Kind, Requests
<1>2. slot[d].title = "none" BY SlotFields DEF IInv, TypeOK, SlotState
<1>3. \A e \in Slots : slot[e].title = "reserved" <=> seat.nonce = e
  BY OwnerIsTitled DEF IInv
<1>4. CASE Reuse(d, k)
  <2>1. PICK x \in {Idle, Busy("provisioning", "none")} : slot' = [slot EXCEPT ![d] = x]
    BY <1>4 DEF Reuse
  <2>2. x \in SlotState /\ x.title = "none" /\ x.phase # "running"
    BY <1>1 DEF SlotState, Dispatch, Idle
  <2>3. slot' \in [Slots -> SlotState] BY <2>1, <2>2 DEF IInv, TypeOK, SlotState
  <2>4. UNCHANGED <<seat, session, tracker, persistent, stray>> /\ suppress' = 0
    BY <1>4 DEF Reuse, Handle
  <2>5. TypeOK' BY <2>3, <2>4, SeatAssumption DEF IInv, TypeOK, SlotState, tracker
  <2>6. \A e \in Slots : slot'[e] = IF e = d THEN x ELSE slot[e] BY <2>1 DEF IInv, TypeOK
  <2> HIDE DEF Busy
  <2>7. SeatIsOwned'
    BY <1>2, <2>2, <2>4, <2>6 DEF IInv, SeatIsOwned, SeatHasOwner, SeatIsKept, Taken, NoSeat, Reserved
  <2>8. RunningIsPromoted' BY <2>2, <2>4, <2>6 DEF IInv, RunningIsPromoted
  <2>9. SessionEndsTitle' BY <2>2, <2>4, <2>6 DEF IInv, SessionEndsTitle, Live
  <2> QED BY <2>5, <2>7, <2>8, <2>9 DEF IInv
<1>5. CASE Suppressed(d, k)
  <2>1. slot' = [slot EXCEPT ![d] = Idle] BY <1>5 DEF Suppressed
  <2>2. slot' \in [Slots -> SlotState] BY <2>1 DEF IInv, TypeOK, SlotState
  <2>3. UNCHANGED <<seat, holder, persistent, stray>> /\ session' = Purged BY <1>5 DEF Suppressed, Handle
  <2>4. pendingForce' \in BOOLEAN /\ pendingColumn' \in BOOLEAN BY <1>5 DEF Suppressed
  <2>5. suppress' \in 0..Valve BY <1>5, SeatAssumption DEF Suppressed, IInv, TypeOK
  <2>6. TypeOK' BY <2>2, <2>3, <2>4, <2>5, PurgedFacts DEF IInv, TypeOK, SlotState
  <2>7. \A e \in Slots : slot'[e] = IF e = d THEN Idle ELSE slot[e] BY <2>1 DEF IInv, TypeOK
  <2>8. SeatIsOwned'
    BY <1>2, <2>3, <2>7 DEF IInv, SeatIsOwned, SeatHasOwner, SeatIsKept, Taken, NoSeat, Reserved, Idle
  <2>9. RunningIsPromoted' BY <2>3, <2>7 DEF IInv, RunningIsPromoted, Idle
  <2>10. SessionEndsTitle' BY <2>3, <2>7, PurgedFacts DEF IInv, SessionEndsTitle, Live, Idle
  <2> QED BY <2>6, <2>8, <2>9, <2>10 DEF IInv
<1>6. CASE Reserve(d, k)
  <2> DEFINE x == Busy(IF k = "mention" THEN "fallback" ELSE "provisioning", "reserved")
  <2>1. x \in SlotState /\ x.title = "reserved" /\ x.phase # "running"
    BY <1>1 DEF SlotState, Dispatch
  <2>2. seat' = [nonce |-> d, pid |-> FALSE, age |-> "young"] BY <1>6 DEF Reserve
  <2>3. \A e \in Slots : seat.nonce = e => slot[e].phase # "running"
    BY <1>3, <1>6, SeatFields, SeatAssumption
    DEF Reserve, Evictable, HolderAlive, IInv, RunningIsPromoted, Taken, NoSeat
  <2>4. \A e \in Slots : seat.nonce = e => slot[e] \in Dispatch
    BY <1>3, SlotFields DEF IInv, TypeOK, SlotState
  <2>5. \A e \in Slots : Lost(e).title = "lost" /\ (seat.nonce = e => Lost(e) \in Dispatch)
                         /\ Lost(e).phase = slot[e].phase
    BY <2>4, SlotFields DEF Lost, Dispatch, IInv, TypeOK, SlotState, Replay, Idle
  <2>6. slot' = [Evicted EXCEPT ![d] = x] BY <1>6 DEF Reserve
  <2> HIDE DEF x
  <2>7. \A e \in Slots : slot'[e] = IF e = d THEN x ELSE IF e = seat.nonce THEN Lost(e) ELSE slot[e]
    BY <2>3, <2>6 DEF Evicted
  <2>8. slot' \in [Slots -> SlotState]
    BY <2>1, <2>4, <2>5, <2>6, <2>7 DEF Evicted, IInv, TypeOK, SlotState
  <2>9. UNCHANGED <<persistent, stray, pendingForce, pendingColumn>> /\ session' = Purged /\ suppress' = 0
    BY <1>6 DEF Reserve, Handle
  <2>10. holder' \in {"trigger", "mention"} BY <1>6 DEF Reserve, NoteHolder
  <2>11. seat' \in Reservation BY <2>2 DEF Reservation, Ages
  <2>12. TypeOK'
    BY <2>8, <2>9, <2>10, <2>11, PurgedFacts, SeatAssumption DEF IInv, TypeOK, SlotState
  <2>13. \A e \in Slots : slot'[e].title = "reserved" <=> e = d
    BY <1>3, <2>1, <2>5, <2>7
  <2>14. SeatIsOwned'
    BY <2>2, <2>13 DEF SeatIsOwned, SeatHasOwner, SeatIsKept, Taken
  <2>15. RunningIsPromoted' BY <2>1, <2>7, <2>13 DEF RunningIsPromoted
  <2>16. SessionEndsTitle'
    BY <1>6, <2>9, PurgedFacts DEF Reserve, SessionEndsTitle, Live, LiveFirst, IInv
  <2> QED BY <2>12, <2>14, <2>15, <2>16 DEF IInv
<1> QED BY <1>4, <1>5, <1>6 DEF Handle

\* A session spawned past the dispatcher's reservation: whoever had the seat
\* has lost it, when the spawn begins and when it ends.
LEMMA UnreservedStep ==
  ASSUME IInv, NEW d \in Slots, slot[d] \in Dispatch, slot[d].title = "none",
         NEW x \in SlotState, x.title = "none", x.phase # "running",
         slot' = [Robbed EXCEPT ![d] = x],
         \/ seat' = NoSeat
         \/ seat' = [nonce |-> NoSlot, pid |-> FALSE, age |-> "young"] /\ x.phase = "session",
         UNCHANGED <<persistent, suppress, stray>>,
         session' \in SessionEntry \cup {NoSession},
         holder' \in {"none", "trigger", "mention"}, pendingForce' \in BOOLEAN, pendingColumn' \in BOOLEAN
  PROVE  IInv'
<1>1. \A e \in Slots : slot[e].title = "reserved" <=> seat.nonce = e
  BY OwnerIsTitled DEF IInv
<1>2. \A e \in Slots : seat.nonce = e => slot[e] \in Dispatch
  BY <1>1, SlotFields DEF IInv, TypeOK, SlotState
<1>3. \A e \in Slots : Lost(e).title = "lost" /\ (seat.nonce = e => Lost(e) \in Dispatch)
  BY <1>2, SlotFields DEF Lost, Dispatch, IInv, TypeOK, SlotState, Replay, Idle
<1>4. \A e \in Slots : slot'[e] = IF e = d THEN x ELSE IF e = seat.nonce THEN Lost(e) ELSE slot[e]
  BY DEF Robbed
<1>5. slot' \in [Slots -> SlotState] BY <1>3, <1>4 DEF Robbed, IInv, TypeOK, SlotState
<1>6. seat' \in Reservation \cup {NoSeat}
  <2>1. [nonce |-> NoSlot, pid |-> FALSE, age |-> "young"] \in [nonce: {NoSlot}, pid: {FALSE}, age: Ages]
    BY DEF Ages
  <2> QED BY <2>1 DEF Reservation
<1>7. TypeOK' BY <1>5, <1>6 DEF IInv, TypeOK, SlotState
<1>8. \A e \in Slots : slot'[e].title # "reserved" BY <1>1, <1>3, <1>4
<1>9. SeatIsOwned'
  BY <1>4, <1>8 DEF SeatIsOwned, SeatHasOwner, SeatIsKept, Taken, NoSeat, Reserved
<1> QED BY <1>7, <1>8, <1>9 DEF IInv, RunningIsPromoted, SessionEndsTitle

\* attachDispatchPid: the one-shot of a dispatch with a title runs.
LEMMA PromoteStep ==
  ASSUME IInv, NEW d \in Slots, slot[d] \in Dispatch, slot[d].phase = "oneshot",
         Go(d, "running"), seat' = Promoted(d), UNCHANGED <<persistent, suppress, stray, tracker, session>>
  PROVE  IInv'
<1>1. slot' = [slot EXCEPT ![d] = [slot[d] EXCEPT !.phase = "running"]] BY DEF Go, IInv, TypeOK
<1>2. [slot[d] EXCEPT !.phase = "running"] \in Dispatch BY DEF Dispatch
<1>3. slot' \in [Slots -> SlotState] BY <1>1, <1>2 DEF IInv, TypeOK, SlotState
<1>4. \A e \in Slots : /\ slot'[e].title = slot[e].title
                       /\ slot'[e].phase = IF e = d THEN "running" ELSE slot[e].phase
  BY <1>1, SlotFields DEF IInv, TypeOK, SlotState, Dispatch
<1>5. seat.nonce = d => seat' = [nonce |-> d, pid |-> TRUE, age |-> "young"]
  <2> SUFFICES ASSUME seat.nonce = d PROVE seat' = [nonce |-> d, pid |-> TRUE, age |-> "young"] OBVIOUS
  <2>1. Taken BY SeatAssumption DEF Taken, NoSeat
  <2>2. seat \in [nonce: Slots, pid: BOOLEAN, age: Ages]
    BY <2>1, SeatFields, SeatAssumption DEF IInv, Reservation
  <2> QED BY <2>1, <2>2 DEF Promoted
<1>6. seat.nonce # d => seat' = seat BY DEF Promoted
<1>7. seat' \in Reservation \cup {NoSeat}
  <2>1. [nonce |-> d, pid |-> TRUE, age |-> "young"] \in [nonce: Slots, pid: BOOLEAN, age: Ages]
    BY DEF Ages
  <2>2. [nonce |-> d, pid |-> TRUE, age |-> "young"] \in Reservation BY <2>1 DEF Reservation
  <2> QED BY <1>5, <1>6, <2>2 DEF IInv, TypeOK
<1>8. TypeOK' BY <1>3, <1>7 DEF IInv, TypeOK, SlotState, tracker
<1>9. \A e \in Slots : slot[e].title = "reserved" <=> seat.nonce = e
  BY OwnerIsTitled DEF IInv
<1>10. seat'.nonce = seat.nonce BY <1>5, <1>6
<1>11. SeatIsOwned'
  BY <1>4, <1>5, <1>6, <1>9, <1>10
  DEF IInv, SeatIsOwned, SeatHasOwner, SeatIsKept, Taken, NoSeat, Reserved
<1>12. RunningIsPromoted' BY <1>4, <1>5, <1>6, <1>9 DEF IInv, RunningIsPromoted
<1>13. SessionEndsTitle' BY <1>4 DEF IInv, SessionEndsTitle, Live
<1> QED BY <1>8, <1>11, <1>12, <1>13 DEF IInv

\* The steps that are no dispatch's.
LEMMA OtherStep ==
  ASSUME IInv, StrayExits \/ SessionEnds \/ Age \/ UNCHANGED vars
  PROVE  IInv'
<1>1. CASE StrayExits \/ UNCHANGED vars
  BY <1>1 DEF StrayExits, vars, tracker, IInv, TypeOK, SeatIsOwned, SeatHasOwner, SeatIsKept, Taken,
              Reserved, RunningIsPromoted, SessionEndsTitle, Live
<1>2. CASE SessionEnds
  <2>1. UNCHANGED <<persistent, seat, suppress, slot, stray, tracker>> BY <1>2 DEF SessionEnds
  <2>2. session' \in SessionEntry \cup {NoSession} /\ session'.state # "live"
    BY <1>2 DEF SessionEnds, Live, SessionEntry, NoSession, IInv, TypeOK
  <2> QED BY <2>1, <2>2 DEF tracker, IInv, TypeOK, SeatIsOwned, SeatHasOwner, SeatIsKept, Taken,
              Reserved, RunningIsPromoted, SessionEndsTitle, Live
<1>3. CASE Age
  <2>1. UNCHANGED <<persistent, suppress, slot, session, stray, tracker>> BY <1>3 DEF Age
  <2>2. PICK a \in Ages : seat' = [seat EXCEPT !.age = a]
    BY <1>3 DEF Age, Ages
  <2>3. seat \in Reservation BY <1>3, SeatFields DEF Age, IInv
  <2>4. seat' \in Reservation /\ seat'.nonce = seat.nonce /\ (seat'.pid <=> seat.pid)
    <3>1. CASE seat \in [nonce: Slots, pid: BOOLEAN, age: Ages]
      <4>1. seat' = [nonce |-> seat.nonce, pid |-> seat.pid, age |-> a] BY <2>2, <3>1
      <4>2. seat' \in [nonce: Slots, pid: BOOLEAN, age: Ages] BY <3>1, <4>1
      <4> QED BY <4>1, <4>2 DEF Reservation
    <3>2. CASE seat \in [nonce: {NoSlot}, pid: {FALSE}, age: Ages]
      <4>1. seat' = [nonce |-> seat.nonce, pid |-> seat.pid, age |-> a] BY <2>2, <3>2
      <4>2. seat' \in [nonce: {NoSlot}, pid: {FALSE}, age: Ages] BY <3>2, <4>1
      <4> QED BY <4>1, <4>2 DEF Reservation
    <3> QED BY <2>3, <3>1, <3>2 DEF Reservation
  <2>5. TypeOK' BY <2>1, <2>4 DEF tracker, IInv, TypeOK
  <2>6. SeatIsOwned'
    BY <1>3, <2>1, <2>4 DEF Age, IInv, SeatIsOwned, SeatHasOwner, SeatIsKept, Taken, Reserved
  <2> QED BY <2>1, <2>4, <2>5, <2>6 DEF IInv, RunningIsPromoted, SessionEndsTitle, Live
<1> QED BY <1>1, <1>2, <1>3

LEMMA StepInv ==
  ASSUME IInv, NEW d \in Slots, Arrive(d) \/ Step(d)
  PROVE  IInv'
<1> USE DEF SlotState
<1>0. slot[d] \in SlotState BY DEF IInv, TypeOK
<1>1. CASE Arrive(d)
  BY <1>1, HandleStep DEF Arrive, Requests, Idle
<1>2. CASE ReplayStale(d)
  <2>1. \A e \in Slots : slot'[e] = IF e = d THEN Idle ELSE slot[e]
    BY <1>2 DEF ReplayStale, IInv, TypeOK
  <2>2. UNCHANGED <<persistent, seat, suppress, session, stray, tracker>> BY <1>2 DEF ReplayStale
  <2>3. slot' \in [Slots -> SlotState] BY <1>2 DEF ReplayStale, IInv, TypeOK
  <2>4. TypeOK' BY <2>2, <2>3 DEF tracker, IInv, TypeOK
  <2>5. Idle.title = "none" /\ Idle.phase = "idle" BY DEF Idle
  <2>6. slot[d].phase = "replay" /\ slot[d].title = "none" BY <1>0, <1>2, SlotFields DEF ReplayStale
  <2>7. SeatIsOwned'
    BY <2>1, <2>2, <2>5, <2>6 DEF IInv, SeatIsOwned, SeatHasOwner, SeatIsKept, Taken, Reserved
  <2> QED BY <2>1, <2>2, <2>4, <2>5, <2>7 DEF IInv, RunningIsPromoted, SessionEndsTitle, Live
<1>3. CASE ReplayArrives(d)
  <2>1. slot[d].kind \in Requests
    BY <1>0, <1>3 DEF ReplayArrives, Dispatch, Replay, Idle, Requests
  <2> QED BY <1>3, <2>1, HandleStep DEF ReplayArrives
<1>4. CASE Abort(d) \/ FollowUp(d) \/ OneShotDeclined(d) \/ OnExit(d)
  <2>1. slot[d] \in Dispatch /\ slot[d].phase # "session"
    BY <1>0, <1>4, SlotFields DEF Abort, FollowUp, OneShotDeclined, OnExit
  <2>2. EndDispatch(d) /\ UNCHANGED <<session, stray>>
    BY <1>4 DEF Abort, FollowUp, OneShotDeclined, OnExit
  <2>3. stray' \in BOOLEAN BY <2>2 DEF IInv, TypeOK
  <2> QED BY <2>1, <2>2, <2>3, EndStep
<1>5. CASE Decline(d) \/ DeclineAfterKill(d) \/ StartOneShot(d) \/ OneShotDies(d)
  <2>1. slot[d] \in Dispatch /\ slot[d].phase # "session"
    BY <1>0, <1>5, SlotFields DEF Decline, DeclineAfterKill, StartOneShot, OneShotDies
  <2>2. UNCHANGED <<persistent, seat, suppress, stray, tracker>> /\ session' \in {session, NoSession}
    BY <1>5, PurgedFacts DEF Decline, DeclineAfterKill, StartOneShot, OneShotDies, IInv
  <2>3. Go(d, "fallback") \/ Go(d, "oneshot") \/ Go(d, "exited")
    BY <1>5 DEF Decline, DeclineAfterKill, StartOneShot, OneShotDies
  <2> QED BY <2>1, <2>2, <2>3, PhaseStep
<1>6. CASE StartSession(d)
  <2>1. slot[d] \in Dispatch /\ slot[d].phase = "provisioning" BY <1>0, <1>6, SlotFields DEF StartSession
  <2>2. CASE Reserved(d)
    BY <1>6, <2>1, <2>2, PhaseStep DEF StartSession
  <2>3. CASE ~Reserved(d)
    <3> DEFINE x == [slot[d] EXCEPT !.phase = "session"]
    <3>1. x \in Dispatch /\ x.title = "none" /\ x.phase = "session" BY <2>1, <2>3 DEF Dispatch, Reserved
    <3>2. d # seat.nonce BY <2>3, OwnerIsTitled DEF Reserved, IInv
    <3>3. slot' = [Robbed EXCEPT ![d] = x] BY <1>6, <2>3, <3>2 DEF StartSession, Robbed
    <3>4. seat' = [nonce |-> NoSlot, pid |-> FALSE, age |-> "young"] /\ session' = NoSession
          /\ UNCHANGED <<persistent, suppress, stray, tracker>>
      BY <1>6, <2>3 DEF StartSession
    <3>5. holder' \in {"none", "trigger", "mention"} /\ pendingForce' \in BOOLEAN /\ pendingColumn' \in BOOLEAN
      BY <3>4 DEF tracker, IInv, TypeOK
    <3> HIDE DEF x
    <3> QED BY <2>1, <2>3, <3>1, <3>3, <3>4, <3>5, UnreservedStep DEF Reserved
  <2> QED BY <2>2, <2>3
<1>7. CASE SessionSpawned(d)
  <2>1. slot[d] \in Dispatch /\ slot[d].phase = "session" BY <1>0, <1>7, SlotFields DEF SessionSpawned
  <2>2. session' \in SessionEntry /\ session'.title = slot[d].title /\ UNCHANGED stray
    BY <1>7, <2>1 DEF SessionSpawned, SessionEntry, Dispatch
  <2>3. CASE Reserved(d)
    <3>1. EndDispatch(d) BY <1>7, <2>3 DEF SessionSpawned
    <3>2. stray' \in BOOLEAN BY <2>2 DEF IInv, TypeOK
    <3> QED BY <2>1, <2>2, <2>3, <3>1, <3>2, EndStep DEF Reserved
  <2>4. CASE ~Reserved(d)
    <3>1. HandBack \in SlotState /\ HandBack.title = "none" /\ HandBack.phase \in {"idle", "replay"}
      BY DEF HandBack, Replay, Idle
    <3>2. slot' = [Robbed EXCEPT ![d] = HandBack] /\ seat' = NoSeat
          /\ UNCHANGED <<persistent, suppress>>
          /\ holder' = "none" /\ pendingForce' = FALSE /\ pendingColumn' = FALSE
      BY <1>7, <2>4 DEF SessionSpawned, Settle
    <3> HIDE DEF SlotState
    <3> QED BY <2>1, <2>2, <2>4, <3>1, <3>2, UnreservedStep DEF Reserved
  <2> QED BY <2>3, <2>4
<1>8. CASE SessionFailed(d)
  <2>1. slot[d] \in Dispatch /\ slot[d].phase = "session" BY <1>0, <1>8, SlotFields DEF SessionFailed
  <2>2. CASE Reserved(d)
    BY <1>8, <2>1, <2>2, PhaseStep DEF SessionFailed, Reserved
  <2>3. CASE ~Reserved(d)
    <3> DEFINE x == [slot[d] EXCEPT !.phase = "fallback"]
    <3>1. x \in Dispatch /\ x.title = "none" /\ x.phase = "fallback" BY <2>1, <2>3 DEF Dispatch, Reserved
    <3>2. d # seat.nonce BY <2>3, OwnerIsTitled DEF Reserved, IInv
    <3>3. slot' = [Robbed EXCEPT ![d] = x] BY <1>8, <2>3, <3>2 DEF SessionFailed, Robbed
    <3>4. seat' = NoSeat /\ UNCHANGED <<persistent, suppress, session, stray, tracker>>
      BY <1>8, <2>3 DEF SessionFailed
    <3>5. /\ holder' \in {"none", "trigger", "mention"} /\ pendingForce' \in BOOLEAN /\ pendingColumn' \in BOOLEAN
          /\ session' \in SessionEntry \cup {NoSession}
      BY <3>4 DEF tracker, IInv, TypeOK
    <3> HIDE DEF x
    <3> QED BY <2>1, <2>3, <3>1, <3>3, <3>4, <3>5, UnreservedStep DEF Reserved
  <2> QED BY <2>2, <2>3
<1>9. CASE OneShotSpawned(d)
  <2>1. slot[d] \in Dispatch /\ slot[d].phase = "oneshot" BY <1>0, <1>9, SlotFields DEF OneShotSpawned
  <2>2. CASE Reserved(d)
    BY <1>9, <2>1, <2>2, PromoteStep DEF OneShotSpawned
  <2>3. CASE ~Reserved(d)
    <3>1. EndDispatch(d) /\ stray' = TRUE /\ session' = session BY <1>9, <2>3 DEF OneShotSpawned
    <3> QED BY <2>1, <3>1, EndStep
  <2> QED BY <2>2, <2>3
<1> QED
  BY <1>1, <1>2, <1>3, <1>4, <1>5, <1>6, <1>7, <1>8, <1>9 DEF Step

-----------------------------------------------------------------------------
LEMMA InitInv == Init => IInv
<1> SUFFICES ASSUME Init PROVE IInv OBVIOUS
<1>1. \A d \in Slots : slot[d] = Idle BY DEF Init
<1>2. TypeOK
  <2>1. suppress \in 0..Valve BY SeatAssumption DEF Init
  <2>2. slot \in [Slots -> Dispatch \cup Replay \cup {Idle}] BY DEF Init
  <2>3. stray \in BOOLEAN /\ pendingForce \in BOOLEAN /\ pendingColumn \in BOOLEAN BY DEF Init
  <2> QED BY <2>1, <2>2, <2>3 DEF Init, TypeOK
<1> QED
  BY <1>1, <1>2
  DEF Init, IInv, SeatIsOwned, SeatHasOwner, SeatIsKept, RunningIsPromoted, SessionEndsTitle, Taken,
      NoSeat, Idle, Live, NoSession

LEMMA NextInv == IInv /\ [Next]_vars => IInv'
  BY StepInv, OtherStep DEF Next

\* The inductive invariant of the seats and registries, for any number of
\* overlapping dispatches (createDispatchSeat and its callers).
THEOREM Inductive == Spec => []IInv
  BY InitInv, NextInv, PTL DEF Spec

\* Whatever is reserved, evicted, promoted and released, the registries hold
\* what their types say: in particular a reservation without a nonce never
\* gets a pid (attachDispatchPid).
THEOREM TypeCorrect == Spec => []TypeOK
<1>1. IInv => TypeOK BY DEF IInv
<1> QED BY <1>1, Inductive, PTL

\* For any number of overlapping dispatches: a taken seat belongs to a dispatch
\* in progress that will give it back, and a dispatch keeps the seat it
\* reserved until it is taken over (tryReserveDispatch, releaseDispatch).
THEOREM SeatOwned == Spec => []SeatIsOwned
<1>1. IInv => SeatIsOwned BY DEF IInv
<1> QED BY <1>1, Inductive, PTL

\* For any number of overlapping dispatches, at most one process that was
\* started under a reservation nobody took over runs (createDispatchSeat).
THEOREM OneEntitledWorker == Spec => []SoleWorker
<1>1. IInv => SoleWorker
  <2> SUFFICES ASSUME IInv PROVE SoleWorker OBVIOUS
  <2>1. \A d \in Slots : slot[d].title = "reserved" <=> seat.nonce = d
    BY OwnerIsTitled DEF IInv
  <2>2. Entitled \subseteq {seat.nonce} BY <2>1 DEF Entitled, OneShots
  <2>3. IsFiniteSet({seat.nonce}) /\ Cardinality({seat.nonce}) = 1 BY FS_Singleton
  <2>4. Cardinality(Entitled) \in Nat /\ Cardinality(Entitled) <= 1
    BY <2>2, <2>3, FS_Subset, FS_CardinalityType
  <2>5. CASE Live /\ session.title = "reserved"
    <3>1. Entitled = {} BY <2>5 DEF IInv, SessionEndsTitle, Entitled, OneShots
    <3>2. Cardinality(Entitled) = 0 BY <3>1, FS_EmptySet
    <3> QED BY <2>5, <3>2 DEF SoleWorker
  <2>6. CASE ~(Live /\ session.title = "reserved")
    BY <2>4, <2>6 DEF SoleWorker
  <2> QED BY <2>5, <2>6
<1> QED BY <1>1, Inductive, PTL
=============================================================================

---------------------------- MODULE SessionDefer ----------------------------
(***************************************************************************)
(* SessionLimitDeferStore of the agent manager and the dispatcher's use of *)
(* it, for one agent.  When a harness dies of the CLI's session limit, the *)
(* agent's window opens until the reset; a trigger or a role mention that  *)
(* arrives in the window is not dispatched but kept as one intent for its  *)
(* (ticket, role, agent) key.  At the reset a timer replays the intents    *)
(* through the handlers that would have taken them in the first place.     *)
(*                                                                         *)
(* A replay is a handler that awaits: it passes the window's gate, asks    *)
(* for the seat of its key, provisions and spawns, reports the pid, and    *)
(* returns.  Each of these is a step, and between any two of them come     *)
(* other events, further limits, and crashes of the manager, which the     *)
(* spawned harnesses survive.                                              *)
(*                                                                         *)
(* Time is the state of the window.  A raw payload is not represented:     *)
(* whether a trigger is a manual one, which the gate lets through, is a    *)
(* choice, and so is how a handler ends.                                   *)
(***************************************************************************)
EXTENDS Integers, FiniteSets, Bags

CONSTANTS Keys,         \* one (ticket, role) of the agent for each ticket
          MaxLimits,    \* bound: deaths of a harness by the session limit
          MaxPids,      \* bound: harnesses spawned
          MaxCrashes    \* bound: restarts of the manager

ASSUME DeferAssumption ==
  IsFiniteSet(Keys) /\ {MaxLimits, MaxPids, MaxCrashes} \subseteq Nat

VARIABLES window,       \* the agent's record: absent, before or after its reset
          intents,      \* intents of the record
          file,         \* the persisted record: its intents, or NoRecord
          timer,        \* #timer: off, at the next reset, or at once
          inFlight,     \* #inFlightReplay
          bootPids,     \* #bootDispatching
          raws,         \* keys of #inflightTriggerRaw
          jobs,         \* bag of the handlers in progress
          live,         \* harness processes
          pids,         \* harnesses spawned so far
          owed,         \* keys whose deferred work no handler has taken on
          overtaken,    \* keys deferred while a replay of theirs was running
          threw,        \* keys whose replay threw since the manager started
          loose,        \* survivors of a crash that no intent names
          failed,       \* some write of the file failed
          limits, crashes

store == <<window, intents, file, timer, inFlight, bootPids>>
ghosts == <<owed, overtaken, threw, loose>>
bounds == <<limits, crashes>>
vars == <<store, raws, jobs, live, pids, ghosts, failed, bounds>>

None == [kind |-> "none", status |-> "none", pid |-> 0]
NoRecord == [k \in {} |-> None]

Intent == [kind: {"trigger", "mention"}, status: {"pending", "dispatching"}, pid: 0..MaxPids]
Record == [Keys -> Intent \cup {None}]
Job == [key: Keys, kind: {"trigger", "mention", "event"},
        phase: {"gate", "spawning", "spawned", "returning"}, pid: 0..MaxPids]
\* sig: "term" after a SIGTERM whose SIGKILL is to follow; "left" if nothing
\* follows, because the signal failed or the manager that sent it is gone.
Harness == [pid: 1..MaxPids, key: Keys, mine: BOOLEAN, replay: BOOLEAN, sig: {"none", "term", "left"}]

EmptyRecord == [k \in Keys |-> None]
Held == {k \in Keys : intents[k] # None}
Running(k) == \E j \in BagToSet(jobs) : j.key = k /\ j.kind # "event"
Mine(k) == {h \in live : h.key = k /\ h.mine}

Init ==
  /\ window = "none" /\ intents = EmptyRecord /\ file = NoRecord
  /\ timer = "off" /\ inFlight = {} /\ bootPids = {} /\ raws = {}
  /\ jobs = EmptyBag /\ live = {} /\ pids = 0
  /\ owed = {} /\ overtaken = {} /\ threw = {} /\ loose = {}
  /\ failed = FALSE /\ limits = 0 /\ crashes = 0

\* #persist: a failed write is logged and forgotten.
Persist(record) ==
  \/ file' = record /\ UNCHANGED failed
  \/ failed' = TRUE /\ UNCHANGED file

\* #arm, for window w, intents r and replays f started since the boot.
Arm(w, r, f) ==
  CASE w = "open" -> "reset"
    [] w = "elapsed" /\ (\E k \in Keys : r[k] # None /\ k \notin f) -> "now"
    [] OTHER -> "off"

\* addPendingIntent: a repeat refreshes, and a trigger takes a mention over.
Added(k, kind) ==
  [intents EXCEPT ![k] =
     IF @ = None THEN [kind |-> kind, status |-> "pending", pid |-> 0]
     ELSE IF kind = "trigger" THEN [@ EXCEPT !.kind = "trigger"] ELSE @]

\* Work of k is deferred: from now on the store owes it.
Owe(k) ==
  /\ owed' = owed \cup {k}
  /\ overtaken' = IF Running(k) THEN overtaken \cup {k} ELSE overtaken
  /\ UNCHANGED <<threw, loose>>

\* A handler takes the work of k on; what becomes of it is not the store's.
TakeOn(k) == owed' = owed \ {k} /\ UNCHANGED <<overtaken, threw, loose>>

Defer(k, kind) ==
  /\ window = "open"
  /\ intents' = Added(k, kind)
  /\ Persist(intents')
  /\ Owe(k)

\* tryReserveDispatch: one dispatch of a key provisions or runs at a time, as
\* far as this process knows.
SeatFree(k) ==
  /\ Mine(k) = {}
  /\ \A j \in BagToSet(jobs) : j.key = k => j.phase # "spawning"

Move(j, phase, pid) ==
  jobs' = (jobs (-) SetToBag({j})) (+) SetToBag({[j EXCEPT !.phase = phase, !.pid = pid]})

\* The process that a spawn for key k starts.
Start(k, replay) ==
  /\ pids < MaxPids
  /\ pids' = pids + 1
  /\ live' = live \cup {[pid |-> pids + 1, key |-> k, mine |-> TRUE,
                          replay |-> replay, sig |-> "none"]}

\* The immediate tick of load() precedes every event of the stream.
Connected == timer # "now"

-----------------------------------------------------------------------------
\* handleTrigger and handleCommentMention, for an event of the server.  (A
\* mention that finds a live session of its ticket is handed to it, which
\* changes nothing here; one that finds a one-shot of the key is deferred.)
DeferEvent(k, kind) ==
  /\ Connected
  /\ Defer(k, kind)
  /\ UNCHANGED <<window, timer, inFlight, bootPids, raws, jobs, live, pids, bounds>>

DispatchEvent(k, kind) ==
  /\ Connected
  /\ kind = "mention" => window # "open"
  /\ raws' = IF kind = "trigger" THEN raws \cup {k} ELSE raws
  /\ jobs' = IF SeatFree(k)
             THEN jobs (+) SetToBag({[key |-> k, kind |-> "event", phase |-> "spawning", pid |-> 0]})
             ELSE jobs
  /\ UNCHANGED <<store, live, pids, ghosts, failed, bounds>>

SpawnEvent(j) ==
  /\ j.kind = "event"
  /\ jobs' = jobs (-) SetToBag({j})
  /\ \/ Start(j.key, FALSE)
     \/ UNCHANGED <<live, pids>>      \* a preflight or a spawn that failed
  /\ UNCHANGED <<store, raws, ghosts, failed, bounds>>

\* handleBoardUpdate: the ticket was moved or archived (cancelByTicket).
Cancel(k) ==
  /\ Connected
  /\ raws' = raws \ {k}
  /\ inFlight' = IF k \in Held THEN inFlight \ {k} ELSE inFlight
  /\ bootPids' = IF k \in Held THEN bootPids \ {k} ELSE bootPids
  /\ intents' = [intents EXCEPT ![k] = None]
  /\ IF k \in Held THEN Persist(intents') ELSE UNCHANGED <<file, failed>>
  /\ owed' = owed \ {k}
  /\ loose' = loose \cup {h.pid : h \in {s \in live : s.key = k /\ ~s.mine}}
  /\ UNCHANGED <<window, timer, jobs, live, pids, overtaken, threw, bounds>>

-----------------------------------------------------------------------------
Exit(h) ==
  /\ live' = live \ {h}
  /\ UNCHANGED <<store, raws, jobs, pids, ghosts, failed, bounds>>

\* recordHarnessSessionLimit: the window opens or is extended, and the dead
\* task is seeded from the trigger that was remembered for it.
HitLimit(h) ==
  /\ h.mine /\ limits < MaxLimits
  /\ limits' = limits + 1
  /\ live' = live \ {h}
  /\ window' = "open" /\ timer' = Arm("open", intents, inFlight)
  /\ raws' = raws \ {h.key}
  /\ IF h.key \in raws
     THEN intents' = Added(h.key, "trigger") /\ Owe(h.key)
     ELSE UNCHANGED <<intents, ghosts>>
  /\ Persist(intents')
  /\ UNCHANGED <<inFlight, bootPids, jobs, pids, crashes>>

\* recordSessionLimit for a session of the agent on a ticket outside Keys.
OtherLimit ==
  /\ limits < MaxLimits
  /\ limits' = limits + 1
  /\ window' = "open" /\ timer' = Arm("open", intents, inFlight)
  /\ Persist(intents)
  /\ UNCHANGED <<intents, inFlight, bootPids, raws, jobs, live, pids, ghosts, crashes>>

\* The reset instant passes.
Elapse ==
  /\ window = "open" /\ window' = "elapsed"
  /\ UNCHANGED <<intents, file, timer, inFlight, bootPids, raws, jobs, live, pids, ghosts, failed, bounds>>

-----------------------------------------------------------------------------
\* The intents #fire replays.
\* Seeded fault: those a crash left in mid-replay are skipped.
PendingDue == {k \in Held : k \notin inFlight /\ intents[k].status = "pending"}
Due == {k \in Held : k \notin inFlight}

\* What #fire leaves in the store of the intents it replays.
\* Seeded fault: the intents are removed before they are replayed.
RemoveFirst(due) == [k \in Keys |-> IF k \in due THEN None ELSE intents[k]]
Dispatching(due) ==
  [k \in Keys |-> IF k \in due THEN [intents[k] EXCEPT !.status = "dispatching"] ELSE intents[k]]

\* The survivors that #replayOne signals before it replays.
\* Seeded fault: it signals none.
SparedSurvivors(due) == {}
ReapedSurvivors(due) == {h \in live : h.key \in due \cap bootPids /\ h.pid = intents[h.key].pid}

\* defaultReapPid of the survivors gone: each gets its SIGTERM, except those the
\* signal fails for, which #replayOne ignores.  Nobody waits for them to end.
Signalled(gone, failing) ==
  {IF h \in gone THEN [h EXCEPT !.sig = IF h \in failing THEN "left" ELSE "term"] ELSE h : h \in live}

\* #fire, and #replayOne up to its first await.
Fire ==
  /\ timer = "now" \/ (timer = "reset" /\ window = "elapsed")
  /\ LET due == Due
         kept == Dispatching(due)
     IN /\ inFlight' = inFlight \cup due
        /\ timer' = Arm(window, kept, inFlight')
        /\ IF due = {} THEN UNCHANGED <<file, failed>> ELSE Persist(kept)
        /\ \E failing \in SUBSET ReapedSurvivors(due) : live' = Signalled(ReapedSurvivors(due), failing)
        /\ bootPids' = bootPids \ due
        /\ intents' = [k \in Keys |->
             IF k \in due \cap bootPids THEN [kept[k] EXCEPT !.pid = 0] ELSE kept[k]]
        /\ jobs' = jobs (+) SetToBag({[key |-> k, kind |-> intents[k].kind,
                                       phase |-> "gate", pid |-> 0] : k \in due})
  /\ UNCHANGED <<window, raws, pids, ghosts, bounds>>

\* The timer of defaultReapPid: SIGKILL, two seconds after the SIGTERM.
Sigkill(h) ==
  /\ h.sig = "term"
  /\ live' = live \ {h}
  /\ UNCHANGED <<store, raws, jobs, pids, ghosts, failed, bounds>>

\* The handler of a replay comes to the gate: it may find that the window has
\* opened again, may drop the payload before or after the gate (another
\* account, another host, a cool-down), or passes.
ReplayDeferred(j) ==
  /\ j.phase = "gate"
  /\ Defer(j.key, j.kind)
  /\ Move(j, "returning", 0)
  /\ UNCHANGED <<window, timer, inFlight, bootPids, raws, live, pids, bounds>>

ReplayDropped(j) ==
  /\ j.phase = "gate"
  /\ TakeOn(j.key)
  /\ Move(j, "returning", 0)
  /\ UNCHANGED <<store, raws, live, pids, failed, bounds>>

ReplayAdmitted(j) ==
  /\ j.phase = "gate"
  /\ j.kind = "mention" => window # "open"
  /\ raws' = IF j.kind = "trigger" THEN raws \cup {j.key} ELSE raws
  /\ TakeOn(j.key)
  /\ \/ SeatFree(j.key) /\ Move(j, "spawning", 0)
     \/ ~SeatFree(j.key) /\ Move(j, "returning", 0)
     \/ j.kind = "trigger" /\ \E h \in Mine(j.key) : Move(j, "spawned", h.pid)   \* a follow-up turn
  /\ UNCHANGED <<store, live, pids, failed, bounds>>

ReplaySpawns(j) ==
  /\ j.phase = "spawning" /\ j.kind # "event"
  /\ \/ Start(j.key, TRUE) /\ Move(j, IF j.kind = "trigger" THEN "spawned" ELSE "returning", pids + 1)
     \/ Move(j, "returning", 0) /\ UNCHANGED <<live, pids>>
  /\ UNCHANGED <<store, raws, ghosts, failed, bounds>>

\* The handler throws: the intent stays in the store, and in #inFlightReplay.
ReplayThrows(j) ==
  /\ j.phase \in {"gate", "spawning"} /\ j.kind # "event"
  /\ jobs' = jobs (-) SetToBag({j})
  /\ threw' = threw \cup {j.key}
  /\ owed' = IF j.key \in Held THEN owed \cup {j.key} ELSE owed
  /\ UNCHANGED <<store, raws, live, pids, overtaken, loose, failed, bounds>>

\* onSpawned: the pid is recorded on an intent that is still dispatching.
\* Seeded fault: on any intent that is there, a later one of the key included.
TakesPidIfThere(k) == k \in Held
TakesPid(k) == intents[k].status = "dispatching"

ReportPid(j) ==
  /\ j.phase = "spawned"
  /\ Move(j, "returning", 0)
  /\ IF TakesPid(j.key)
     THEN /\ intents' = [intents EXCEPT ![j.key].pid = j.pid]
          /\ Persist(intents')
     ELSE UNCHANGED <<intents, file, failed>>
  /\ UNCHANGED <<window, timer, inFlight, bootPids, raws, live, pids, ghosts, bounds>>

\* #ackIntent: the intent under the key goes, whatever became of it meanwhile,
\* and an elapsed window with it when it was the last.
AckIntent(j) ==
  /\ j.phase = "returning"
  /\ jobs' = jobs (-) SetToBag({j})
  /\ inFlight' = inFlight \ {j.key}
  /\ bootPids' = bootPids \ {j.key}
  /\ intents' = [intents EXCEPT ![j.key] = None]
  /\ window' = IF intents' = EmptyRecord /\ window = "elapsed" THEN "none" ELSE window
  /\ Persist(IF window' = "none" THEN NoRecord ELSE intents')
  /\ UNCHANGED <<timer, raws, live, pids, ghosts, bounds>>

-----------------------------------------------------------------------------
\* The window that load() restores; the reset may have passed meanwhile.
BootWindow ==
  CASE file = NoRecord -> "none"
    [] file # NoRecord /\ window = "open" -> "open"
    [] OTHER -> "elapsed"

\* The manager dies and boots again (load).  Which harnesses are still there
\* depends on the host and on the boot's own sweep for orphans.
Crash ==
  /\ crashes < MaxCrashes
  /\ crashes' = crashes + 1
  /\ jobs' = EmptyBag /\ raws' = {} /\ inFlight' = {} /\ threw' = {}
  /\ window' = BootWindow
  /\ intents' = IF file = NoRecord THEN EmptyRecord ELSE file
  /\ bootPids' = {k \in Keys : intents'[k].status = "dispatching" /\ intents'[k].pid # 0}
  /\ timer' = Arm(window', intents', {})
  /\ \E left \in SUBSET live :
       /\ live' = {[h EXCEPT !.mine = FALSE, !.sig = IF @ = "term" THEN "left" ELSE @] : h \in left}
       /\ loose' = loose \cup {h.pid : h \in {s \in left : ~(s.key \in bootPids' /\ intents'[s.key].pid = s.pid)}}
  /\ UNCHANGED <<file, pids, owed, overtaken, failed, limits>>

\* The steps a handler takes once it has begun.
JobsOf(k) == {j \in BagToSet(jobs) : j.key = k}
EventStep(k) == \E j \in JobsOf(k) : SpawnEvent(j)
ReplayStep(k) ==
  \E j \in JobsOf(k) :
    ReplayDeferred(j) \/ ReplayDropped(j) \/ ReplayAdmitted(j) \/ ReplaySpawns(j)
    \/ ReplayThrows(j) \/ ReportPid(j) \/ AckIntent(j)

Next ==
  \/ \E k \in Keys, kind \in {"trigger", "mention"} : DeferEvent(k, kind) \/ DispatchEvent(k, kind)
  \/ \E k \in Keys : Cancel(k) \/ EventStep(k) \/ ReplayStep(k)
  \/ \E h \in live : Exit(h) \/ HitLimit(h) \/ Sigkill(h)
  \/ OtherLimit \/ Elapse \/ Fire \/ Crash

Spec == Init /\ [][Next]_vars

\* The reset comes, a due timer fires, and a handler that runs goes on.
FairSpec ==
  /\ Spec /\ WF_vars(Elapse) /\ WF_vars(Fire)
  /\ \A k \in Keys : WF_vars(EventStep(k)) /\ WF_vars(ReplayStep(k))

-----------------------------------------------------------------------------
\* Type correctness; and a pid is kept only with an intent whose replay has
\* begun, as is the note of load() that a survivor of that pid is to be reaped.
TypeOK ==
  /\ window \in {"none", "open", "elapsed"} /\ timer \in {"off", "reset", "now"}
  /\ intents \in Record /\ file \in Record \cup {NoRecord}
  /\ {inFlight, bootPids, raws, owed, overtaken, threw} \subseteq SUBSET Keys
  /\ BagToSet(jobs) \subseteq Job /\ live \subseteq Harness
  /\ pids \in 0..MaxPids /\ loose \subseteq 1..MaxPids /\ failed \in BOOLEAN
  /\ \A k \in Keys : intents[k].pid # 0 => intents[k].status = "dispatching"
  /\ \A k \in bootPids : intents[k].pid # 0

\* Work that was deferred stays in the store, in memory and on disk, until a
\* handler has taken it on, whatever crashes in between -- unless it was
\* deferred again while its own replay was running, or a write failed.
LostOnlyIfOvertaken ==
  ~failed => \A k \in owed \ overtaken : k \in Held /\ file # NoRecord /\ file[k] # None

\* The same without the exception, as the class comment promises it: each
\* pending intent is replayed at the reset.  The code breaks it.
NothingIsLost == owed \subseteq Held

\* Of what the replays of a key spawned, across crashes, at most one process
\* was not told to end (#replayOne signals the survivor before its successor is
\* started) -- not counting a survivor that no intent names.  A survivor that
\* was told may still run for a while, and one that could not be signalled for
\* as long as it likes.
NoTwin ==
  ~failed => \A g, h \in {i \in live : i.replay /\ i.pid \notin loose /\ i.sig = "none"} :
               g.key = h.key => g = h

\* The same of processes that run, as the comment of #replayOne has it ("the
\* ONLY surviving session").  The code breaks it: nobody waits for the end.
OnlyOneRuns ==
  ~failed => \A g, h \in {i \in live : i.replay /\ i.pid \notin loose} : g.key = h.key => g = h

\* Deferred work is taken on by a handler in the end, with the exceptions of
\* LostOnlyIfOvertaken and of a replay that threw.
DeferredWorkResumes ==
  \A k \in Keys : k \in owed ~> (k \notin owed \/ k \in overtaken \cup threw \/ failed)
=============================================================================

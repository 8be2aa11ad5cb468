# Verification of AI Workflow Board

AI Workflow Board lets people and AI agents work on the same tickets. A NestJS
server (`apps/server`) keeps accounts, tickets, chats, runs and missions in a
database and decides who works on what; an agent manager (`apps/agent-manager`)
on every runtime host receives triggers over SSE, spawns agent CLIs and reports
back over REST; a web client, an Android app and a voice server are its user
interfaces. This directory holds TLA+ models of the parts where work can be
lost, doubled or stuck, the TLC runs that check them on small instances, and
proofs, checked by TLAPS, of what holds on every instance.

## 1. Inventory

| Part | State | Operations | What makes it correct |
|---|---|---|---|
| CI wait (`tickets/ci-wait.service.ts`, `agents/ci-wait-resume.service.ts`) | `pending_ci_wait`, `ci_wait_context`, comments with dedupe keys | register, cancel, sweep, record outcome (CAS), alert, claim and deliver, resume | a wait is delivered once, never lost, and ends |
| Ticket prerequisites (`tickets/ticket-prerequisites.service.ts`) | link rows, `pending_on_tickets` | add, remove, hooks on done and delete, re-evaluation | no cycle, no dependent left parked, every one resumed |
| Ticket queue (`agents/ticket-dispatch.service.ts`: `pump`, `dispatch`) | ticket rows, `pumpChain`, account pause, host presence | pump, claim, dispatch, re-send | started once, within capacity, not starved |
| Supervisor (same file: `supervise`, `parkStalled`, `applyManagerAck`) | redispatch count, lease of a live process, nack timers | re-send, park, renew or release the lease, reset on progress | stalled work reaches a human, progress is respected, old answers do nothing |
| Ticket service and controller (`tickets/`) | ticket rows | update, move, pend, unpend, archive, delete | its whole-row saves must not undo the others |
| Outbox of the agent manager (`lib/outbox.ts`) | queue, file, single-flight flags | enqueue, flush, load | nothing lost, in order, nothing stuck |
| Orchestration (`modules/orchestration`) | missions, steps, visits, lease tokens, gates, an in-process lock per mission | start, plan, pump, report, confirm, loop back, retry, reassign, cancel, complete, reap | capacity and budget kept, late reports ignored, nothing repeated that must not be, missions end |
| Runs: actions, QA, security; automation schedules | run rows, schedule cursors | dispatch, report, reap, tick, run now | one run per occasion, no run stays open |
| Session-limit deferral (`lib/session-limit-defer.ts`) | window and intents per agent, state file, timer, pids of replays | open a window, defer, fire, replay, acknowledge, load | deferred work is resumed, once, across crashes |
| Dispatch seat (`lib/ticket-session-manager.ts`, `lib/dispatch-preflight.ts`, `lib/event-dispatcher.ts`) | reservation with nonce and pid, suppression count, live session, holder, captured work | reserve, evict, release, promote, replay | one worker per ticket and role, no seat leaked or taken, nothing captured is forgotten |
| Locks, circuit breaker, self-update (`agent-manager/src/lib`) | lock files, counters, boot state | lock, steal, release; trip, probe; update, roll back | one owner, no boot loop |
| Agent sessions and chat | rooms, messages, deliveries | send, deliver, acknowledge | delivered, in order |
| Command ledger, instance registry (`modules/agent-manager`) | in-memory records with TTL | issue, consume, outcome | an answer counts once |
| sql.js development database (`db.ts`) | transaction queue, dirty flag | transaction, flush | a committed write reaches the disk |

How they interact: every change of a ticket writes an activity, and
`TicketDispatchService` listens to activities in process; a periodic sweep backs
it up. `dispatch` sends a trigger to the host's manager, which answers
*processed*, *suppressed* (a live process already works on it) or *nack*. In the
manager the event dispatcher takes the trigger through the session-limit gate
(deferred until the reset) and to the seat of its ticket and role, where it
meets other triggers, forced respawns and mentions. A mission posts work orders
to its members and hears from them by reports that carry a lease token. The CI
sweep and the prerequisites hand a ticket back to `resumeTicket`. All of them
write columns of the same `Ticket` row; conditional updates protect some of the
writes, while `TicketService` and the controllers save the entity they read.

What is hard: sweeps overlap because their timers have no re-entry guard;
several server processes may share the database; every `await` separates a read
from the write that relies on it; activities are lost at a restart; the host's
answers come late, twice or never; spawned processes survive the manager that
started them; a mission's step, budget and work order are three writes; `repo.save(entity)` writes back every column
that differs from the row, and thereby undoes what others wrote meanwhile
(`Ticket` has a `@VersionColumn`, but nothing compares it). `PROJECT.json` lists
these hazards line by line, with the property that would show each going wrong.

## 2. Modules

Abstract specification, model, instance and proofs:

    ExactlyOnce  <-  CiWait         <-  MCCiWait, CiWaitProofs
                     Prerequisites  <-  MCPrerequisites, PrerequisitesProofs
                     TicketQueue    <-  MCTicketQueue, TicketQueueProofs
                     TicketSupervisor <- MCTicketSupervisor, TicketSupervisorProofs
                     Outbox         <-  MCOutbox, OutboxProofs
    MissionGraph <-  Orchestration  <-  MCOrchestration, OrchestrationProofs
                     SessionDefer   <-  MCSessionDefer, SessionDeferProofs
                     DispatchSeat   <-  MCDispatchSeat, DispatchSeatProofs

Definitions marked *Seeded fault* are plausible mistakes in the code they stand
next to. No specification uses them; they serve to show that each property can
fail.

**CiWait** is one ticket's wait. `pending` and `ctx` are the two columns; a
context carries the registration, whether it parses, the outcome's
`resolved_at` and the poll-failure streak, since the code compares contexts as
whole JSON strings. A sweep (`sw`) goes through `evaluate`, `record`, then
`deliver` and `resume`, or `alert` and `mark`; a request (`req`) reads the row
and saves it later. `Claims` and `TryUpdateContext` are the WHERE clauses of
`claimDelivery` and `tryUpdateContext`. `ClaimDelivery` is one transaction with
the comment insert. `Crash` ends every sweep and request. `NextEdits` adds the
whole-row saves of the ticket service. `comments`, `resumed` and `dropped`
record what became of each wait. Two evaluations never take the same
millisecond: the timestamps are the dedupe keys of the comments, and a
collision of two sweeps of one ticket within a millisecond is left out.

**ExactlyOnce** is the promise behind it: a registration becomes *open*, then
*delivered* or *cleared*, once, and one is open at a time. `CiWait` maps its
comments, its dropped set and its row to these fates (`FateOf`).

**Prerequisites** holds the ticket set, links, flags and the jobs (executions of
a caller) between their steps. `AddValidate`, `AddCheckCycle`, `AddEvaluate` and
`AddCommit` are the steps of `addPrerequisites`, whose transaction reads what is
committed and publishes at its commit (Postgres, read committed). `Visited`, what
the depth-first search of `wouldCreateCycle` visits, is the least set of tickets
that is closed under the links; the order of the search is left out. The removal,
done and delete hooks share the loop `EvaluateRead`, `EvaluateWrite`,
`EvaluateEnd`, which collects the dependents it hands back (`Flipped`). `Archive`
is the archiver's and the route's; it deletes no link and re-evaluates nobody.
`doneEvents` are the in-process activities; `reopened` is bookkeeping for the
properties. All tickets belong to one account. `SpecOverlap` has any number of
overlapping callers; `DependentsApart`, `DeletesApart`, `Heard` and
`SearchesApart` name the meetings of callers that the code does not guard
against, and `SpecApart` leaves out just these.

**TicketQueue** has a worker per server process (its `pumpChain` runs one pump
at a time) and per other call of `dispatch`. `PumpRead` takes the snapshot,
`PumpCount` reads the accounts and `runningCounts`, and the loop skips or claims
each ticket in queue order. `guard`, `prepare` and `sent` are the points of
`dispatch` at which it may be overtaken. Four specifications grow from `Next`:
`SpecReassign` and `SpecBypass` add the routes that start or hand over a ticket
without the queue, `SpecEdits` adds whole-row saves, `FairSpec` adds fairness.

**TicketSupervisor** is one ticket in progress. One tick is one sweep interval,
times are ages that saturate at the longest the code tells apart, and each
handler remembers which of the columns in its WHERE clause still have the value
it read (`same`). `Verdict` is the decision of `supervise`; `AckRead`,
`AckRenew`, `AckRelease` and `AckLog` are the steps of `applyManagerAck`.
`EmitRow` writes the `trigger_emitted` row, `EmitSend` the column
`last_dispatched_at` and then the trigger; two dispatches may take them in
different orders, and `cur` marks the trigger, answer or handler that belongs to
the latest row, which is the one `applyManagerAck` compares with. `Env`
selects what the environment does in an instance. Simplifications: a database
write takes less than a sweep interval; the update that turns output into
progress and the verdict after it are one step; quiescing is part of `paused`;
*suppressed* stands for the reason `inflight_live_process`, the only one that
renews a lease; the growth of the nack delay is not modelled.

**Outbox** is the retry queue of the agent manager. `flush` gives up control
only while it awaits a sender, so what it does between two awaits is one step;
`Arrive` is the server receiving the request, whether or not the answer gets
back. A failed write of the file sets `failed`, which the guarantees exclude:
the code logs it and goes on. A request that arrives after its answer was given
up on is left out.

**MissionGraph** is the pure part of `orchestration-graph.ts`: the edges with
their statuses and verdicts, which of a node's incoming edges are satisfied,
dead or open, and from these whether it is ready or can never run.

**Orchestration** is one mission. `step` holds a row per step (status, visit,
attempt, lease token), `orders` the work orders that are out, `job` the
operation that has the mission lock: `transit`, `unblock`, `block`, `pump`,
`next`, `count`, `post` and `close` are the points at which its saves are
separate and a crash may fall between them. `dispatchStep` saves the step, then
counts the visit, then posts. What a pass of the pump still has to send is a set
(`job.queue`), taken gates first and then by position (`IsNext`). Reports, starts and progress come from any work
order ever posted, at any time, and are fenced by the token. The reaper works in
two halves as in the code: it decides from what it read outside of the lock
(`sweep`), then enters the lock. `issued`, `result` and `leave` are bookkeeping
for the properties; `leave` says why the next attempt of a step may start (a plan,
a decision or a loop gave leave, the lifting of an automatic block did, or the
last attempt used it up). `room` is the mission's conversation: a mission
cancelled before it had one is reopened as a draft. Simplifications: every mission
has a `graph_spec`, without which the runner neither counts visits nor compares
them in a report (lines 2720 and 1835); messages to the orchestrator are not
state, once briefed it may act at any time; a token no longer in flight is not told apart from
other old ones; a worker's load is counted live, which under the lock equals the
snapshot of the pass; `max_attempts` is a constant; a step is the source of at
most one loop; a replan only pumps; `step_timeout_minutes` is positive.

**SessionDefer** is the `SessionLimitDeferStore` and the dispatcher's use of it,
for one agent. Time is the state of the window. A replay passes `gate`,
`spawning`, `spawned` and `returning`, as its handler awaits, and other events,
further limits and crashes come in between. What a crash leaves running is an
arbitrary subset of the processes, which covers the boot's orphan sweep. The
replay of a restored intent sends the survivor its SIGTERM and goes on, whether
or not the signal could be sent; `Sigkill` is the timer that follows, which dies
with the manager (`sig` of a process says how far it got). The
seat is abstracted to `SeatFree`; `DispatchSeat` has it in detail. `owed`,
`overtaken`, `threw` and `loose` are bookkeeping. Simplifications: one role per
ticket; role mentions only; whether a trigger is manual is a choice; the record
of a limit and the seed of its intent are one write; the immediate tick of
`load` precedes events of the stream; reused pids and resets that are already
past when reported are left out.

**DispatchSeat** is the seat of one ticket, role and agent. A dispatch is a
slot, which is its own nonce and the pid of its one-shot; it is freed by its
`finally` block or the exit hook, and taken over by the replay that the release
starts. `persistent`, chosen initially, decides between the authoritative
registry of the session manager and the dispatcher's fallback, which has neither
the valve nor the question for a live session. `title` says what a dispatch has
of the seat: reserved, none (it reused a live session), or lost to a takeover.
A dispatch arrives at the reservation; the gates before it are choices.
Simplifications: ages are young, old and stale; sessions that were told to
terminate and still exit, respawns for another model or by the watchdog, and the
Hermes and delegation-off paths are left out.

## 3. Runs

All bounds are constants of the configurations.

| Run | Instance | Shows |
|---|---|---|
| `ci_wait_delivery` | 2 sweeps, 1 caller, 2 registrations, 1 failed poll, 1 crash | delivered at most once; one fate each; a delivery clears only its own wait; `alerted` only after its comment; implements `ExactlyOnce` |
| `ci_wait_liveness` | 1 sweep, 1 caller, 2 crashes | every wait ends |
| `prereq_serial` | 3 tickets, one caller at a time, archiving, reopening | nobody stranded, the blocked are parked, no cycle, links belong to existing tickets, nobody is resumed while blocked |
| `queue_single` | 2 tickets, 2 agents, capacity 1, 1 pump | capacity kept, a startable ticket does not stay queued |
| `queue_start` | 2 processes, every route past the queue | a queued ticket is started once |
| `supervisor_answers` | 1 sweep, 1 caller, replayed answers, nacks, progress, up to 6 answers in transit | only the answer to the latest row renews a lease; no parking over newer progress |
| `supervisor_stall` | 1 sweep, 1 try, pauses, outages, strands, nacks, 1 answer in transit | a stalled ticket reaches a human, unless its host refuses every dispatch |
| `outbox_replay` | 3 messages, cap 2, 2 attempts, 1 crash | nothing lost below the cap, arrival in order, every message leaves the queue |
| `orchestration_loop` | 3 steps with a gate, a loop and a manual step, 2 workers, 2 in parallel, budget 3, 2 visits, 1 edit, 1 crash | capacity; every work order counted before it is out; budget kept except by recoveries; a manual step is repeated only by a decision, a loop or the lifting of an automatic block; a report counts for its own lease and pass; an ended mission is idle; outermost loops are bounded |
| `orchestration_settles` | the same graph, 1 worker, 1 crash | a mission that runs ends, is paused or asks a user, whoever stays silent |
| `session_defer` | 1 key, 2 limits, 3 processes, 1 crash | deferred work stays on disk until taken on, and is taken on; a survivor that an intent names is told to end before its successor starts |
| `dispatch_seat` | 3 dispatches, valve 3, both registries | one entitled worker, the seat has one owner, captured work is replayed |

Two sweeps, two processes or two jobs are enough for the races in question:
each is between one party that has read and one that writes. Two registrations
let a delivery meet a newer wait; two tickets of one agent with a capacity of one
make the second start the violation; three tickets allow a cycle that is not
two links long. The limit of 500 entries of the outbox becomes 2 so that it is
reached; that of the queue's query is the number of tickets in the runs, and is
reached only in the refutation of `QueueDrains` below. Six answers in transit are
all kinds of answers to the latest and to an older trigger; one is enough for a
host that answers each dispatch before the next. Two attempts let a message be delivered after a failed replay, and
be given up. A budget of three is used up by the second pass of the loop while
another step is ready; two visits let a report of the first pass arrive in the
second. Two limits let one open the window again during the replay of what the
other deferred; three processes are an original, its replay and the replay after
a crash. Three dispatches are a holder, the one that evicts it, and the one that
meets both. Most runs stop in states without successors once their bounds are
used up, and do not check deadlock; `dispatch_seat` has no such bound and does.

The models also show where the code does less than its comments or documents
say. TLC finds each within a few minutes, most in seconds, when the property is checked under the named
specification with the constants given:

| Property, specification | Constants | What happens |
|---|---|---|
| `DeliveredAtMostOnce`, `CiWait!SpecEdits` | 1 sweep, 1 editor, 2 registrations | a whole-row save brings a delivered wait back, and it is resumed twice (`ticket.service.ts:353`), although "a resolved wait must be delivered (comment + resume dispatch) EXACTLY ONCE even though a crash can land at any point" (`ci-wait-resume.service.ts:22`) |
| `NeverOverwritten`, `CiWait!Spec` | 2 callers | two registrations both pass the check for an active wait (`ci-wait.service.ts:165-207`); the second replaces the first |
| `OutcomeSetOnce`, `CiWait!Spec` | 1 sweep | an outcome recorded for a context that does not parse is not recognised by the next sweep, which records another (`ci-wait-resume.service.ts:272`) |
| `ArchiveStrandsNobody`, `Prerequisites!Spec` | 2 tickets, 1 job | archiving a prerequisite leaves its dependent parked (`tickets.controller.ts:442`), although "`onTicketRemoved(ticketId)` is called by archive/delete paths so dependents don't sit forever on a stale link" (`ticket-prerequisites.service.ts:19`) |
| `Acyclic`, `Prerequisites!Spec` | 2 tickets, 2 jobs | two overlapping adds pass the cycle check before either inserts (`ticket-prerequisites.service.ts:121`) |
| `NoneStranded`, `Prerequisites!SpecCrash` | 2 tickets, 1 job | a restart loses the activity whose handler would have unparked the dependent (`ticket-dispatch.service.ts:90`); no sweep looks at it |
| `NoneStranded`, `Prerequisites!SpecOverlap` | 2 tickets, 2 jobs | an add that commits during a delete parks a ticket, and the delete then takes its link along (`tickets.controller.ts:508`): `SpecApart` without `DeletesApart` |
| `NoneStranded`, `BlockedIsParked`, `ResumedIsFree`, `Prerequisites!SpecOverlap` | 2 tickets, 2 jobs | two callers at the same dependent each write the flag from what they read (`ticket-prerequisites.service.ts:160`, 385-392): `SpecApart` without `DependentsApart` |
| `NoneStranded`, `Prerequisites!SpecOverlap` | 2 tickets, 2 jobs | the transaction of an add has read a prerequisite as open, its move to done is committed and handled, then the add commits and parks (`ticket-prerequisites.service.ts:138-159`): `SpecApart` without `Heard` |
| `Capacity`, `TicketQueue!SpecReassign` | 2 tickets, 2 agents, 1 caller | a reassigned ticket in progress is sent to an agent that is full (`ticket.service.ts:362`) |
| `NeverSentWhileBlocked`, `TicketQueue!Spec` | 2 tickets, 1 agent | a ticket pended or archived after the snapshot is claimed and sent (`ticket-dispatch.service.ts:439`) |
| `StartedOnce`, `TicketQueue!SpecEdits` | 1 pump | a whole-row save puts a claimed ticket back into `todo` (`ticket.service.ts:353`) |
| `QueueDrains`, `TicketQueue!FairSpec` | `Take` = 1 | a query without order leaves the same ticket out in every sweep (`ticket-dispatch.service.ts:416`) |
| `StaleAckNeverRenews` with only its first alternative, `ack.cur`, `TicketSupervisor!Spec` | as `supervisor_answers` | between a new `trigger_emitted` row and the write of `last_dispatched_at` (`ticket-dispatch.service.ts:550-555`) the answer to the row before, already read, renews the lease, although "Delayed/replayed ACKs must not renew a lease or revive work" (line 214) |
| `StalledReachesHuman` without the exception of `SuperviseNack`, `TicketSupervisor!FairSpec` | as `supervisor_stall` | a host that refuses every dispatch is sent the ticket again for ever, uncounted (`ticket-dispatch.service.ts:747-753`, 272-275), while each re-send renews `last_dispatched_at` (line 555), although "진전 없이 3회(`MAX_SUPERVISOR_REDISPATCHES`) 재전송하면 사람에게 넘긴다(pend)" ("re-sent three times without progress, it is handed to a human", `docs/agent-manager.md:933-934`) |
| `StaleNackNeverRevives`, `TicketSupervisor!Spec` | `Env` with `nack` | a late nack of an older trigger re-sends the ticket (`ticket-dispatch.service.ts:272`) |
| `ParkedAfterSending`, `TicketSupervisor!Spec` | `Env` = {"offline"}, 3 tries | tries are counted while the host is offline, and the ticket is parked as stopped without having been sent (`ticket-dispatch.service.ts:799`), although "the ticket waits until it reconnects" (line 698) |
| `ParkRespectsProgress`, `TicketSupervisor!Spec` | 2 sweeps, 1 try | progress sets the count back to zero, an overlapping sweep claims the single try, and the count equals again what the first sweep read and compares with: the ticket is parked over the progress. `MAX_SUPERVISOR_REDISPATCHES` is 3 (`ticket-dispatch.service.ts:56`), which keeps this out of reach of three sweeps |
| `NeverSilentlyDropped`, `Outbox!Spec` | cap 2, 4 messages | the cap reached during a flush removes the entry being sent, and its answer removes another that was never sent (`outbox.ts:247`) |
| `BlockedForAReason`, `Orchestration!Spec` | as `orchestration_loop`, no crash | a loop resets its nodes without `unblockAutoBlockedDependents`, so a dependent of the failed pass stays blocked (`orchestration-runner.service.ts:1904`) |
| `ReaperSparesGates`, `Orchestration!Spec` | as `orchestration_loop` | `failMissionExternally` looks at the status and at steps in flight again, but not at a gate that has begun to wait meanwhile (line 3395) |
| `WorkerBlockedStands`, `Orchestration!Spec` | router graph of `MCOrchestration`, `AnyJoin` = {"check"}, no gate or manual step, 1 worker, budget 9, no nudge, no crash | `auto_blocked` survives a loop's reset and a retry, so a later report of *blocked* is undone by the next unblocking |
| `RepeatIsDecided`, `Orchestration!Spec` | router graph, `AnyJoin` = {"check"}, `Manual` = {"left"}, no gate, 1 worker, 1 in parallel, budget 6, 1 plan, no nudge, 1 edit, no crash | the same mark lets the unblocking send a manual step again that its worker reported *blocked*, with no decision or loop in between (`orchestration-runner.service.ts:1980-2001`, 2909), although "작업자가 스스로 보고한 blocked 는 절대 건드리지 않는다" ("a blocked that the worker reported is never touched", line 2904) |
| `AllLoopsCapped`, `Orchestration!Spec` | steps in a row, a loop of the middle step to itself inside a loop from the last to the first, 2 visits | the outer loop re-enters the middle step and counts its visit without looking at the limit of the inner loop (`orchestration-runner.service.ts:1904`) |
| `NothingIsLost`, `SessionDefer!Spec` | no crash | another session's limit opens the window while a replay is at the gate: it is deferred into its own intent, which its acknowledgement then deletes (`session-limit-defer.ts:803`), although "each pending intent is replayed EXACTLY ONCE" (line 391) |
| `OnlyOneRuns`, `SessionDefer!Spec` | as `session_defer` | `#replayOne` does not wait for the survivor it signals, whose SIGKILL comes two seconds later, and ignores a signal that failed (`session-limit-defer.ts:332-349`, 767-780): survivor and successor run side by side, although "the re-drive is the ONLY surviving session" (lines 765-766). A crash between the spawn and the write of the pid leaves a survivor that no intent names (`loose`), which is not even signalled |
| `OneWorker`, `DispatchSeat!Spec` | 2 dispatches | an evicted holder wakes up beside its successor; a second forced respawn meets `inflight_spawn` (`ticket-session-manager.ts:518`) and falls back to a one-shot, where the comment says to drop it as a duplicate; a dispatch loses its live session while it provisions |
| `HolderAlwaysKnown`, `DispatchSeat!Spec` | 2 dispatches | the tracker's `onRelease` has no nonce, so the late release of an evicted holder makes a mention's seat look like a trigger's, and column work suppressed by it is not captured (`dispatch-preflight.ts:985`) |

These are the reasons why some guarantees are stated for specifications without
whole-row saves or reassignments, for callers that do not meet at certain
points, for outermost loops, for work that no limit overtook, for survivors that
were not told to end, or for dispatches that nobody evicted. `SpecApart` of
`Prerequisites` passes all its properties with 2 tickets and 2 jobs (79,688
states); with 3 tickets it is too large for a run, and the proofs cover it.

Smaller observations from the same reading: `addPrerequisites` may clear the
flag itself, and then nobody resumes the ticket (`ticket-prerequisites.service.ts:160`);
a retried or reopened step accepts its old lease token until it is dispatched
again, in spite of the comment at `orchestration-runner.service.ts:453`; the
redispatch of a stale lease ignores the visit budget, and `reassign` ignores
`max_attempts`; completing a mission leaves pending, ready and waiting steps as
they are; blocking spreads one level per operation; after pause, report and
resume with every step terminal only the reaper wakes the orchestrator; its
nudges are never counted afresh; a spawn without the dispatcher's reservation
deletes the seat by key alone (`ticket-session-manager.ts:759`); the delay after
a nack never grows, since its entry is deleted before the re-send
(`ticket-dispatch.service.ts:749`); the reaper reads the 200 oldest steps in
flight, those of paused missions included (`orchestration-reaper.service.ts:269`).

## 4. Fairness

- `CiWait`: the interval timer keeps starting sweeps and awaits return (weak
  fairness of each sweep), time passes, and the delivery transaction does not
  fail for ever (strong fairness of `ClaimDelivery`; the code retries it in each
  sweep).
- `TicketQueue`: the timer asks for an unscoped pump for ever; `pumpChain`
  serves requests in order, so that scoped pumps cannot starve it, hence strong
  fairness of the unscoped `PumpRead`; awaits return. `QueueDrains` speaks of
  behaviours in which from some time on only pumps and dispatches act.
- `TicketSupervisor`: time passes although handlers keep it waiting (strong
  fairness of `Tick`), the sweep runs in every interval, handlers finish. No
  fairness of the agent, the host or the users is assumed.
- `Outbox`: the backstop timer of `main.ts` and the senders' timeouts justify
  weak fairness of `Flush`. No fairness of `Arrive`: the server may stay away.
- `Orchestration`: the server finishes an operation that holds the lock, time
  passes for a silent worker, and the reaper's timer keeps coming. Workers,
  users, the orchestrator and the operator may do nothing for ever.
  `MissionSettles` excludes workers that keep sending heartbeats.
- `SessionDefer`: the reset comes, a due timer fires, handlers return.
- `DispatchSeat`: handlers return, one-shots end (their TTL kills them), exit
  hooks run. Nothing is assumed of sessions or of arrivals.

## 5. Proofs

Every theorem holds for all values of the constants that satisfy the named
assumption of its module.

`CiWaitProofs`. `DeliveredAtMostOnce` and `OneFate` are not inductive: they say
nothing of what a sweep holds between its steps. The inductive invariant `IInv`
adds that rows, comments and sweeps name registrations already made
(`KnownRegs`), what a sweep holds at each point (`SweepHolds`), that a sweep
which has not recorded its outcome owns its timestamp and that an outcome
waiting in the row has no comment yet (`FreshStamps`: this makes the insert that
ignores existing keys insert), that the sweep which claimed a wait is the only
one about to resume it (`OneResume`), and that marked streaks have their
comments (`AlertsPosted`). One lemma per action preserves it. From it follow
`TypeCorrect`, `AtMostOnce`, `FateIsUnique`, `AlertsArePosted`, the action
property `ClearsItsOwn`, and `Implements`: every step maps to a step of
`ExactlyOnce` or a stutter. These theorems are about `Spec`, without whole-row
saves; with them the first is refuted (section 3).

`TicketQueueProofs`. `TypeCorrect` and `ClaimIsAtomic` hold of `SpecBypass`, with
any number of processes; the strengthening is that a ticket in `todo` has not
been claimed since it was put there. `CapacityKept` assumes a single pump (the
counts of two processes do not see each other's claims) and `Spec`, in which
nobody but the pump starts or hands over tickets. Its invariant adds that the
assignees a pump has read are still right, and that its counts are upper bounds
of what runs: `CountsAreSafe` carries the argument, since claims are counted
and everything else only lowers the true number.

`DispatchSeatProofs`, for any number of overlapping dispatches, evictions and
replays. `SeatIsOwned` is close to inductive: registry and titles determine each
other. `IInv` adds that a one-shot running under a title is known to the seat by
its pid, so that only its exit makes it evictable (`RunningIsPromoted`), and that
nothing is reserved beside a live session that was spawned under a reservation
(`SessionEndsTitle`). `TypeCorrect`, `SeatOwned` and `OneEntitledWorker` follow.

`OutboxProofs`, for every cap, limit, number of messages and restarts. The queue
and the file are in the order of buffering (`Buffered`), the message `flush`
awaits is no younger than any in the queue (`SentFirst`) and below the cap is
its head, the one that `shift()` takes off (`HeadIsSent`), and until a write
fails the file is the queue (`FileIsQueue`). `InOrder` (`FifoOrder`) holds with
overflow too; `LostOnlyAfterOverflow` (`NothingIsLost`) needs `HeadIsSent`, which
overflow breaks. What `flush` skips is bounded by the first entry that may be
sent, whose existence is the least-number principle, a lemma of the module.

`TicketSupervisorProofs`, for every setting of the limits and any number of
sweeps and callers. `OldAnswersDoNotRenew` rests on `RenewIsCurrent`: while
`last_dispatched_at` is what `applyManagerAck` read, the answer is to the latest
row, or the dispatch that wrote a later row has not yet written that column.
`ProgressIsRespected` assumes `Cardinality(Sweeps) <= MaxRedispatches`,
and is refuted without (section 3). The compared count would let a parking pass
over progress only if it had grown back from zero; every sweep of the interval
adds at most one, so the count and the sweeps about to claim stay below the
number of other sweeps that had their turn (`FewTries`).

`PrerequisitesProofs`, for any number of tickets and overlapping callers
(`SpecOverlap`), with moves, archiving and reopening between their steps. The
assumptions are about what happens, not about who may run: each names one
meeting of two callers, and without it TLC refutes the conclusion (section 3).
`TypeCorrectOverlap` needs none. If no two callers are at the same dependent at a
time (`DependentsApart`), what a caller holds is still what it read (`Fresh`), it
takes its dependents one by one (`InTurn`), those it hands back are free
(`FlipsFree`), and a link to a prerequisite that was open all along parks
(`LinksPark`): that is `FInv`, proved as `ReadsStayFresh`, from which
`LinksAlwaysPark` and `FlipsAreFree` follow. `ParkedIsNotStranded` assumes also
that nobody links to a ticket that is being deleted (`DeletesApart`) and that no
done activity is handled between the read and the commit of a new link (`Heard`);
its `HInv` adds that a parked ticket is held by a prerequisite that is not done or
not handled, or is on some caller's list (`ParkedIsHeld`), and that whoever a
caller is about to judge blocked is held or still to be looked at by another
(`Stays`). `LinksNeverCycle` assumes only that no two additions are between
search and commit (`SearchesApart`): the answer of the search is still right when
the links are inserted (`Searched`). Its core is `NoCycleAdded`: links of `t` to
prerequisites from none of which `t` is visited close no cycle, with a closed set
as the witness.

`OrchestrationProofs`, for every graph, roster, gate, retry policy and limit.
`IInv` has what the holder of the lock knows between its saves (`JobOK`), that a
step in flight runs under the newest token, a result is of the present pass and a
step that waits to be sent has leave for it (`RowsOK`), and that every work order,
and one about to be posted, was counted (`OrdersOK`). From it
follow `TypeCorrect` (of `Types`, `TypeOK` without the limit on visits),
`WithinCapacity`, `OrdersCounted`, `ResultsAreCurrent`,
`EndedIsIdle`, and the action properties `ManualStepsRunOnce`, `BudgetIsKept` and
`LeaseFences`. `LoopsAreCapped` is the whole of `TypeOK`, for every graph: a loop's
target that no loop to another node resets (`Outermost`) is entered again only by
loops that look at its limit. Targets of inner loops have no such bound, as
`AllLoopsCapped` shows (section 3).

`SessionDeferProofs`, for any number of keys, limits, processes and crashes.
`IInv` relates the handlers in progress (a bag), the processes, the store and the
file: one provisioning of a key at a time and none beside a process of this
manager (`SeatsOK`); a survivor of a crash that is not loose and was not told to
end is named by the intent `load` restored, and nothing of its key is replayed
before it was told (`SurvivorsOK`); a key that nothing overtook has one replay, its
intent in flight, and is owed nothing past the gate (`ReplaysOK`, which makes the
removal in `#ackIntent` safe); the file has an intent where the store has one
(`FileOK`). `DeferredStaysStored` and `ReplayedAloneUnlessTold` follow; the latter
is about signals, not ends: two processes of a key run at a time only if one was
told to end or no intent names it. For `TypeCorrect` a second invariant says that
pids are kept with dispatching intents only, in the file too (`PidNotes`). A few lemmas say
what adding to and removing from a bag does to the copies of an element.

Every safety property of a run is thus a theorem (with one caller, as in
`prereq_serial`, the four assumptions of `PrerequisitesProofs` hold by themselves). `TypeOK` of `CiWait` and
`CountsAreSafe` have no run of their own, since the theorems establish them for
every instance. Liveness (`WaitEnds`, `QueueDrains`, `StalledReachesHuman`,
`EveryMessageLeaves`, `MissionSettles`, `DeferredWorkResumes`,
`CapturedIsReplayed`) is model-checked only: the prover has no rules for
fairness.

## 6. Plan

Order of the further work, by importance:

1. Proofs: an abstract specification of the seat that `SessionDefer`
   and `DispatchSeat` both implement; how many visits nested loops can reach.
2. `Orchestration` with two server processes around the in-process lock, graph
   patches, approvals.
3. `Schedules` and `Runs`: cursors, run-now (whose whole-row save takes
   `next_run_at` back), and the reapers that actions, QA and security runs share.
4. `Locks`, `CircuitBreaker`, `SelfUpdate` of the agent manager.
5. `CommandLedger` composed with the outbox, which carries its acknowledgements;
   `SqljsFlush`; ticket duplicates with `resolveDuplicates`, which clears the
   flags of a duplicate under a sweep or a pump; the nack backoff.

## 7. Not modelled

User interfaces, request validation, permissions, prompts and texts, process
and git handling, and integrations with outside services have little state of
their own and are left out; `PROJECT.json` lists each part with its reason. Of
the ticket dispatcher, duplicates, on-done actions, `next_ticket_id` and notices
are left out so far; of orchestration, `patchGraph`, `updateCriteria`, post
actions, approvals (the reaper skips missions that wait for one) and the notices
of gates; of the manager's event dispatcher, the routing of events other than
triggers and mentions. The repository has some 300,000 lines, most of them user
interface, storage and text; the models cover the protocols named above and not
a large share of its lines.

# TLA+ models of DeepClaw

DeepClaw is a chat assistant gateway. Three programs make it up:

- **brain** (`src/brain`, TypeScript): the gateway process. Channels (WhatsApp,
  Telegram, ...) bring messages in; agent runs answer them; cron jobs and
  heartbeats start runs of their own; replies go out through an outbound layer.
- **engine** (`src/engine`, Rust): a coding-agent runtime (conversation loop,
  sessions, workers, tools, permissions), reached from the brain over a WebSocket
  bridge on port 9000.
- **dashboard** (`src/dashboard`): a small status page.

The models concentrate on what is hard to test there: the scheduling of agent runs
in one event loop, drain and restart of the gateway, message delivery across
crashes, heartbeats, follow-up messages, the session write lock between processes, and
the bridge to the engine.

## 1. Inventory

| component | state it keeps | operations | hard behaviour | what makes it correct |
|---|---|---|---|---|
| command queue (`process/command-queue.ts`) | lanes: FIFO queue, active task ids, limit, re-entry flag, generation; draining flag; drain waiters | enqueue, pump, complete, set limit, clear, mark draining, reset all, wait for active | re-entrant pumps, completions from before a reset, waiter timers | no slot leaks, no stranded entry, serial lanes stay serial, each promise settles once |
| agent runs (`agents/pi-embedded-runner/run.ts`, `lanes.ts`; `cron/service/ops.ts`) | nesting of a run: cron slot, session lane, global lane | start a run, nested enqueue, settle, abort | lanes waiting for lanes; enqueues refused in the middle of a run; restart around running work | no circular wait; a drained restart cuts nothing |
| gateway run loop (`cli/gateway-cli/run-loop.ts`) | server handle, lock handle, restart resolver, shutdown flag, watchdog | iterate, start, signal, drain, close, respawn, reacquire the lock | a signal during start, failing start or close, watchdog | the server is never orphaned, serving implies the lock, shutdown ends |
| outbound delivery queue (`infra/outbound/`) | directory of entries, `.delivered` markers, `failed/`; in-memory claims | enqueue, send, ack in two phases, fail, quarantine, startup scan, reconnect drain | crash between any two steps, overlapping scans, failing file operations | what is persisted is sent, kept or withheld for a named reason; claims are exact; no resend after an ack |
| restart scheduling (`infra/restart.ts`) | authorisation count, pending timer, cooldown | schedule, coalesce, defer, emit | coalescing against cooldown; a signal consumed twice | one restart per request burst |
| heartbeat (`infra/heartbeat-wake.ts`, `heartbeat-runner.ts`) | pending wakes by target, timer and its kind, handler generation; per runner: agents, due times, interval timer | request, run, retry; start, reload, stop, enable, disable | busy lane, retry cooldown, handler replaced in flight, an interval timer that only a run arms again | no wake is lost, cooldown kept, heartbeats keep coming |
| follow-up queue (`auto-reply/reply/queue/`, `utils/queue-helpers.ts`) | items, cap, mode, dropped summaries, draining flag | enqueue, drop, drain, clear | enqueue, overflow and clear at every await of the drain | each message is answered once, in order, or its loss was asked for |
| gateway and session locks (`infra/gateway-lock.ts`, `agents/session-write-lock.ts`) | lock files, owner payload, re-entrancy count | acquire, check staleness, remove, release, watchdog, signals, startup cleanup | check-then-remove of a stale file, used pids, death between two steps, reads and removals whose errors are swallowed | one owner, nobody locked out |
| exec approvals (`gateway/exec-approval-manager.ts`) | pending records with timers | register, resolve, expire, consume | decision against expiry; a record replaced in its grace period | one decision per record |
| cron service (`cron/service/`) | job store, running marks, timer | arm, tick, run, catch up | restart in the middle of a job, stuck marks | a due job runs, and once |
| task registry (`tasks/task-registry.ts`) | task records, delivery state | create, progress, finish, sweep | a late event for a finished task | terminal states are final |
| ACP control plane (`acp/control-plane/`) | actor queue and handle per session | ensure, run turn, cancel, close | cancel against a starting turn | one turn at a time |
| engine bridge (`deepclaw-bridge/`, `websocket-bridge`) | socket, one-time handlers, reconnect attempts and timers | connect, request, reconnect, disconnect | overlapping requests, sockets that close on their own | an answer goes to its request; connections do not multiply by themselves |
| engine runtime (`engine/crates/runtime`) | worker boot state, conversation, tasks | observe, prompt, restart, run a turn | misdelivered prompts, recovery | state machine rules |
| gateway protocol, plugins, UI, native apps, engine clients and tools | various | request routing, integrations | — | not modelled, see section 8 |

How they interact: a channel message becomes an agent run, which is an entry of the
command queue; a cron job first takes a slot of the cron lane and then starts such
a run; the reply of a run goes through the delivery queue. The run loop marks the
command queue as draining, waits for its active tasks, closes the server and, if it
restarts in the same process, resets all lanes; the next start scans the delivery
queue and registers a new heartbeat handler with the wake layer, which outlives it. A
message that arrives during a run waits in the follow-up queue of its session; whoever
writes the transcript of a session holds its write lock, in whichever process.

## 2. Modules

| module | models | extends |
|---|---|---|
| `CommandQueue` | `command-queue.ts` | — |
| `AgentRuns` | `run.ts`, `lanes.ts`, the cron slot, drain and reset of `run-loop.ts`; composes runs with the queue | `CommandQueue` |
| `GatewayRunLoop` | `run-loop.ts` with signals, lock and watchdog | — |
| `DeliveryQueue` | `delivery-queue-storage.ts`, `delivery-queue-recovery.ts`, the queue part of `deliver.ts` | — |
| `HeartbeatWake` | `heartbeat-wake.ts`: coalescing, the timer, batches, retries, handler generations | — |
| `HeartbeatRunner` | `startHeartbeatRunner` of `heartbeat-runner.ts`, composed with the wake layer | `HeartbeatWake` |
| `FollowupQueue` | `queue/{enqueue,drain,state,cleanup}.ts`, `queue-helpers.ts`, their callers in `agent-runner.ts` | — |
| `SessionLock` | what the session write lock promises (abstract) | — |
| `SessionWriteLock` | `session-write-lock.ts`; implements `SessionLock` | instance of `SessionLock` |
| `EngineBridge` | `deepclaw-bridge/index.ts` and the answering side in `websocket-bridge/src/lib.rs` | — |
| `MC...` | symmetry and the constants of the TLC instances | the module they name |
| `CommandQueueProofs`, `AgentRunsProofs`, `GatewayRunLoopProofs`, `DeliveryQueueProofs`, `HeartbeatRunnerProofs`, `FollowupQueueProofs`, `SessionWriteLockProofs`, `EngineBridgeProofs` | theorems | the module they name |

Definitions named `X_Something` under a comment "Mutant" are deliberately wrong
variants of `X`; no specification uses them. Each property has one that breaks it.

### CommandQueue

One entry is one call of `enqueueCommandInLane`; it also serves as its task id. The
lane fields are the variables of the same name. `promise` is the state of the
promise given to the caller, `taskGeneration` the generation captured in `pump`.

JavaScript runs a turn to its end, but turns are not atomic here: a task that the
pump starts runs up to its first `await` inside the pump, and may itself enqueue,
throw or return. `stack` holds those frames (pump of a lane, prefix of a task), and
only the top frame moves. Nothing else runs until the stack is empty and
`resetAllLanes` has ended (`Idle`).

| action | code |
|---|---|
| `enqueueCommandInLane` | 242–269: refused while draining, or pushed and drained |
| `PumpStart`, `PumpEnd` | 167–222: loop body up to the call of the task; finally |
| `TaskAwaits` | the prefix of the task ends |
| `TaskSettles`, `TaskThrows` | 190–216: `completeTask`, notify, nested pump, resolve or reject |
| `setCommandLaneConcurrency`, `clearCommandLane`, `markGatewayDraining` | as named |
| `resetAllLanes`, `ResetDrain`, `ResetNotify` | 341–358: both loops and the trailing notification |
| `waitForActiveTasks`, `WaiterTimeout` | 381–408 |

Wait-time warnings and logging are left out, and so is the reset that only tests
call. Time is left out: any armed timer may fire.

### AgentRuns

A run `r` owns up to three entries: `cron(r)`, `session(r)` and `global(r)`. The
session task enqueues the global entry in its synchronous prefix and settles as that
entry does. `phase` follows the restart handler: `requested` (marked draining, in
the same turn as the call that registers the waiter), `draining`, `closing`, and `up`
again after `resetAllLanes`. An abort after a drain timeout is a settlement like any
other. Every step is a step of the queue or leaves the queue unchanged, by the way
the module is written, so what is proved of the queue holds of its use by runs too.

A cron task normally ends with its run (`CronSettles`), but `executeJobCoreWithTimeout`
races the job against a timer: at any time the cron task may end, its slot is free and
the run goes on, queued or running (`CronTimesOut`). The timeout aborts the signal of the
run, which then starts no new entry (`SignalOpen`) but keeps those it has.

### GatewayRunLoop

The loop and the signal handler are two activities that interleave at their awaits.
`restartResolver` distinguishes no resolver yet, the resolver of the promise the
loop waits for, and a leftover of an earlier round. `listening` is the server itself
as opposed to the handle in the variable `server`. `mishaps` is history: which of a
failed start, a throwing close and a restart requested outside the loop's wait have
happened. The properties use it to say which mishap, and only which, may cost the
process its server handle, its lock or its open queue. The short pause before a
launchd exit is part of the exit.

### DeliveryQueue

Workers are the live sender of each message (named by the message), the startup
scan, and reconnect drains. Each file operation and each send is one step; phase 1
and phase 2 of an ack are two steps, and so are the read and the write of
`failDelivery`. The directory is `pending`, `retryCount`, `marker` and `failed`. A
crash resets what is in memory. `sent`, `dropped`, `acked`, `persisted` and `unsure`
are history for the properties; a message is in `unsure` once a crash or a failed file
operation has kept its entry after the send, or a late `failDelivery` has written the
entry back. Messages are numbered in the order of `enqueuedAt`. A message with several
payloads is one message: it counts as sent when all of them are out. A send may also
return with nothing, or not everything, out: a `message_sending` hook cancels a payload,
or nothing is left of it once normalised and chunked (`PayloadsEnd`). Such a message is in
`dropped`, and so is one whose live send ends with an `AbortError`, whoever raised it
(`SendAborted`); the code acks both.

Backoff is a free choice (`TooEarly`) except for the first replay, which never
waits. `retryCount` is capped at `MaxRetries`, since it is only compared with it, and is
0 for an entry that is not there.

### HeartbeatWake and HeartbeatRunner

A batch is the closure of one timer callback: the targets it took, the one whose answer
it awaits, and the generation of the handler it calls. The clock counts in ticks, since
delays of the wake layer are compared with each other; everything that is due at once
happens before the next tick. The map of pending wakes is iterated in any order.
`owed`, `pause`, `excused` and `outlived` are history: the strongest reason asked for,
the rest of a retry pause, whether that pause has an exception (section 6), and whether
a batch has ended after its handler was replaced.

A runner is known by the generation of its registration. A close that throws before it
stops the runner leaves it up beside the next one, which takes its place as the handler;
such a start counts as an input. Its agents are due or not;
`runHeartbeatOnce` is one await that answers "done", "disabled" or "busy", or throws.

| action | code |
|---|---|
| `requestHeartbeatNow`, `RequestWake` | `heartbeat-wake.ts` 239–251, with `queuePendingWakeReason` and `schedule` |
| `TimerFires` (four cases) | the timer callback up to its first await |
| `HandlerDone`, `HandlerBusy`, `HandlerThrows` | after the await: next target, put back and schedule a retry, put all back |
| `startHeartbeatRunner`, `UpdateConfig`, `stop` | registration, reload, cleanup |
| `RunRefused`, `RunFindsNone`, `RunStarts` | `run` up to its first `await runOnce` |
| `RunOnceAnswers`, `RunOnceDisabled`, `RunOnceBusy`, `RunThrows` | after that await, with `advanceAgentSchedule` and `scheduleNext` |
| `setHeartbeatsEnabled`, `RunnerTimerFires`, `BecomesDue` | as named |

### FollowupQueue

The queues of one session. A drain holds the queue *object* it started on, so the
objects of a session have names and `current` is the one in the map; `Garbage` objects
may be used again. Messages are numbers in the order of arrival; `RouteOf` is the place
a reply goes to. The drain stops at its debounce, at each run, where `drainNextQueueItem`
returns to it, and in collect mode between the check for several places and the prompt:
`drainCollectQueueStep` is awaited there even when it has nothing to do. What is enqueued
in that gap is `late`. The loop body between two awaits is one step (`DrainStep`). A run
may throw before its answer or after it (`followup-runner.ts:309`, 361, 393). A run whose
agent fails returns normally (286–291): its messages count as `ran`. `active` is a run of
the session outside the drain: messages are enqueued during
it, and its end schedules the drain (`finalizeWithFollowup`). `ran`, `told`, `gone` and
`mishaps` are history; a mishap is something the drain does not allow for (section 6).

### SessionLock and SessionWriteLock

`SessionLock` says what callers rely on: those between acquire and release at one time
share one hold. `SessionWriteLock` has the lock file, every file operation of
`acquireSessionWriteLock`, `releaseHeldLock`, the watchdog and `cleanStaleLockFiles` as
a step of its own, processes that crash, exit or get a signal between any two of them,
and pids that are used again. The refinement maps a caller at "using" to its hold, and
`excused` to "a fault has happened". A fault is a named event in which the file of a
lock in use is removed or its hold released by force (section 6); until the first one,
the lock excludes.

A file of a caller in `Unreliable` may be impossible to read, to stat or to remove, at
each attempt anew. `readLockPayload` takes a file it cannot read for one without a payload
(`Reads`); an error of stat other than ENOENT makes it old enough (`StatFails`); the
release, the watchdog, a signal and a failed write swallow the error of their `fs.rm`
(`Remove`), after which the file is in `left`; a contender and the startup cleanup throw it
(`AcquireThrows`, `ScanFails`).

### EngineBridge

Sockets have an identity and a state; the client sends on `ws` only. A message carries
the request it answers as history only: the code has nothing to tell them apart but the
kind of the response. The caller may call `connect` at any time, also while there is a
socket or a reconnect pause, as after a connect that was rejected; the code does not ask.
A request whose socket closes is "stranded", as its promise never
settles. The engine answers the requests of a connection one after the other.

## 3. Runs

| run | bounds | shows |
|---|---|---|
| `CommandQueue_safety` | 2 lanes, 4 entries, 1 waiter, limits 0 and 2, 1 reset | the queue's invariants, and that settled promises stay settled |
| `AgentRuns` | 1 run and 1 cron run of one session, 1 restart | `DrainedRestartCutsNoRun`, `SessionCoversRun`; accepted runs settle, the restart comes round |
| `GatewayRunLoop` | 6 signals; starts and closes may fail | the three safety properties, `ShutdownEnds`, `RestartComesRound` |
| `DeliveryQueue` | 2 messages, one best-effort and one with failing files; 1 startup scan, 1 drain, 1 crash, 2 retries | `NothingLost`, `ClaimsExact`, `ReplayHasCause`, `EveryEntryLeaves` |
| `HeartbeatRunner` | 1 agent, 2 targets, 2 reasons, 2 batches, 3 registrations, 1 input (a request, switch, reload or failing close) | `WakeKept`, `NoWakeStuck`, `OverlapHasCause`, `IntervalChainAlive`, `RetryCooldownKept`, `HeartbeatsKeepComing` |
| `FollowupQueue` | 4 messages for 2 places, 4 settings, 2 queue objects, 1 run that fails before or after its answer, 1 clear | `LossHasCause`, `OneFollowupAtATime`, `OneRoutePerPrompt`, `AnsweredOnceInOrder`, `EventuallySettled` |
| `SessionWriteLock` | 3 processes, two with one pid; 3 callers, two re-entrant, one whose file may be impossible to read or remove | `FileBacksHold`, `CountMatchesUsers`, `LiveFileHasOwner`, refinement of `SessionLock`, `AcquireEnds` |
| `EngineBridge` | 3 requests of 2 kinds, 3 sockets, 2 attempts, 2 stops of the engine, 2 connects, 1 disconnect | `OwnAnswer`, `ChainPerConnect`, `ConnectionComesBack` |

Four more runs, `AgentRuns_one_run_per_session`, `DeliveryQueue_acked_not_resent`,
`HeartbeatRunner_reenabled` and `FollowupQueue_lost`, are expected to be violated; they
are the findings of section 6.

Why the bounds suffice: lanes only influence each other through re-entrant calls,
waiters and the reset, so two lanes show every pairing; four entries let a lane
have a running task, a queued one, a nested one and one left from before the
reset. A second reset adds nothing new, since generations are only compared for
equality with the current one. Two runs of one session, one inside a cron task, have
every lane a run can wait in: the cron, the session, the main and the nested lane. In the
delivery queue, two messages let one be deferred or
overtaken while another is in hand, and one scan of each kind gives every pair of
paths that can meet over an entry; a scan object starts again and again. `MaxLive`
bounds the live sends in flight: one is enough for safety, because live senders of
different messages share nothing; with two retries an entry is fresh, in its backoff, or
at its limit. Six signals allow several rounds after each mishap.

Three registrations let a batch outlive its handler and meet the flag of the next one;
two targets are an untargeted wake and one for the agent, and "interval" and "hook" are
a weak reason and one of the highest priority; "retry", the weakest, comes from the
layer itself. One input suffices because the interval chain brings wakes by itself; a start
over a runner that a failing close has left up is one. A cap
of two is full with one message in a run and one waiting; four messages then overflow
it twice, and the places a, b, a and none make mixed, uniform and unrouted rests. Two
callers of a process and one of another show a shared hold against a contender; the
third process is the gateway restarted with a used pid. The caller whose file is unreliable
shares its process with another, so that its failures meet a live hold, a contender, the startup
cleanup and a process that goes on. Two connects make the second chain that the code
allows. Three requests give an overlap
of two and a later request that must not be touched by it.
The safety properties are proved for all bounds anyway (section 5).

Deadlock checking is off because the instances run out of entries, messages, signals,
callers or requests. It is on for the follow-up queue, whose session can always begin
another run.

## 4. Fairness

- `CommandQueue` states no fairness of its own: whether a task ends is up to its owner.
- `AgentRuns`: the JavaScript engine finishes a synchronous call (weak fairness of the
  stack). What is due stays due while other turns run (strong fairness): for each run,
  one of its tasks settles, because the run carries a timeout and whoever awaits it
  settles next. The cron task of a job need not have a timeout: its end is assumed only
  once its run has settled, and its timeout never. And the restart proceeds: the timer of
  the drain fires, the server
  closes, the loop goes round. Nothing forces a user to start a run, nor a cron task to
  start one: a job may be skipped.
- `GatewayRunLoop`: `params.start`, the drain, the close and the lock calls end. The
  watchdog is not needed for the properties, and no fairness is assumed for it.
- `DeliveryQueue`: the sends of a scan end, its file operations return and the scan
  proceeds; and an entry is not found too early for ever (strong fairness of
  `StartSend`), because time passes between starts. Nothing is asked of the live
  senders. That startup scans keep coming, and that file operations stop failing at some
  time, are premises of the property.
- `HeartbeatRunner`: the clock goes on (`setTimeout` fires, due times pass), and every batch
  ends (`[]<>~InFlight(b)`): it calls `runHeartbeatOnce` for finitely many targets and
  agents, and an agent run has a timeout. Nobody is obliged to request a wake.
- `FollowupQueue`: the active run ends, the debounce elapses and follow-up runs end, well
  or not. No message is obliged to arrive.
- `SessionWriteLock`: file operations return, some with an error, callers that have the
  lock release it, and
  lock files grow old. Neither watchdog, nor signals, nor crashes are obliged to happen.
- `EngineBridge`: a socket opens or closes, pauses end, the engine answers what it has
  received and messages arrive. An engine that is down need not come back. That a
  handshake ends is an assumption about the other peers of the engine: its accept loop
  awaits each handshake (`lib.rs:107-110`), so a peer that stays silent in its own would
  keep this client waiting.

## 5. Proofs

All theorems hold for every value of the constants that satisfies the named
assumptions: any number of lanes, entries, waiters, messages, scans, targets, queue
objects, processes, callers and requests, any limits and settings, and any number of
resets, signals, crashes, failures and disconnects.

**CommandQueue.** `ActiveMatchesRunning` and the others are not inductive alone.
`IInv` adds

- a *stack discipline*: a task frame lies directly above the pump that started it,
  and its entry is running; no two frames belong to the same entry;
- *bookkeeping of the queues*: an entry is in at most one queue at one position,
  exactly when its promise is "queued", and `laneOf` says which;
- *coverage*: a lane with backlog has a pump on the stack or is due to be drained by
  the reset under way. Without it `WorkConserving` would not survive `Complete`;
- *re-entry flags*: a lane whose flag is set has a pump on the stack, and when that
  pump is below a task, an active task;
- the *limit*: a serial lane has limit one, and its active set at most one member.

From `Invariance` follow `TypeCorrect`, `ActiveMatchesRunningHolds`,
`WorkConservingHolds`, `DrainNeverBlockedHolds`, `SerialLanesRunOneHolds`,
`WaitersExactHolds` and the action property `SettledStaysSettledHolds`.

**AgentRuns.** `SessionCoversRunHolds` uses an invariant on how far a session task has
got. A lemma, not a result in itself, says that each step of a run or of the restart is a
step of the queue or a stutter, so that the theorems about the queue carry over to runs
(`RunsSerialLanes` is one).

**GatewayRunLoop.** `ListeningServerIsHeldHolds`, `ServesUnderLockHolds` and
`RefusesOnlyWhileRestartingHolds`. The strengthening is about how far loop and handler
can drift apart: the loop waits exactly when its resolver is live; unless a restart
was requested in the middle of a start, a restart handler works only while the loop
waits, and outside its wait the loop has no server; until a start fails, only a
restart about to take the lock again is without it.

**DeliveryQueue.** `NothingLostHolds` and `ClaimsExactHolds`, with disk faults, crashes
and overlapping workers. The strengthening says that whoever is about to remove an
entry holds a reason: a worker at "acking" has a message that was sent or dropped, or is
best-effort, and a worker past a claim holds it alone. The second one is what makes
`ClaimsExact` inductive: releasing one scan's claim must not release another's.

`ReplayHasCauseHolds`, an action property, needs two more: before its live send starts, a
message is nowhere (not on disk, in no snapshot, in nobody's hands); and an entry the
channel already has is in the hands of a worker that is about to ack it, unless it is
uncertain. A scan that begins to send such an entry holds the claim on it, so that worker
is no scan and must be the live sender, which is what the property says.

**AgentRuns, drain.** `DrainedRestartCutsNoRunHolds`. From the request of a restart on the
queue is closed, so what is unfinished in a global lane was enqueued before, by a session
task that is still active (`SessionCoversRun`); the invariant says that the waiter of
the drain has that task in its snapshot or has timed out. A waiter that answers "drained"
therefore leaves none of this generation.

**HeartbeatWake and HeartbeatRunner.** Every step of a runner does to the wake layer what
one of the layer's own actions does, or nothing (`WakeStep`), so the wake invariants are
proved of that layer once. `WakeKeptHolds` and `NoWakeStuckHolds` need that a batch
has only targets that were pending; `OverlapHasCauseHolds` that, until a batch has
outlived its handler, the running flag tells whether the current handler has a batch;
`RetryCooldownKeptHolds` that during a pause the armed timer is the retry's, which
nothing replaces, and not due before the pause ends. `IntervalChainAliveHolds` adds that
an awaited run belongs to a batch that still waits for its target: the run that will
arm the timer cannot be forgotten.

**FollowupQueue.** The invariants are predicates of the map entry, the queue objects
and the drains, since a `DrainStep` passes through several states: it takes messages off, ends
or goes on, and perhaps starts a drain again. They are proved for that middle state and
from there to the end of the step. `OneRoutePerPromptHolds` follows the queue object
from the check to the prompt: what it holds besides the late messages goes to one place,
whatever is added, dropped or cleared in between (`RouteObject`), and a prompt of several
messages was built after a check of the same drain. `OneFollowupAtATimeHolds` rests on only
the object in the map draining;
`AnsweredOnceInOrderHolds` on the queue being sorted, later than all that has run, and
beginning with the prompt of its run; `LossHasCauseHolds` on every accepted message
being settled or in the object in the map, and a run taking off exactly its prompt.
Each exception is a mishap of section 6, and each part is kept until its own
mishaps happen, not only until the first of any kind.

**SessionWriteLock.** `ImplementsSessionLock`: each step maps to a step of `SessionLock`
or a stutter. The invariant says, as long as there is no fault, that whoever writes,
uses or removes the file has the one that is there, and that the last user is alone when
it removes it (`ExclusiveInv`); a file judged stale is old or its creator is dead or wrote
wrote no start time, and one that could not be read is taken for no file (`JudgedInv`), so that
reclaiming the file of a live hold is a fault. `FileBacksHoldHolds` follows;
`CountMatchesUsersHolds` and `LiveFileHasOwnerHolds` hold with faults as well, the latter
for files that no removal has failed on.

**EngineBridge.** `OwnAnswerHolds`: on a socket whose requests have not overlapped either
nothing is under way, or one request waits and its message, in one of the two directions,
is the only one. `ChainPerConnectHolds`: a close ends a socket and starts at most one pause,
a pause ends and starts one socket, and only `connect` starts a socket without ending
anything, so pauses and live sockets together never outnumber the connects. Sockets and requests are
assumed to be different things, since the history variable `mixed` holds both.

Only model-checked: liveness under fairness (`RunsEventuallySettle`, `RestartCompletes`,
`ShutdownEnds`, `RestartComesRound`, `EveryEntryLeaves`, `HeartbeatsKeepComing`,
`EventuallySettled`, `AcquireEnds`, `ConnectionComesBack`), which is out of the prover's
reach. Every safety property and action property of a passing run is a theorem. The type
invariant of every module is proved (`TypeCorrect`, or `LoopTypeOK` inside the invariant of
`AgentRuns`); only the run of `CommandQueue` lists it.

## 6. Findings

Four runs state what a document or comment says, and are violated:

- `OneRunPerSession`: after a drain that timed out, the reset lets the next run of a
  session start while the interrupted one still runs (`docs/concepts/queue.md:83`).
- `AckedNotResent`: the budget deferral of a startup scan goes through its snapshot without
  claiming. In the trace it reads an entry; a reconnect drain claims, sends and acks the
  entry; the deferral writes it back; and the next scan sends it again
  (`delivery-queue-recovery.ts:257`, about stale snapshots). A live sender that fails late
  can bring an entry back too, but has no snapshot; the property leaves it out.
- `HeartbeatsComeBack`: a run that finds heartbeats disabled returns before the block that
  arms the interval timer again, and enabling them arms nothing
  (`heartbeat-runner.ts:1456`, `docs/cli/system.md:50`).
- `NoFollowupLost`: the run of a summary shifts a message that was never in a prompt off
  the queue, and so does a run whose own message was dropped meanwhile
  (`docs/concepts/queue.md:30` and `:69`).

Some properties name exceptions, each of them a behaviour of the code that TLC reaches:

- a restart requested while the server is starting finds no resolver, or an old one,
  so nobody comes round: the gateway may serve and refuse all work
  (`RefusesOnlyWhileRestarting`, `RestartComesRound`), or lose the handle of the server
  that was about to start (`ListeningServerIsHeld`);
- a start that fails after a restart releases the lock, and a later restart serves
  without taking it again (`ServesUnderLock`);
- a close that throws before the server stops listening leaves the port taken
  (`ListeningServerIsHeld`);
- a message is sent twice after a crash or a failed transcript append, ack rename or
  late write-back, and while its live sender is between send and ack, which needs no
  fault at all (`ReplayHasCause`);
- a best-effort message whose replay fails is acked, since a scan passes no `onError`
  (`NothingLost` leaves best-effort messages out);
- a message that a hook cancels, or of which nothing is left once normalised, is acked
  with nothing sent (`deliver.ts:686`, 543), and a live send that ends with an
  `AbortError` is acked without a look at the caller's signal (549): a channel's own
  timeout is enough (`dropped` in `NothingLost`);
- a run that waits in its session lane when a drain begins is pumped during the drain
  and refused its global lane (`DrainedRestartCutsNoRun` relies on it);
- a retry pause is not kept when a timer was armed before the busy answer came, as that
  timer has precedence, nor across a new handler (`RetryCooldownKept`);
- the end of a batch whose handler was replaced clears the running flag of its successor,
  and the new handler may then work on two batches (`OverlapHasCause`);
- follow-ups: a full queue drops the message being run and the shift takes the next one
  ("overflow in a run"); a summary takes the place of a message; a session is cleared in
  the middle of a drain, which goes on beside the next one; a changed drop policy gives up
  a summary that is due; and a summary that is due when no message is left makes the drain
  end and begin again without getting on; and a run that throws after its answer is run
  again (`LossHasCause`, `OneFollowupAtATime`, `AnsweredOnceInOrder`, `EventuallySettled`);
- a message for another place that is enqueued between the cross-channel check
  (`drain.ts:102`) and the prompt (117) goes into that prompt, against the comment at
  100–101; `OneRoutePerPrompt` speaks of the messages that were there at the check;
- the session lock stops excluding after a contender has removed a file that had replaced
  the one it judged ("replaced"), has reclaimed the file of a hold longer than
  `staleMs` ("too old"), or, without a start time in the payload, has taken a file its own
  process is just writing for one an earlier process left ("orphan"); after the startup
  cleanup has removed a file whose payload is
  not written yet ("unwritten"); after a contender or the cleanup has removed a file that
  could not be read, which counts as one without a payload ("unread"); and after the
  watchdog or a termination signal has
  released a hold that is in use ("watchdog", "signal": `IsSessionLock`, `FileBacksHold`);
- a lock file whose removal fails when its hold ends is left without an owner, since the
  error is swallowed; it keeps others out until it is too old (`LiveFileHasOwner`,
  `AcquireEnds`);
- the bridge gives a message to all requests that wait on the socket, so that requests
  which overlap may get each other's answers (`OwnAnswer`); those that wait when a socket
  closes never settle; a disconnect is followed by a reconnect like any other close; and a
  second connect, after a disconnect or because the first one was rejected while its close
  event had started a pause, makes a second chain (`ChainPerConnect`,
  `ConnectionComesBack`).

Four properties are weaker than they look, because the mishap they name is the hazard:
`RefusesOnlyWhileRestarting` and `RestartComesRound` do not hold after a restart requested
while the server starts, `ListeningServerIsHeld` does not hold after it or after a close
that throws, and `OverlapHasCause` is excused for good once one batch has outlived
its handler. They show that nothing else brings these states about.

## 7. Plan

Proofs worth adding:

1. what the findings of section 6 leave true of their documents' claims, such as "one run
   per session unless a drain timed out", as invariants beside the violated ones;
2. leads-to properties from their inductive steps, without fairness: which steps can
   still undo the progress that `EveryEntryLeaves` or `AcquireEnds` counts on;
3. an abstract specification of the delivery queue (each entry leaves once, for a named
   reason) as a refinement beside `NothingLost`.

Components that would come next: the gateway lock beside the session lock; restart
scheduling, composed with `GatewayRunLoop` over the SIGUSR1 authorisation; the cron
timer against an abstract "each due slot runs at most once"; exec approvals, the task
registry and the ACP control plane; then the engine's worker boot and conversation.

## 8. Not modelled

- What a run does (model calls, tools, compaction): one task that settles. What
  `runHeartbeatOnce` does between its first checks and its answer: one await.
- The contents of `params.start` and `server.close`: one call each that ends or fails.
- Delivery entries written by older versions, malformed files, and the text of errors:
  whether an error is permanent is a free choice.
- Heartbeats: disposers of handlers that were replaced twice, and the phase of a schedule;
  due times are a set of due agents.
- Follow-ups: the steer modes, which hand a message to the active run and not to the
  queue, and the rewrite of session ids in queued runs.
- Session lock: a caller that releases twice (its flag makes the second call void) and a
  caller that acquires again (it is another caller).
- Engine bridge: the contents of requests and responses, beyond their kind.
- Gateway lock, exec approvals, restart scheduling, cron timer, task registry, ACP control
  plane, engine runtime: see the plan.
- Channels, providers, plugins, native apps, UI, dashboard, engine clients and tools:
  input and output, without a protocol of their own that could be checked here. They are
  by far the largest part of the repository's lines.
- Time: delays and cooldowns are orders of events, not durations; only the wake layer
  counts ticks.

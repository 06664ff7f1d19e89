----------------------------- MODULE AgentRuns ------------------------------
(***************************************************************************)
(* How agent runs use the command queue, and the drain-and-restart of the  *)
(* gateway around them.                                                    *)
(*                                                                         *)
(* runEmbeddedPiAgent enqueues a run into the lane of its session; the     *)
(* session task enqueues the real work into a global lane and stays active *)
(* until it is done.  A manually started cron job holds a slot of the cron *)
(* lane around all of that; when the job times out it gives the slot back  *)
(* and leaves the run going with its signal aborted.  On SIGUSR1 the run   *)
(* loop refuses new enqueues, waits for the active tasks, closes the       *)
(* server and, when it restarts in the same process, resets the lanes.     *)
(*                                                                         *)
(* Sources: src/brain/src/agents/pi-embedded-runner/run.ts and lanes.ts,   *)
(* src/brain/src/agents/lanes.ts, src/brain/src/cron/service/ops.ts and    *)
(* timer.ts, src/brain/src/cli/gateway-cli/run-loop.ts.                    *)
(***************************************************************************)
EXTENDS CommandQueue

CONSTANTS
    Run,                              \* agent runs
    CronRun,                          \* the runs started by a cron job
    SessionOf,                        \* lane session:<key> of a run
    MainLane, CronLane, NestedLane,   \* members of CommandLane
    NoWaiter

(* A run makes at most three enqueue calls.                                *)
ASSUME EntryAssumption == Entry = {"cron", "session", "global"} \X Run
ASSUME RunAssumption == CronRun \subseteq Run /\ SessionOf \in [Run -> SerialLane]
ASSUME LanesAssumption ==
    /\ {MainLane, CronLane} \subseteq Lane \ SerialLane
    /\ NestedLane \in SerialLane /\ NestedLane \notin {SessionOf[r] : r \in Run}
    /\ NoWaiter \notin Waiter

VARIABLES
    phase,        \* run loop: "up", "requested", "draining" or "closing"
    drainWaiter   \* the waitForActiveTasks call of the current restart

loopVars == <<phase, drainWaiter>>
allVars == <<vars, loopVars>>

cron(r) == <<"cron", r>>
session(r) == <<"session", r>>
global(r) == <<"global", r>>

(* The loop's variables; from the drain on, the loop holds its wait.       *)
LoopTypeOK ==
    /\ phase \in {"up", "requested", "draining", "closing"}
    /\ drainWaiter \in Waiter \cup {NoWaiter}
    /\ phase \in {"draining", "closing"} => drainWaiter \in Waiter

RunsInit == Init /\ phase = "up" /\ drainWaiter = NoWaiter

-----------------------------------------------------------------------------
(* Lanes of a run.                                                         *)

resolveNestedAgentLane(lane) == IF lane \in {NoLane, CronLane} THEN NestedLane ELSE lane

resolveGlobalLane(lane) ==
    IF lane = CronLane THEN NestedLane
    ELSE IF lane = NoLane THEN MainLane ELSE lane

(* Mutant: a cron run does its work in the lane whose slot it holds.       *)
globalLane_Inherited(r) == IF r \in CronRun THEN CronLane ELSE MainLane

globalLane(r) ==
    resolveGlobalLane(IF r \in CronRun THEN resolveNestedAgentLane(CronLane) ELSE NoLane)

-----------------------------------------------------------------------------
(* Steps of a run.  Each is a step of the queue.                           *)

(* A manual cron run takes a slot of the cron lane.                        *)
enqueueRun(r) ==
    /\ Idle
    /\ enqueueCommandInLane(CronLane, cron(r))

(* A cron task that ends before its run has timed out: the signal of the   *)
(* run is aborted then.                                                    *)
SignalOpen(r) == r \in CronRun => promise[cron(r)] = "running"

(* The caller of a run is the gateway itself, or the cron task above it.   *)
runEmbeddedPiAgent(r) ==
    /\ Idle
    /\ SignalOpen(r)
    /\ enqueueCommandInLane(SessionOf[r], session(r))

(* The session task: throwIfAborted, then enqueueGlobal, in one turn.      *)
SessionTaskEnqueues(r) ==
    /\ OnTop(Task(session(r)))
    /\ SignalOpen(r)
    /\ enqueueCommandInLane(globalLane(r), global(r))

SessionTaskAborted(r) ==
    /\ promise[global(r)] = "none"
    /\ TaskThrows(session(r))

SessionTaskAwaits(r) ==
    /\ promise[global(r)] # "none"
    /\ TaskAwaits(session(r))

OtherTaskAwaits(r) == TaskAwaits(global(r)) \/ TaskAwaits(cron(r))

(* Mutant: the session task does not await the global entry.               *)
SessionSettles_NotAwaited(r) ==
    /\ promise[global(r)] # "none"
    /\ TaskSettles(session(r), "fulfilled")

(* The session task settles as the promise of the global entry does.       *)
SessionSettles(r) ==
    /\ promise[global(r)] \in Settled
    /\ TaskSettles(session(r),
           IF promise[global(r)] = "fulfilled" THEN "fulfilled" ELSE "rejected")

GlobalSettles(r) == Settles(global(r))

(* A cron task ends after its run, or without one when the job is skipped. *)
CronSettles(r) ==
    /\ promise[session(r)] \in Settled \cup {"none"}
    /\ Settles(cron(r))

(* A job with a timeout may lose the race against it at any time.          *)
CronTimesOut(r) == Settles(cron(r))

RunStep(r) ==
    \/ runEmbeddedPiAgent(r)
    \/ r \in CronRun /\ enqueueRun(r)
    \/ SessionTaskEnqueues(r) \/ SessionTaskAborted(r) \/ SessionTaskAwaits(r)
    \/ OtherTaskAwaits(r)
    \/ SessionSettles(r) \/ GlobalSettles(r) \/ CronSettles(r) \/ CronTimesOut(r)

(* Synchronous steps of the queue itself.                                  *)
QueueStep ==
    \/ \E l \in Lane : PumpStart(l) \/ PumpEnd(l) \/ ResetDrain(l)
    \/ ResetNotify

(* At startup and when the config is reloaded; one step per lane.          *)
applyGatewayLaneConcurrency ==
    \E l \in Lane \ SerialLane, n \in Concurrency : setCommandLaneConcurrency(l, n)

(* A stop command, or a message in interrupt mode.                         *)
clearSessionQueues == \E r \in Run : clearCommandLane(SessionOf[r])

OtherCalls ==
    \/ applyGatewayLaneConcurrency
    \/ clearSessionQueues
    \/ \E w \in Waiter : WaiterTimeout(w)

-----------------------------------------------------------------------------
(* The run loop.  Between the two calls below nothing else runs: they are  *)
(* made in the same turn.                                                  *)

(* Mutant: enqueues stay open during the drain.                            *)
RequestRestart_StaysOpen ==
    /\ Idle
    /\ phase = "up"
    /\ \E w \in Waiter : waiterState[w] = "idle"
    /\ phase' = "requested"
    /\ UNCHANGED <<vars, drainWaiter>>

RequestRestart ==
    /\ phase = "up"
    /\ \E w \in Waiter : waiterState[w] = "idle"
    /\ markGatewayDraining
    /\ phase' = "requested"
    /\ UNCHANGED drainWaiter

StartDrain ==
    /\ phase = "requested"
    /\ \E w \in Waiter, hasTime \in BOOLEAN :
         /\ waitForActiveTasks(w, hasTime)
         /\ drainWaiter' = w
    /\ phase' = "draining"

(* Drained, or out of time: abort what is left, as far as it can be        *)
(* aborted, and close the server.  An aborted run settles like any other.  *)
CloseServer ==
    /\ Idle
    /\ phase = "draining"
    /\ waiterState[drainWaiter] \in {"drained", "timedOut"}
    /\ phase' = "closing"
    /\ UNCHANGED <<vars, drainWaiter>>

(* Mutant: the hook that resets the lanes is not called.                   *)
NextIteration_NoReset ==
    /\ Idle
    /\ phase = "closing"
    /\ phase' = "up"
    /\ drainWaiter' = NoWaiter
    /\ UNCHANGED vars

(* The next iteration of the loop.                                         *)
NextIteration ==
    /\ phase = "closing"
    /\ resetAllLanes
    /\ phase' = "up"
    /\ drainWaiter' = NoWaiter

RunsNext ==
    \/ /\ phase # "requested"
       /\ QueueStep \/ OtherCalls \/ \E r \in Run : RunStep(r)
       /\ UNCHANGED loopVars
    \/ RequestRestart \/ StartDrain \/ CloseServer \/ NextIteration

(* JavaScript runs a synchronous call to its end.  A settled promise stays *)
(* in the microtask queue however many other turns run first, and so does  *)
(* a timer that is due.  A run's work settles (it carries a timeout), what *)
(* awaits it settles next; the drain timer fires, the server closes and    *)
(* the loop goes round.  A cron job need not have a timeout.               *)
RunsFairness ==
    /\ WF_allVars((QueueStep \/ \E r \in Run :
                      \/ SessionTaskEnqueues(r) \/ SessionTaskAborted(r)
                      \/ SessionTaskAwaits(r) \/ OtherTaskAwaits(r)) /\ UNCHANGED loopVars)
    /\ \A r \in Run : SF_allVars((SessionSettles(r) \/ GlobalSettles(r) \/ CronSettles(r))
                                   /\ UNCHANGED loopVars)
    /\ SF_allVars(\/ \E w \in Waiter : WaiterTimeout(w) /\ UNCHANGED loopVars
                  \/ StartDrain \/ CloseServer \/ NextIteration)

RunsSpec == RunsInit /\ [][RunsNext]_allVars
FairRunsSpec == RunsSpec /\ RunsFairness

-----------------------------------------------------------------------------
(* Properties.                                                             *)

(* When a restart goes ahead because everything drained, no run of this    *)
(* lifecycle is cut short: neither queued nor running in a global lane.    *)
(* waitForActiveTasks only watches the tasks active when it was called;    *)
(* runs started later are covered because the session task that is waiting *)
(* for them was active, and because a session task that starts during the  *)
(* drain is refused its global entry.                                      *)
DrainedRestartCutsNoRun ==
    (phase = "closing" /\ waiterState[drainWaiter] = "drained") =>
        \A r \in Run : promise[global(r)] \in {"queued", "running"} =>
            taskGeneration[session(r)] < generation[SessionOf[r]]

(* A run works in its global lane only while its session task is           *)
(* unfinished: the session lane really covers the whole run.               *)
SessionCoversRun ==
    \A r \in Run : promise[global(r)] \in {"queued", "running"} =>
        promise[session(r)] = "running"

(* Every run that was accepted is eventually settled, cron runs included:  *)
(* lanes that wait for each other never wait in a circle, a restart        *)
(* strands nobody, and no cron job needs its timeout to get on.            *)
RunsEventuallySettle ==
    <>[](\A r \in Run : \A e \in {cron(r), session(r), global(r)} :
            promise[e] \in {"none"} \cup Settled)

(* A requested restart comes round: the gateway accepts work again.        *)
RestartCompletes == phase = "requested" ~> (phase = "up" /\ ~gatewayDraining)

(* docs/concepts/queue.md:83 - only one agent run touches a session at a   *)
(* time.                                                                   *)
OneRunPerSession ==
    \A r, s \in Run :
        (/\ r # s /\ SessionOf[r] = SessionOf[s]
         /\ promise[global(r)] = "running") => promise[global(s)] # "running"

=============================================================================

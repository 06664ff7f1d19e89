---------------------------- MODULE CommandQueue ----------------------------
(***************************************************************************)
(* The in-process lane queue of the gateway, src/brain/src/process/        *)
(* command-queue.ts.  Every agent run, cron run and heartbeat goes through *)
(* enqueueCommandInLane: a lane runs at most maxConcurrent tasks at a time *)
(* and keeps the rest in FIFO order.                                       *)
(*                                                                         *)
(* The code is single-threaded JavaScript, but it is re-entrant: a task    *)
(* started by a pump runs synchronously up to its first await, and in that *)
(* prefix it may enqueue into any lane (an agent run enqueues from its     *)
(* session lane into the main lane).  The variable stack is the JavaScript *)
(* call stack reduced to the frames that matter: the pump of a lane and    *)
(* the synchronous prefix of a task.  An event-loop turn starts only when  *)
(* the stack is empty.                                                     *)
(***************************************************************************)
EXTENDS Integers, Sequences, FiniteSets

CONSTANTS
    Lane,           \* lane names, after normalizeLane
    Entry,          \* one per call of enqueueCommandInLane; also its taskId
    Waiter,         \* one per call of waitForActiveTasks
    SerialLane,     \* lanes nobody reconfigures: they keep maxConcurrent = 1
    Concurrency,    \* values passed to setCommandLaneConcurrency
    MaxGeneration,  \* bound: how many times resetAllLanes may run
    NoLane          \* laneOf of an entry that was never accepted

ASSUME LaneAssumption == SerialLane \subseteq Lane /\ NoLane \notin Lane
ASSUME ConcurrencyAssumption == Concurrency \subseteq Int
ASSUME GenerationAssumption == MaxGeneration \in Nat

VARIABLES
    gatewayDraining,  \* new enqueues are refused
    queue,            \* per lane: entries waiting, oldest first
    activeTaskIds,    \* per lane: tasks of the current generation
    maxConcurrent,    \* per lane
    draining,         \* per lane: guards drainLane against re-entry
    generation,       \* per lane: bumped by resetAllLanes
    promise,          \* per entry: state of the promise given to the caller
    laneOf,           \* per entry: the lane it was pushed to
    taskGeneration,   \* per entry: generation captured when it started
    waiterState,      \* per waiter
    waiterTasks,      \* per waiter: activeAtStart
    stack,            \* synchronous frames, the running one last
    resetting,        \* resetAllLanes is in its second loop
    toDrain           \* lanesToDrain not drained yet

laneVars == <<queue, activeTaskIds, maxConcurrent, draining, generation>>
entryVars == <<promise, laneOf, taskGeneration>>
waiterVars == <<waiterState, waiterTasks>>
controlVars == <<stack, resetting, toDrain>>
vars == <<gatewayDraining, laneVars, entryVars, waiterVars, controlVars>>

Settled == {"fulfilled", "rejected", "cleared", "refused"}
PromiseState == {"none", "queued", "running"} \cup Settled

(* Frames of the call stack: the pump of a lane, the task of an entry.     *)
Pump(l) == <<"pump", l>>
Task(e) == <<"task", e>>
Frame == {Pump(l) : l \in Lane} \cup {Task(e) : e \in Entry}

TypeOK ==
    /\ gatewayDraining \in BOOLEAN
    /\ queue \in [Lane -> Seq(Entry)]
    /\ activeTaskIds \in [Lane -> SUBSET Entry]
    /\ maxConcurrent \in [Lane -> Nat \ {0}]
    /\ draining \in [Lane -> BOOLEAN]
    /\ generation \in [Lane -> 0..MaxGeneration]
    /\ promise \in [Entry -> PromiseState]
    /\ laneOf \in [Entry -> Lane \cup {NoLane}]
    /\ taskGeneration \in [Entry -> 0..MaxGeneration]
    /\ waiterState \in [Waiter -> {"idle", "waiting", "drained", "timedOut"}]
    /\ waiterTasks \in [Waiter -> SUBSET Entry]
    /\ stack \in Seq(Frame)
    /\ resetting \in BOOLEAN
    /\ toDrain \in SUBSET Lane

(* getLaneState creates a lane on first use; here every lane exists at     *)
(* once, in the state it is created in.                                    *)
Init ==
    /\ gatewayDraining = FALSE
    /\ queue = [l \in Lane |-> <<>>]
    /\ activeTaskIds = [l \in Lane |-> {}]
    /\ maxConcurrent = [l \in Lane |-> 1]
    /\ draining = [l \in Lane |-> FALSE]
    /\ generation = [l \in Lane |-> 0]
    /\ promise = [e \in Entry |-> "none"]
    /\ laneOf = [e \in Entry |-> NoLane]
    /\ taskGeneration = [e \in Entry |-> 0]
    /\ waiterState = [w \in Waiter |-> "idle"]
    /\ waiterTasks = [w \in Waiter |-> {}]
    /\ stack = <<>>
    /\ resetting = FALSE
    /\ toDrain = {}

-----------------------------------------------------------------------------
(* The call stack.                                                         *)

Idle == stack = <<>> /\ ~resetting
OnTop(frame) == stack # <<>> /\ stack[Len(stack)] = frame
Below == SubSeq(stack, 1, Len(stack) - 1)
InTask == \E e \in Entry : OnTop(Task(e))

(* A task calls the queue from its synchronous prefix; everything else     *)
(* (channels, timers, signals) from a fresh event-loop turn.               *)
MayCall == Idle \/ InTask

PumpOnStack(l) == \E i \in 1..Len(stack) : stack[i] = Pump(l)

(* Mutant: the limit is compared with <= instead of <.                     *)
Backlog_OffByOne(l) ==
    /\ Cardinality(activeTaskIds[l]) <= maxConcurrent[l]
    /\ queue[l] # <<>>

(* The condition of the pump's loop.                                       *)
Backlog(l) ==
    /\ Cardinality(activeTaskIds[l]) < maxConcurrent[l]
    /\ queue[l] # <<>>

-----------------------------------------------------------------------------
(* Helpers of the code.                                                    *)

hasPendingActiveTasks(tasks, active) == \E l \in Lane : active[l] \cap tasks # {}

(* Resolves every registered waiter none of whose tasks is still active.   *)
notifyActiveTaskWaiters(state, tasks, active) ==
    waiterState' = [w \in Waiter |->
        IF state[w] = "waiting" /\ ~hasPendingActiveTasks(tasks[w], active)
        THEN "drained" ELSE state[w]]

(* Sets the guard and calls pump(), or returns because a pump is running.  *)
drainLane(l) ==
    IF draining[l]
    THEN UNCHANGED <<draining, stack>>
    ELSE /\ draining' = [draining EXCEPT ![l] = TRUE]
         /\ stack' = Append(stack, Pump(l))

-----------------------------------------------------------------------------
(* Operations.                                                             *)

EnqueueRefused(e) ==
    /\ gatewayDraining
    /\ promise' = [promise EXCEPT ![e] = "refused"]
    /\ UNCHANGED <<gatewayDraining, laneVars, laneOf, taskGeneration, waiterVars, controlVars>>

EnqueueAccepted(l, e) ==
    /\ ~gatewayDraining
    /\ queue' = [queue EXCEPT ![l] = Append(@, e)]
    /\ promise' = [promise EXCEPT ![e] = "queued"]
    /\ laneOf' = [laneOf EXCEPT ![e] = l]
    /\ drainLane(l)
    /\ UNCHANGED <<gatewayDraining, activeTaskIds, maxConcurrent, generation,
                   taskGeneration, waiterVars, resetting, toDrain>>

enqueueCommandInLane(l, e) ==
    /\ MayCall
    /\ promise[e] = "none"
    /\ EnqueueRefused(e) \/ EnqueueAccepted(l, e)

(* One iteration of the pump's loop: shift an entry, make it active and    *)
(* enter the synchronous prefix of its task.                               *)
PumpStart(l) ==
    /\ OnTop(Pump(l))
    /\ Backlog(l)
    /\ LET e == Head(queue[l]) IN
       /\ queue' = [queue EXCEPT ![l] = Tail(@)]
       /\ activeTaskIds' = [activeTaskIds EXCEPT ![l] = @ \cup {e}]
       /\ taskGeneration' = [taskGeneration EXCEPT ![e] = generation[l]]
       /\ promise' = [promise EXCEPT ![e] = "running"]
       /\ stack' = Append(stack, Task(e))
    /\ UNCHANGED <<gatewayDraining, maxConcurrent, draining, generation, laneOf,
                   waiterVars, resetting, toDrain>>

(* Mutant: the guard is not cleared on the way out.                        *)
PumpEnd_KeepsFlag(l) ==
    /\ OnTop(Pump(l))
    /\ ~Backlog(l)
    /\ stack' = Below
    /\ UNCHANGED <<gatewayDraining, laneVars, entryVars, waiterVars, resetting, toDrain>>

(* The loop's condition fails; the finally block clears the guard.         *)
PumpEnd(l) ==
    /\ OnTop(Pump(l))
    /\ ~Backlog(l)
    /\ draining' = [draining EXCEPT ![l] = FALSE]
    /\ stack' = Below
    /\ UNCHANGED <<gatewayDraining, queue, activeTaskIds, maxConcurrent, generation,
                   entryVars, waiterVars, resetting, toDrain>>

(* The task reaches its first await: control returns to the pump.          *)
TaskAwaits(e) ==
    /\ OnTop(Task(e))
    /\ stack' = Below
    /\ UNCHANGED <<gatewayDraining, laneVars, entryVars, waiterVars, resetting, toDrain>>

(* Mutant: the freed slot is not offered to the next queued entry.         *)
Complete_NoPump(e, outcome, rest) ==
    LET l == laneOf[e] IN
    /\ promise' = [promise EXCEPT ![e] = outcome]
    /\ stack' = rest
    /\ IF taskGeneration[e] = generation[l]
       THEN /\ activeTaskIds' = [activeTaskIds EXCEPT ![l] = @ \ {e}]
            /\ notifyActiveTaskWaiters(waiterState, waiterTasks, activeTaskIds')
       ELSE UNCHANGED <<activeTaskIds, waiterState>>
    /\ UNCHANGED <<gatewayDraining, queue, maxConcurrent, draining, generation,
                   laneOf, taskGeneration, waiterTasks, resetting, toDrain>>

(* The task of e settles with the frames rest below it: completeTask,      *)
(* notifyActiveTaskWaiters, pump() and then entry.resolve / entry.reject.  *)
(* Settling the promise only schedules the caller's continuation, so it is *)
(* part of the step although the code does it after the nested pump.       *)
Complete(e, outcome, rest) ==
    LET l == laneOf[e] IN
    /\ promise' = [promise EXCEPT ![e] = outcome]
    /\ IF taskGeneration[e] = generation[l]
       THEN /\ activeTaskIds' = [activeTaskIds EXCEPT ![l] = @ \ {e}]
            /\ notifyActiveTaskWaiters(waiterState, waiterTasks, activeTaskIds')
            /\ stack' = Append(rest, Pump(l))
       ELSE stack' = rest /\ UNCHANGED <<activeTaskIds, waiterState>>
    /\ UNCHANGED <<gatewayDraining, queue, maxConcurrent, draining, generation,
                   laneOf, taskGeneration, waiterTasks, resetting, toDrain>>

(* The awaited task settles in a later turn.                               *)
TaskSettles(e, outcome) ==
    /\ Idle
    /\ promise[e] = "running"
    /\ Complete(e, outcome, stack)

(* The task throws in its synchronous prefix: the catch block runs inside  *)
(* the pump that started it and enters a nested pump.                      *)
TaskThrows(e) ==
    /\ OnTop(Task(e))
    /\ Complete(e, "rejected", Below)

markGatewayDraining ==
    /\ Idle
    /\ gatewayDraining' = TRUE
    /\ UNCHANGED <<laneVars, entryVars, waiterVars, controlVars>>

(* Mutant: the value is not clamped.                                       *)
AtLeastOne_NoClamp(n) == n

AtLeastOne(n) == IF n < 1 THEN 1 ELSE n

setCommandLaneConcurrency(l, n) ==
    /\ Idle
    /\ maxConcurrent' = [maxConcurrent EXCEPT ![l] = AtLeastOne(n)]
    /\ drainLane(l)
    /\ UNCHANGED <<gatewayDraining, queue, activeTaskIds, generation, entryVars,
                   waiterVars, resetting, toDrain>>

InQueue(l, e) == \E i \in 1..Len(queue[l]) : queue[l][i] = e

(* Mutant: the pending entries are rejected but stay in the queue.         *)
clearCommandLane_KeepsQueue(l) ==
    /\ Idle
    /\ promise' = [e \in Entry |-> IF InQueue(l, e) THEN "cleared" ELSE promise[e]]
    /\ UNCHANGED <<gatewayDraining, laneVars, laneOf, taskGeneration, waiterVars, controlVars>>

clearCommandLane(l) ==
    /\ Idle
    /\ queue' = [queue EXCEPT ![l] = <<>>]
    /\ promise' = [e \in Entry |-> IF InQueue(l, e) THEN "cleared" ELSE promise[e]]
    /\ UNCHANGED <<gatewayDraining, activeTaskIds, maxConcurrent, draining, generation,
                   laneOf, taskGeneration, waiterVars, controlVars>>

(* Mutant: the active sets of the interrupted tasks are not cleared.       *)
resetAllLanes_KeepsActive ==
    /\ Idle
    /\ \A l \in Lane : generation[l] < MaxGeneration
    /\ gatewayDraining' = FALSE
    /\ generation' = [l \in Lane |-> generation[l] + 1]
    /\ draining' = [l \in Lane |-> FALSE]
    /\ resetting' = TRUE
    /\ toDrain' = {l \in Lane : queue[l] # <<>>}
    /\ UNCHANGED <<queue, activeTaskIds, maxConcurrent, entryVars, waiterVars, stack>>

(* First loop of resetAllLanes.                                            *)
resetAllLanes ==
    /\ Idle
    /\ \A l \in Lane : generation[l] < MaxGeneration
    /\ gatewayDraining' = FALSE
    /\ generation' = [l \in Lane |-> generation[l] + 1]
    /\ activeTaskIds' = [l \in Lane |-> {}]
    /\ draining' = [l \in Lane |-> FALSE]
    /\ resetting' = TRUE
    /\ toDrain' = {l \in Lane : queue[l] # <<>>}
    /\ UNCHANGED <<queue, maxConcurrent, entryVars, waiterVars, stack>>

(* Second loop.  The code takes the lanes in the order they were created;  *)
(* any order is allowed here.                                              *)
ResetDrain(l) ==
    /\ resetting /\ stack = <<>>
    /\ l \in toDrain
    /\ toDrain' = toDrain \ {l}
    /\ drainLane(l)
    /\ UNCHANGED <<gatewayDraining, queue, activeTaskIds, maxConcurrent, generation,
                   entryVars, waiterVars, resetting>>

(* Mutant: waiters are not told that the reset emptied the active sets.    *)
ResetNotify_Silent ==
    /\ resetting /\ stack = <<>>
    /\ toDrain = {}
    /\ resetting' = FALSE
    /\ UNCHANGED <<gatewayDraining, laneVars, entryVars, waiterVars, stack, toDrain>>

(* The trailing notifyActiveTaskWaiters of resetAllLanes.                  *)
ResetNotify ==
    /\ resetting /\ stack = <<>>
    /\ toDrain = {}
    /\ resetting' = FALSE
    /\ notifyActiveTaskWaiters(waiterState, waiterTasks, activeTaskIds)
    /\ UNCHANGED <<gatewayDraining, laneVars, entryVars, waiterTasks, stack, toDrain>>

AllActive == UNION {activeTaskIds[l] : l \in Lane}

WaitNothingActive(w) ==
    /\ AllActive = {}
    /\ waiterState' = [waiterState EXCEPT ![w] = "drained"]
    /\ UNCHANGED waiterTasks

WaitNoTime(w) ==
    /\ AllActive # {}
    /\ waiterState' = [waiterState EXCEPT ![w] = "timedOut"]
    /\ UNCHANGED waiterTasks

WaitRegister(w) ==
    /\ AllActive # {}
    /\ waiterTasks' = [waiterTasks EXCEPT ![w] = AllActive]
    /\ notifyActiveTaskWaiters([waiterState EXCEPT ![w] = "waiting"],
                               waiterTasks', activeTaskIds)

(* hasTime is timeoutMs > 0.                                               *)
waitForActiveTasks(w, hasTime) ==
    /\ Idle
    /\ waiterState[w] = "idle"
    /\ \/ WaitNothingActive(w)
       \/ ~hasTime /\ WaitNoTime(w)
       \/ hasTime /\ WaitRegister(w)
    /\ UNCHANGED <<gatewayDraining, laneVars, entryVars, controlVars>>

WaiterTimeout(w) ==
    /\ Idle
    /\ waiterState[w] = "waiting"
    /\ waiterState' = [waiterState EXCEPT ![w] = "timedOut"]
    /\ UNCHANGED <<gatewayDraining, laneVars, entryVars, waiterTasks, controlVars>>

-----------------------------------------------------------------------------

(* Steps of a synchronous call in progress.                                *)
Synchronous ==
    \/ \E l \in Lane : PumpStart(l) \/ PumpEnd(l) \/ ResetDrain(l)
    \/ \E e \in Entry : TaskAwaits(e) \/ TaskThrows(e)
    \/ ResetNotify

(* Calls by the rest of the gateway.                                       *)
Calls ==
    \/ \E l \in Lane, e \in Entry : enqueueCommandInLane(l, e)
    \/ \E l \in Lane \ SerialLane, n \in Concurrency : setCommandLaneConcurrency(l, n)
    \/ \E l \in Lane : clearCommandLane(l)
    \/ markGatewayDraining
    \/ resetAllLanes
    \/ \E w \in Waiter, hasTime \in BOOLEAN : waitForActiveTasks(w, hasTime)

Settles(e) == \E outcome \in {"fulfilled", "rejected"} : TaskSettles(e, outcome)

Next ==
    \/ Synchronous
    \/ Calls
    \/ \E e \in Entry : Settles(e)
    \/ \E w \in Waiter : WaiterTimeout(w)

Spec == Init /\ [][Next]_vars

-----------------------------------------------------------------------------
(* Properties.                                                             *)

Running(l) == {e \in Entry : promise[e] = "running" /\ laneOf[e] = l}

(* activeTaskIds[l] is exactly the set of unfinished tasks of lane l that  *)
(* started in its current generation: no completion (late, failed or from  *)
(* before a reset) leaks a slot or frees someone else's.                   *)
ActiveMatchesRunning ==
    \A l \in Lane :
        activeTaskIds[l] = {e \in Running(l) : taskGeneration[e] = generation[l]}

(* Between event-loop turns no lane holds an entry it has room to run: a   *)
(* completion, a reset or a raised limit never leaves work stranded until  *)
(* somebody happens to enqueue again.                                      *)
WorkConserving == Idle => \A l \in Lane : ~Backlog(l)

(* Whenever the queue can be called, a lane whose draining flag is set has *)
(* an active task, so the "drainLane blocked" condition of drainLane is    *)
(* never met and the early return never strands an entry.                  *)
DrainNeverBlocked ==
    MayCall => \A l \in Lane : draining[l] => stack # <<>> /\ activeTaskIds[l] # {}

(* A lane left at its default limit never has two unfinished tasks of its  *)
(* current generation, whatever re-entrant calls, synchronous throws and   *)
(* resets happened.                                                        *)
SerialLanesRunOne ==
    \A l \in SerialLane : \A e, f \in Running(l) :
        (taskGeneration[e] = generation[l] /\ taskGeneration[f] = generation[l]) => e = f

(* waitForActiveTasks answers drained only when none of the tasks it       *)
(* snapshotted is active, and outside a reset it never keeps waiting once  *)
(* they are all gone.                                                      *)
WaitersExact ==
    \A w \in Waiter :
        /\ waiterState[w] = "drained" => ~hasPendingActiveTasks(waiterTasks[w], activeTaskIds)
        /\ (waiterState[w] = "waiting" /\ ~resetting)
              => hasPendingActiveTasks(waiterTasks[w], activeTaskIds)

(* A promise settles once: work that was cleared or refused never starts,  *)
(* and finished work is never started again.                               *)
SettledStaysSettled ==
    [][\A e \in Entry : promise[e] \in Settled => promise'[e] = promise[e]]_vars

=============================================================================

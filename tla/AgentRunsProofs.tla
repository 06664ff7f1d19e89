--------------------------- MODULE AgentRunsProofs --------------------------
(***************************************************************************)
(* Proofs about AgentRuns for every set of runs, sessions and lanes: the   *)
(* composition only takes steps the queue allows, so every theorem about   *)
(* the queue holds in it, and the session lane covers the whole run.       *)
(***************************************************************************)
EXTENDS AgentRuns, CommandQueueProofs

(* The entries of a run are entries of the queue, and are told apart.      *)
LEMMA EntryFacts ==
    /\ \A r \in Run : {cron(r), session(r), global(r)} \subseteq Entry
    /\ \A r, s \in Run : /\ session(r) # global(s)
                         /\ session(r) # cron(s)
                         /\ global(r) # cron(s)
                         /\ session(r) = session(s) => r = s
                         /\ global(r) = global(s) => r = s
BY EntryAssumption DEF cron, session, global

(* Runs enqueue into lanes that exist.                                     *)
LEMMA LaneFacts ==
    /\ CronLane \in Lane
    /\ \A r \in Run : SessionOf[r] \in Lane /\ globalLane(r) \in Lane
<1>1. {MainLane, CronLane, NestedLane} \subseteq Lane
  BY LanesAssumption, LaneAssumption
<1>2. ASSUME NEW r \in Run PROVE SessionOf[r] \in Lane /\ globalLane(r) \in Lane
  <2>1. SessionOf[r] \in Lane
    BY RunAssumption, LaneAssumption
  <2>2. \A l \in Lane \cup {NoLane} : resolveGlobalLane(l) \in Lane
    BY <1>1 DEF resolveGlobalLane
  <2>3. resolveNestedAgentLane(CronLane) \in Lane
    BY <1>1 DEF resolveNestedAgentLane
  <2> QED
    BY <2>1, <2>2, <2>3 DEF globalLane
<1> QED
  BY <1>1, <1>2

-----------------------------------------------------------------------------
(* The composition uses the queue by its own actions.                      *)

(* A step of the composition is a step of the queue, or leaves it alone.   *)
LEMMA RunsNextIsQueueStep == RunsNext => [Next]_vars
<1> SUFFICES ASSUME RunsNext PROVE [Next]_vars
  OBVIOUS
<1>1. ASSUME NEW r \in Run, RunStep(r) PROVE Next
  <2>1. CASE runEmbeddedPiAgent(r)
    BY <2>1, EntryFacts, LaneFacts DEF runEmbeddedPiAgent, Next, Calls
  <2>2. CASE enqueueRun(r)
    BY <2>2, EntryFacts, LaneFacts DEF enqueueRun, Next, Calls
  <2>3. CASE SessionTaskEnqueues(r)
    BY <2>3, EntryFacts, LaneFacts DEF SessionTaskEnqueues, Next, Calls
  <2>4. CASE SessionTaskAborted(r) \/ SessionTaskAwaits(r) \/ OtherTaskAwaits(r)
    BY <2>4, EntryFacts
       DEF SessionTaskAborted, SessionTaskAwaits, OtherTaskAwaits, Next, Synchronous
  <2>5. CASE SessionSettles(r)
    BY <2>5, EntryFacts DEF SessionSettles, Settles, Next
  <2>6. CASE GlobalSettles(r) \/ CronSettles(r) \/ CronTimesOut(r)
    BY <2>6, EntryFacts DEF GlobalSettles, CronSettles, CronTimesOut, Next
  <2> QED
    BY <1>1, <2>1, <2>2, <2>3, <2>4, <2>5, <2>6 DEF RunStep
<1>2. CASE QueueStep
  BY <1>2 DEF QueueStep, Next, Synchronous
<1>3. CASE OtherCalls
  BY <1>3, LaneFacts DEF OtherCalls, applyGatewayLaneConcurrency, clearSessionQueues, Next, Calls
<1>4. CASE RequestRestart
  BY <1>4 DEF RequestRestart, Next, Calls
<1>5. CASE StartDrain
  BY <1>5 DEF StartDrain, Next, Calls
<1>6. CASE CloseServer
  BY <1>6 DEF CloseServer
<1>7. CASE NextIteration
  BY <1>7 DEF NextIteration, Next, Calls
<1> QED
  BY <1>1, <1>2, <1>3, <1>4, <1>5, <1>6, <1>7 DEF RunsNext

(* So what is proved of the queue (slots, serial lanes, drain waiters)     *)
(* holds of the composition.                                               *)
LEMMA RunsImplementQueue == RunsSpec => Spec
<1>1. RunsInit => Init
  BY DEF RunsInit
<1>2. [RunsNext]_allVars => [Next]_vars
  BY RunsNextIsQueueStep DEF allVars
<1> QED
  BY <1>1, <1>2, PTL DEF RunsSpec, Spec

-----------------------------------------------------------------------------
(* The session lane covers the run.                                        *)

(* Settling or starting one entry keeps every run covered, if it is not a  *)
(* session task whose global entry is unfinished.                          *)
LEMMA OneEntryKeepsCover ==
    ASSUME TypeOK, SessionCoversRun, NEW d \in Entry, NEW v,
           promise' = [promise EXCEPT ![d] = v],
           \A r \in Run :
              /\ d = session(r) => v = "running" \/ promise[session(r)] # "running"
                                     \/ promise[global(r)] \notin {"queued", "running"}
              /\ d = global(r) => \/ v \notin {"queued", "running"}
                                  \/ promise[session(r)] = "running"
    PROVE  SessionCoversRun'
<1> SUFFICES ASSUME NEW r \in Run, promise'[global(r)] \in {"queued", "running"}
             PROVE  promise'[session(r)] = "running"
  BY DEF SessionCoversRun
<1>1. session(r) \in Entry /\ global(r) \in Entry /\ session(r) # global(r)
  BY EntryFacts
<1>2. promise \in [Entry -> PromiseState]
  BY DEF TypeOK
<1>3. promise[global(r)] \in {"queued", "running"} => promise[session(r)] = "running"
  BY DEF SessionCoversRun
<1> QED
  BY <1>1, <1>2, <1>3

(* Every step keeps every run covered.                                     *)
LEMMA RunsNextCovers == IInv /\ SessionCoversRun /\ [RunsNext]_allVars => SessionCoversRun'
<1> SUFFICES ASSUME IInv, SessionCoversRun, [RunsNext]_allVars PROVE SessionCoversRun'
  OBVIOUS
<1>0. TypeOK
  BY DEF IInv
<1>1. CASE UNCHANGED promise
  BY <1>1 DEF SessionCoversRun
<1>2. ASSUME NEW r \in Run, RunStep(r) PROVE SessionCoversRun'
  <2>0. {cron(r), session(r), global(r)} \subseteq Entry
    BY EntryFacts
  <2>a. ASSUME NEW v, promise' = [promise EXCEPT ![cron(r)] = v] PROVE SessionCoversRun'
    <3>1. \A s \in Run : cron(r) # session(s) /\ cron(r) # global(s)
      BY EntryFacts
    <3> QED
      BY <1>0, <2>0, <2>a, <3>1, OneEntryKeepsCover
  <2>b. ASSUME NEW v, promise' = [promise EXCEPT ![session(r)] = v],
               promise[global(r)] \notin {"queued", "running"}
        PROVE  SessionCoversRun'
    <3>1. \A s \in Run : session(r) # global(s) /\ (session(r) = session(s) => s = r)
      BY EntryFacts
    <3>2. \A s \in Run : session(r) = session(s) => promise[global(s)] \notin {"queued", "running"}
      BY <2>b, <3>1
    <3>3. session(r) \in Entry
      BY <2>0
    <3> QED
      BY <1>0, <2>b, <3>1, <3>2, <3>3, OneEntryKeepsCover
  <2>c. ASSUME NEW v, promise' = [promise EXCEPT ![global(r)] = v],
               v \notin {"queued", "running"} \/ promise[session(r)] = "running"
        PROVE  SessionCoversRun'
    <3>1. \A s \in Run : global(r) # session(s) /\ (global(r) = global(s) => s = r)
      BY EntryFacts
    <3>2. \A s \in Run : global(r) = global(s) =>
              v \notin {"queued", "running"} \/ promise[session(s)] = "running"
      BY <2>c, <3>1
    <3>3. global(r) \in Entry
      BY <2>0
    <3> QED
      BY <1>0, <2>c, <3>1, <3>2, <3>3, OneEntryKeepsCover
  <2>1. CASE runEmbeddedPiAgent(r)
    <3>1. PICK v : promise' = [promise EXCEPT ![session(r)] = v]
      BY <2>1 DEF runEmbeddedPiAgent, enqueueCommandInLane, EnqueueRefused, EnqueueAccepted
    <3>2. promise[session(r)] = "none"
      BY <2>1 DEF runEmbeddedPiAgent, enqueueCommandInLane
    <3>3. promise[global(r)] \notin {"queued", "running"}
      BY <3>2 DEF SessionCoversRun
    <3> QED
      BY <2>b, <3>1, <3>3
  <2>2. CASE enqueueRun(r)
    <3>1. PICK v : promise' = [promise EXCEPT ![cron(r)] = v]
      BY <2>2 DEF enqueueRun, enqueueCommandInLane, EnqueueRefused, EnqueueAccepted
    <3> QED
      BY <2>a, <3>1
  <2>3. CASE SessionTaskEnqueues(r)
    <3>1. PICK v : promise' = [promise EXCEPT ![global(r)] = v]
      BY <2>3 DEF SessionTaskEnqueues, enqueueCommandInLane, EnqueueRefused, EnqueueAccepted
    <3>2. Len(stack) \in 1..Len(stack) /\ stack[Len(stack)] = Task(session(r))
      BY <1>0, <2>3 DEF SessionTaskEnqueues, OnTop, TypeOK
    <3>3. promise[session(r)] = "running"
      BY <2>0, <3>2 DEF IInv, StackInv
    <3> QED
      BY <2>c, <3>1, <3>3
  <2>4. CASE SessionTaskAborted(r)
    <3>1. promise' = [promise EXCEPT ![session(r)] = "rejected"]
      BY <2>4 DEF SessionTaskAborted, TaskThrows, Complete
    <3>2. promise[global(r)] = "none"
      BY <2>4 DEF SessionTaskAborted
    <3> QED
      BY <2>b, <3>1, <3>2
  <2>5. CASE SessionTaskAwaits(r) \/ OtherTaskAwaits(r)
    BY <1>1, <2>5 DEF SessionTaskAwaits, OtherTaskAwaits, TaskAwaits, entryVars
  <2>6. CASE SessionSettles(r)
    <3>1. PICK v : promise' = [promise EXCEPT ![session(r)] = v]
      BY <2>6 DEF SessionSettles, TaskSettles, Complete
    <3>2. promise[global(r)] \notin {"queued", "running"}
      BY <2>6 DEF SessionSettles, Settled
    <3> QED
      BY <2>b, <3>1, <3>2
  <2>7. CASE GlobalSettles(r)
    <3>1. PICK v \in {"fulfilled", "rejected"} : promise' = [promise EXCEPT ![global(r)] = v]
      BY <2>7 DEF GlobalSettles, Settles, TaskSettles, Complete
    <3> QED
      BY <2>c, <3>1
  <2>8. CASE CronSettles(r) \/ CronTimesOut(r)
    <3>1. PICK v : promise' = [promise EXCEPT ![cron(r)] = v]
      BY <2>8 DEF CronSettles, CronTimesOut, Settles, TaskSettles, Complete
    <3> QED
      BY <2>a, <3>1
  <2> QED
    BY <1>2, <2>1, <2>2, <2>3, <2>4, <2>5, <2>6, <2>7, <2>8 DEF RunStep
<1>3. ASSUME NEW l \in Lane, PumpStart(l) PROVE SessionCoversRun'
  <2>1. queue[l] \in Seq(Entry) /\ queue[l] # <<>>
    BY <1>0, <1>3 DEF PumpStart, Backlog, TypeOK
  <2>2. Head(queue[l]) = queue[l][1] /\ Head(queue[l]) \in Entry /\ 1 \in 1..Len(queue[l])
    <3>1. \A n \in Nat \ {0} : 1 \in 1..n
      OBVIOUS
    <3> QED
      BY <2>1, <3>1, ShiftFacts, Zenon
  <2>3. promise[Head(queue[l])] = "queued"
    BY <2>2 DEF IInv, QueueInv
  <2>4. promise' = [promise EXCEPT ![Head(queue[l])] = "running"]
    BY <1>3 DEF PumpStart
  <2>5. \A r \in Run : promise[global(r)] = "queued" => promise[session(r)] = "running"
    BY DEF SessionCoversRun
  <2>6. PICK d \in Entry : promise[d] = "queued" /\ promise' = [promise EXCEPT ![d] = "running"]
    BY <2>2, <2>3, <2>4
  <2>7. \A r \in Run : /\ d = session(r) => promise[session(r)] # "running"
                       /\ d = global(r) => promise[session(r)] = "running"
    BY <2>5, <2>6
  <2> QED
    BY <1>0, <2>6, <2>7, OneEntryKeepsCover
<1>4. ASSUME NEW l \in Lane, PumpEnd(l) \/ ResetDrain(l) PROVE SessionCoversRun'
  BY <1>1, <1>4 DEF PumpEnd, ResetDrain, entryVars
<1>5. CASE QueueStep
  BY <1>1, <1>3, <1>4, <1>5 DEF QueueStep, ResetNotify, entryVars
<1>6. ASSUME NEW l \in Lane, clearCommandLane(l) PROVE SessionCoversRun'
  <2>1. \A e \in Entry : InQueue(l, e) => promise[e] = "queued"
    BY DEF InQueue, IInv, QueueInv
  <2>2. promise' = [e \in Entry |-> IF InQueue(l, e) THEN "cleared" ELSE promise[e]]
    BY <1>6 DEF clearCommandLane
  <2>3. ASSUME NEW r \in Run, promise'[global(r)] \in {"queued", "running"}
        PROVE  promise'[session(r)] = "running"
    <3>1. session(r) \in Entry /\ global(r) \in Entry
      BY EntryFacts
    <3>2. promise[global(r)] \in {"queued", "running"}
      BY <2>2, <2>3, <3>1
    <3>3. promise[session(r)] = "running"
      BY <3>2 DEF SessionCoversRun
    <3> QED
      BY <2>1, <2>2, <3>1, <3>3
  <2> QED
    BY <2>3 DEF SessionCoversRun
<1>7. CASE OtherCalls
  <2>1. ASSUME NEW l \in Lane \ SerialLane, NEW n \in Concurrency, setCommandLaneConcurrency(l, n)
        PROVE  SessionCoversRun'
    BY <1>1, <2>1 DEF setCommandLaneConcurrency, entryVars
  <2>2. ASSUME NEW w \in Waiter, WaiterTimeout(w) PROVE SessionCoversRun'
    BY <1>1, <2>2 DEF WaiterTimeout, entryVars
  <2> QED
    BY <1>6, <1>7, <2>1, <2>2, LaneFacts
       DEF OtherCalls, applyGatewayLaneConcurrency, clearSessionQueues
<1>8. CASE RequestRestart \/ StartDrain \/ CloseServer \/ NextIteration
  BY <1>1, <1>8 DEF RequestRestart, StartDrain, CloseServer, NextIteration, markGatewayDraining,
     waitForActiveTasks, resetAllLanes, entryVars, vars
<1>9. CASE UNCHANGED allVars
  BY <1>1, <1>9 DEF allVars, vars, entryVars
<1> QED
  BY <1>2, <1>5, <1>7, <1>8, <1>9 DEF RunsNext

(* A run works in its global lane only while its session task is           *)
(* unfinished.  It needs the queue's inductive invariant: that a task on   *)
(* the call stack has not settled and that what a lane holds is queued.    *)
THEOREM SessionCoversRunHolds == RunsSpec => []SessionCoversRun
<1>1. RunsInit => SessionCoversRun
  BY EntryFacts DEF RunsInit, Init, SessionCoversRun
<1>2. RunsSpec => []IInv
  BY RunsImplementQueue, Invariance, PTL
<1>3. IInv /\ SessionCoversRun /\ [RunsNext]_allVars => SessionCoversRun'
  BY RunsNextCovers
<1> QED
  BY <1>1, <1>2, <1>3, PTL DEF RunsSpec

(* One session task at a time, in the composition: two unfinished session  *)
(* tasks of the same session never belong to the same generation.          *)
THEOREM RunsSerialLanes == RunsSpec => []SerialLanesRunOne
BY RunsImplementQueue, SerialLanesRunOneHolds, PTL

-----------------------------------------------------------------------------
(* A restart that went ahead because everything drained cut no run.        *)

Unfinished(e) == promise[e] \in {"queued", "running"}

(* Steps of the queue that are no call of its own: nothing is accepted,    *)
(* opened or closed.                                                       *)
PlainStep ==
    \/ Synchronous
    \/ \E l \in Lane, n \in Concurrency : setCommandLaneConcurrency(l, n)
    \/ \E l \in Lane : clearCommandLane(l)
    \/ \E e \in Entry : Settles(e)
    \/ \E w \in Waiter : WaiterTimeout(w)

(* They finish work and start what is queued; a task that runs does not    *)
(* become active again, and a waiter keeps what it waits for.              *)
PlainFacts ==
    /\ gatewayDraining' = gatewayDraining /\ laneOf' = laneOf /\ waiterTasks' = waiterTasks
    /\ \A e \in Entry : Unfinished(e)' => Unfinished(e)
    /\ \A e \in Entry : promise[e] = "running" =>
          \A l \in Lane : e \in activeTaskIds'[l] => e \in activeTaskIds[l]
    /\ \A w \in Waiter : waiterState[w] = "timedOut" => waiterState'[w] = "timedOut"

LEMMA PlainStepFacts == ASSUME IInv, PlainStep PROVE PlainFacts
<1>0. TypeOK /\ QueueInv
  BY DEF IInv
<1>1. ASSUME NEW l \in Lane, PumpStart(l) PROVE PlainFacts
  <2> DEFINE e == Head(queue[l])
  <2>1. queue[l] \in Seq(Entry) /\ queue[l] # <<>>
    BY <1>0, <1>1 DEF PumpStart, Backlog, TypeOK
  <2>2. e = queue[l][1] /\ e \in Entry /\ 1 \in 1..Len(queue[l])
    BY <2>1, ShiftFacts
  <2>3. promise[e] = "queued"
    BY <1>0, <2>2 DEF QueueInv
  <2>4. /\ promise' = [promise EXCEPT ![e] = "running"]
        /\ activeTaskIds' = [activeTaskIds EXCEPT ![l] = @ \cup {e}]
        /\ gatewayDraining' = gatewayDraining /\ laneOf' = laneOf /\ waiterTasks' = waiterTasks
        /\ waiterState' = waiterState
    BY <1>1 DEF PumpStart, waiterVars
  <2> HIDE DEF e
  <2> QED
    BY <1>0, <2>2, <2>3, <2>4 DEF PlainFacts, Unfinished, TypeOK
<1>2. ASSUME NEW l \in Lane, PumpEnd(l) \/ ResetDrain(l) PROVE PlainFacts
  BY <1>2 DEF PumpEnd, ResetDrain, PlainFacts, Unfinished, entryVars, waiterVars
<1>3. ASSUME NEW e \in Entry, TaskAwaits(e) PROVE PlainFacts
  BY <1>3 DEF TaskAwaits, PlainFacts, Unfinished, entryVars, waiterVars, laneVars
<1>4. ASSUME NEW e \in Entry, NEW outcome \in {"fulfilled", "rejected"}, NEW rest,
             Complete(e, outcome, rest)
      PROVE  PlainFacts
  <2>1. /\ gatewayDraining' = gatewayDraining /\ laneOf' = laneOf /\ waiterTasks' = waiterTasks
        /\ promise' = [promise EXCEPT ![e] = outcome]
    BY <1>4 DEF Complete
  <2>2. \A f \in Entry : Unfinished(f)' => Unfinished(f)
    BY <1>0, <2>1 DEF Unfinished, TypeOK
  <2>3. \/ activeTaskIds' = activeTaskIds /\ waiterState' = waiterState
        \/ /\ activeTaskIds' = [activeTaskIds EXCEPT ![laneOf[e]] = @ \ {e}]
           /\ notifyActiveTaskWaiters(waiterState, waiterTasks, activeTaskIds')
    BY <1>4 DEF Complete
  <2>4. \A l \in Lane : activeTaskIds'[l] \subseteq activeTaskIds[l]
    <3>1. activeTaskIds \in [Lane -> SUBSET Entry]
      BY <1>0 DEF TypeOK
    <3>2. \A m : \A l \in Lane :
             [activeTaskIds EXCEPT ![m] = @ \ {e}][l] \subseteq activeTaskIds[l]
      BY <3>1
    <3> QED
      BY <2>3, <3>2
  <2>5. \A w \in Waiter : waiterState[w] = "timedOut" => waiterState'[w] = "timedOut"
    BY <2>3 DEF notifyActiveTaskWaiters
  <2> QED
    BY <2>1, <2>2, <2>4, <2>5 DEF PlainFacts
<1>5. CASE ResetNotify
  BY <1>5 DEF ResetNotify, notifyActiveTaskWaiters, PlainFacts, Unfinished, entryVars, laneVars
<1>6. ASSUME NEW l \in Lane, NEW n \in Concurrency, setCommandLaneConcurrency(l, n) PROVE PlainFacts
  BY <1>6 DEF setCommandLaneConcurrency, PlainFacts, Unfinished, entryVars, waiterVars
<1>7. ASSUME NEW l \in Lane, clearCommandLane(l) PROVE PlainFacts
  BY <1>7 DEF clearCommandLane, PlainFacts, Unfinished, waiterVars
<1>8. ASSUME NEW w \in Waiter, WaiterTimeout(w) PROVE PlainFacts
  BY <1>0, <1>8 DEF WaiterTimeout, PlainFacts, Unfinished, TypeOK, entryVars, laneVars
<1>9. ASSUME NEW e \in Entry, TaskThrows(e) \/ Settles(e) PROVE PlainFacts
  BY <1>4, <1>9 DEF TaskThrows, Settles, TaskSettles
<1> QED
  BY <1>1, <1>2, <1>3, <1>5, <1>6, <1>7, <1>8, <1>9 DEF PlainStep, Synchronous

(* An entry is queued in the lane it is given, and only if the queue is    *)
(* open.                                                                   *)
LEMMA EnqueueFacts ==
    ASSUME TypeOK, NEW l \in Lane, NEW e \in Entry, enqueueCommandInLane(l, e)
    PROVE  /\ gatewayDraining' = gatewayDraining
           /\ activeTaskIds' = activeTaskIds
           /\ waiterTasks' = waiterTasks /\ waiterState' = waiterState
           /\ \A f \in Entry : Unfinished(f)' => Unfinished(f) \/ (f = e /\ ~gatewayDraining)
           /\ \A f \in Entry : f # e => laneOf'[f] = laneOf[f]
           /\ Unfinished(e)' => laneOf'[e] = l
<1>1. promise \in [Entry -> PromiseState] /\ laneOf \in [Entry -> Lane \cup {NoLane}]
  BY DEF TypeOK
<1>2. CASE EnqueueRefused(e)
  BY <1>1, <1>2 DEF EnqueueRefused, Unfinished, laneVars, waiterVars
<1>3. CASE EnqueueAccepted(l, e)
  BY <1>1, <1>3 DEF EnqueueAccepted, Unfinished, waiterVars
<1> QED
  BY <1>2, <1>3 DEF enqueueCommandInLane

(* What the runs, and the rest of the gateway outside the loop, do.        *)
LEMMA StepKinds ==
    ASSUME QueueStep \/ OtherCalls \/ \E r \in Run : RunStep(r)
    PROVE  \/ PlainStep
           \/ \E r \in Run : \/ enqueueCommandInLane(SessionOf[r], session(r))
                             \/ enqueueCommandInLane(CronLane, cron(r))
                             \/ enqueueCommandInLane(globalLane(r), global(r))
<1>1. CASE QueueStep
  BY <1>1 DEF QueueStep, PlainStep, Synchronous
<1>2. CASE OtherCalls
  BY <1>2, LaneFacts DEF OtherCalls, applyGatewayLaneConcurrency, clearSessionQueues, PlainStep
<1>3. ASSUME NEW r \in Run, RunStep(r)
      PROVE  \/ PlainStep
             \/ enqueueCommandInLane(SessionOf[r], session(r))
             \/ enqueueCommandInLane(CronLane, cron(r))
             \/ enqueueCommandInLane(globalLane(r), global(r))
  <2>1. CASE runEmbeddedPiAgent(r) \/ enqueueRun(r) \/ SessionTaskEnqueues(r)
    BY <2>1 DEF runEmbeddedPiAgent, enqueueRun, SessionTaskEnqueues
  <2>2. CASE SessionTaskAborted(r) \/ SessionTaskAwaits(r) \/ OtherTaskAwaits(r)
    BY <2>2, EntryFacts
       DEF SessionTaskAborted, SessionTaskAwaits, OtherTaskAwaits, PlainStep, Synchronous
  <2>3. CASE SessionSettles(r)
    BY <2>3, EntryFacts DEF SessionSettles, Settles, PlainStep
  <2>4. CASE GlobalSettles(r) \/ CronSettles(r) \/ CronTimesOut(r)
    BY <2>4, EntryFacts DEF GlobalSettles, CronSettles, CronTimesOut, PlainStep
  <2> QED
    BY <1>3, <2>1, <2>2, <2>3, <2>4 DEF RunStep
<1> QED
  BY <1>1, <1>2, <1>3

(* From the request of a restart on the queue refuses work, so a run that  *)
(* is unfinished while the loop drains was so when the drain started, and  *)
(* the loop waits for its session task unless it ran out of time.          *)
LoopInv ==
    /\ LoopTypeOK
    /\ phase # "up" => gatewayDraining
    /\ \A r \in Run : Unfinished(session(r)) => laneOf[session(r)] = SessionOf[r]
    /\ phase \in {"draining", "closing"} => \A r \in Run :
          Unfinished(global(r)) /\ session(r) \in activeTaskIds[SessionOf[r]] =>
              waiterState[drainWaiter] = "timedOut" \/ session(r) \in waiterTasks[drainWaiter]

LEMMA LoopInvStep ==
    IInv /\ SessionCoversRun /\ LoopInv /\ [RunsNext]_allVars => LoopInv'
<1> SUFFICES ASSUME IInv, SessionCoversRun, LoopInv, [RunsNext]_allVars PROVE LoopInv'
  OBVIOUS
<1>0. TypeOK /\ LoopTypeOK
  BY DEF IInv, LoopInv
<1>1. CASE PlainStep /\ UNCHANGED loopVars
  <2>1. PlainFacts /\ phase' = phase /\ drainWaiter' = drainWaiter
    BY <1>1, PlainStepFacts DEF loopVars
  <2>2. \A r \in Run : Unfinished(session(r))' => laneOf'[session(r)] = SessionOf[r]
    BY <2>1, EntryFacts DEF LoopInv, PlainFacts
  <2>3. ASSUME phase' \in {"draining", "closing"}, NEW r \in Run,
               Unfinished(global(r))', session(r) \in activeTaskIds'[SessionOf[r]]
        PROVE  waiterState'[drainWaiter'] = "timedOut" \/ session(r) \in waiterTasks'[drainWaiter']
    <3>1. Unfinished(global(r))
      BY <2>1, <2>3, EntryFacts DEF PlainFacts
    <3>2. promise[session(r)] = "running"
      BY <3>1 DEF SessionCoversRun, Unfinished
    <3>3. session(r) \in activeTaskIds[SessionOf[r]]
      BY <2>1, <2>3, <3>2, EntryFacts, LaneFacts DEF PlainFacts
    <3>4. drainWaiter \in Waiter
      BY <1>0, <2>1, <2>3 DEF LoopTypeOK
    <3> QED
      BY <2>1, <2>3, <3>1, <3>3, <3>4 DEF LoopInv, PlainFacts
  <2>4. LoopTypeOK' /\ (phase' # "up" => gatewayDraining')
    BY <1>0, <2>1 DEF LoopInv, LoopTypeOK, PlainFacts
  <2> QED
    BY <2>2, <2>3, <2>4 DEF LoopInv
<1>2. ASSUME NEW l \in Lane, NEW e \in Entry, enqueueCommandInLane(l, e), UNCHANGED loopVars,
             \A r \in Run : e = session(r) => l = SessionOf[r]
      PROVE  LoopInv'
  <2>1. /\ gatewayDraining' = gatewayDraining
        /\ activeTaskIds' = activeTaskIds
        /\ waiterTasks' = waiterTasks /\ waiterState' = waiterState
        /\ \A f \in Entry : Unfinished(f)' => Unfinished(f) \/ (f = e /\ ~gatewayDraining)
        /\ \A f \in Entry : f # e => laneOf'[f] = laneOf[f]
        /\ Unfinished(e)' => laneOf'[e] = l
    BY <1>0, <1>2, EnqueueFacts
  <2>2. phase' = phase /\ drainWaiter' = drainWaiter
    BY <1>2 DEF loopVars
  <2>3. \A r \in Run : Unfinished(session(r))' => laneOf'[session(r)] = SessionOf[r]
    BY <1>2, <2>1, EntryFacts DEF LoopInv
  <2>4. phase' \in {"draining", "closing"} => \A r \in Run : Unfinished(global(r))' => Unfinished(global(r))
    BY <2>1, <2>2, EntryFacts DEF LoopInv
  <2>5. LoopTypeOK' /\ (phase' # "up" => gatewayDraining')
    BY <1>0, <2>1, <2>2 DEF LoopInv, LoopTypeOK
  <2> QED
    BY <2>1, <2>2, <2>3, <2>4, <2>5 DEF LoopInv
<1>3. CASE (QueueStep \/ OtherCalls \/ \E r \in Run : RunStep(r)) /\ UNCHANGED loopVars
  <2>1. ASSUME NEW r \in Run, enqueueCommandInLane(SessionOf[r], session(r)) PROVE LoopInv'
    <3>1. \A s \in Run : session(r) = session(s) => SessionOf[r] = SessionOf[s]
      BY EntryFacts
    <3> QED
      BY <1>2, <1>3, <2>1, <3>1, EntryFacts, LaneFacts
  <2>2. ASSUME NEW r \in Run, enqueueCommandInLane(CronLane, cron(r)) PROVE LoopInv'
    <3>1. \A s \in Run : cron(r) # session(s)
      BY EntryFacts
    <3> QED
      BY <1>2, <1>3, <2>2, <3>1, EntryFacts, LaneFacts
  <2>3. ASSUME NEW r \in Run, enqueueCommandInLane(globalLane(r), global(r)) PROVE LoopInv'
    <3>1. \A s \in Run : global(r) # session(s)
      BY EntryFacts
    <3> QED
      BY <1>2, <1>3, <2>3, <3>1, EntryFacts, LaneFacts
  <2> QED
    BY <1>1, <1>3, <2>1, <2>2, <2>3, StepKinds
<1>4. CASE RequestRestart
  <2>1. /\ phase' = "requested" /\ drainWaiter' = drainWaiter /\ gatewayDraining' = TRUE
        /\ promise' = promise /\ laneOf' = laneOf
    BY <1>4 DEF RequestRestart, markGatewayDraining, entryVars
  <2> QED
    BY <1>0, <2>1 DEF LoopInv, LoopTypeOK, Unfinished
<1>5. CASE StartDrain
  <2>1. PICK w \in Waiter, hasTime \in BOOLEAN : waitForActiveTasks(w, hasTime) /\ drainWaiter' = w
    BY <1>5 DEF StartDrain
  <2>2. /\ phase = "requested" /\ phase' = "draining" /\ gatewayDraining' = gatewayDraining
        /\ promise' = promise /\ laneOf' = laneOf /\ activeTaskIds' = activeTaskIds
    BY <1>5, <2>1 DEF StartDrain, waitForActiveTasks, laneVars, entryVars
  <2>3. ASSUME NEW r \in Run, session(r) \in activeTaskIds[SessionOf[r]]
        PROVE  waiterState'[w] = "timedOut" \/ session(r) \in waiterTasks'[w]
    <3>1. session(r) \in AllActive
      BY <2>3, LaneFacts DEF AllActive
    <3>2. WaitNoTime(w) \/ WaitRegister(w)
      BY <2>1, <3>1 DEF waitForActiveTasks, WaitNothingActive
    <3>3. waiterState \in [Waiter -> {"idle", "waiting", "drained", "timedOut"}]
          /\ waiterTasks \in [Waiter -> SUBSET Entry]
      BY <1>0 DEF TypeOK
    <3> QED
      BY <3>1, <3>2, <3>3 DEF WaitNoTime, WaitRegister
  <2> QED
    BY <1>0, <2>1, <2>2, <2>3 DEF LoopInv, LoopTypeOK, Unfinished
<1>6. CASE CloseServer
  BY <1>0, <1>6 DEF CloseServer, LoopInv, LoopTypeOK, Unfinished, vars, laneVars, entryVars, waiterVars
<1>7. CASE NextIteration
  <2>1. /\ phase' = "up" /\ drainWaiter' = NoWaiter /\ promise' = promise /\ laneOf' = laneOf
    BY <1>7 DEF NextIteration, resetAllLanes, entryVars
  <2> QED
    BY <2>1 DEF LoopInv, LoopTypeOK, Unfinished
<1>8. CASE UNCHANGED allVars
  BY <1>8 DEF allVars, loopVars, vars, laneVars, entryVars, waiterVars, LoopInv, LoopTypeOK, Unfinished
<1> QED
  BY <1>3, <1>4, <1>5, <1>6, <1>7, <1>8 DEF RunsNext

LEMMA LoopInvariance == RunsSpec => [](IInv /\ SessionCoversRun /\ LoopInv)
<1>1. RunsInit => LoopInv
  BY EntryFacts DEF RunsInit, Init, LoopInv, LoopTypeOK, Unfinished
<1>2. RunsSpec => []IInv
  BY RunsImplementQueue, Invariance, PTL
<1> QED
  BY <1>1, <1>2, LoopInvStep, SessionCoversRunHolds, PTL DEF RunsSpec

(* When the loop closes the server because waitForActiveTasks answered     *)
(* drained, no run of this lifecycle is queued or running in a global      *)
(* lane: a run the wait did not see was refused its global entry.          *)
THEOREM DrainedRestartCutsNoRunHolds == RunsSpec => []DrainedRestartCutsNoRun
<1>1. ASSUME IInv, SessionCoversRun, LoopInv PROVE DrainedRestartCutsNoRun
  <2> SUFFICES ASSUME phase = "closing", waiterState[drainWaiter] = "drained",
                      NEW r \in Run, Unfinished(global(r))
               PROVE  taskGeneration[session(r)] < generation[SessionOf[r]]
    BY DEF DrainedRestartCutsNoRun, Unfinished
  <2>1. promise[session(r)] = "running" /\ session(r) \in Entry
    BY <1>1, EntryFacts DEF SessionCoversRun, Unfinished
  <2>2. laneOf[session(r)] = SessionOf[r]
    BY <1>1, <2>1 DEF LoopInv, Unfinished
  <2>3. taskGeneration[session(r)] <= generation[SessionOf[r]]
    BY <1>1, <2>1, <2>2 DEF IInv, RunningInv
  <2>4. taskGeneration[session(r)] # generation[SessionOf[r]]
    <3> SUFFICES ASSUME taskGeneration[session(r)] = generation[SessionOf[r]] PROVE FALSE
      OBVIOUS
    <3>1. session(r) \in activeTaskIds[SessionOf[r]]
      BY <1>1, <2>1, <2>2, LaneFacts DEF IInv, ActiveMatchesRunning, Running
    <3>2. session(r) \in waiterTasks[drainWaiter] /\ drainWaiter \in Waiter
      BY <1>1, <3>1 DEF LoopInv, LoopTypeOK
    <3>3. hasPendingActiveTasks(waiterTasks[drainWaiter], activeTaskIds)
      BY <3>1, <3>2, LaneFacts DEF hasPendingActiveTasks
    <3> QED
      BY <1>1, <3>2, <3>3 DEF IInv, WaitersExact
  <2>5. taskGeneration[session(r)] \in Nat /\ generation[SessionOf[r]] \in Nat
    BY <1>1, <2>1, LaneFacts, GenerationAssumption DEF IInv, TypeOK
  <2> QED
    BY <2>3, <2>4, <2>5
<1> QED
  BY <1>1, LoopInvariance, PTL

=============================================================================

------------------------- MODULE CommandQueueProofs -------------------------
(***************************************************************************)
(* Proofs about CommandQueue for every set of lanes, entries and waiters   *)
(* and every number of resets.                                             *)
(***************************************************************************)
EXTENDS CommandQueue, SequenceTheorems, FiniteSetTheorems, TLAPS

(* What a queue holds: distinct entries, each waiting in that lane.        *)
QueueInv ==
    \A l \in Lane :
        /\ \A i \in 1..Len(queue[l]) :
               promise[queue[l][i]] = "queued" /\ laneOf[queue[l][i]] = l
        /\ \A i, j \in 1..Len(queue[l]) : queue[l][i] = queue[l][j] => i = j

(* A running task belongs to a lane and started no later than its current  *)
(* generation.                                                             *)
RunningInv ==
    \A e \in Entry : promise[e] = "running" =>
        laneOf[e] \in Lane /\ taskGeneration[e] =< generation[laneOf[e]]

(* A task frame sits on the pump of its lane, is on the stack once, and    *)
(* its task has not settled.                                               *)
StackInv ==
    /\ \A i \in 1..Len(stack) : \A e \in Entry :
           stack[i] = Task(e) =>
               promise[e] = "running" /\ i > 1 /\ stack[i - 1] = Pump(laneOf[e])
    /\ \A i, j \in 1..Len(stack) : \A e \in Entry :
           stack[i] = Task(e) /\ stack[j] = Task(e) => i = j

(* Work that a lane has room for is about to be pumped.                    *)
BacklogInv ==
    /\ \A l \in Lane : Backlog(l) => PumpOnStack(l) \/ l \in toDrain
    /\ toDrain # {} => resetting

(* A frame of the stack pumps l and is either running or suspended in an   *)
(* active task of l.                                                       *)
LivePump(l) ==
    \E i \in 1..Len(stack) :
        /\ stack[i] = Pump(l)
        /\ i = Len(stack) \/ \E e \in activeTaskIds[l] : stack[i + 1] = Task(e)

DrainingInv == \A l \in Lane : draining[l] => LivePump(l)

SerialInv ==
    \A l \in SerialLane :
        maxConcurrent[l] = 1 /\ \A e, f \in activeTaskIds[l] : e = f

(* Waiters wait for tasks that have started, so a task that starts later   *)
(* never becomes one of theirs.                                            *)
WaiterTasksInv ==
    \A w \in Waiter : \A e \in waiterTasks[w] :
        promise[e] \in {"running", "fulfilled", "rejected"}

(* The inductive invariant.                                                *)
IInv ==
    /\ TypeOK
    /\ QueueInv
    /\ RunningInv
    /\ ActiveMatchesRunning
    /\ StackInv
    /\ BacklogInv
    /\ DrainingInv
    /\ SerialInv
    /\ WaiterTasksInv
    /\ WaitersExact

-----------------------------------------------------------------------------
(* Facts about sequences and frames.                                       *)

(* What pushing a frame, or appending an entry, does.                      *)
LEMMA PushFacts ==
    ASSUME NEW S, NEW s \in Seq(S), NEW x \in S
    PROVE  /\ Append(s, x) \in Seq(S)
           /\ Len(Append(s, x)) = Len(s) + 1
           /\ \A i \in 1..Len(s) : Append(s, x)[i] = s[i]
           /\ Append(s, x)[Len(s) + 1] = x
           /\ Len(s) \in Nat
BY SMT

(* What popping the top frame does.                                        *)
LEMMA PopFacts ==
    ASSUME NEW S, NEW s \in Seq(S), s # <<>>
    PROVE  /\ SubSeq(s, 1, Len(s) - 1) \in Seq(S)
           /\ Len(SubSeq(s, 1, Len(s) - 1)) = Len(s) - 1
           /\ \A i \in 1..Len(s) - 1 : SubSeq(s, 1, Len(s) - 1)[i] = s[i]
           /\ Len(s) \in Nat \ {0}
           /\ s[Len(s)] \in S
<1>1. Len(s) \in Nat \ {0} /\ \A i \in 1..Len(s) : s[i] \in S
  OBVIOUS
<1>2. \A i \in 1..Len(s) - 1 : s[i] \in S
  BY <1>1
<1>3. 1 \in Int /\ Len(s) - 1 \in Int
  BY <1>1
<1>4. /\ SubSeq(s, 1, Len(s) - 1) \in Seq(S)
      /\ Len(SubSeq(s, 1, Len(s) - 1)) = IF 1 <= Len(s) - 1 THEN Len(s) - 1 - 1 + 1 ELSE 0
      /\ \A i \in 1..Len(s) - 1 - 1 + 1 : SubSeq(s, 1, Len(s) - 1)[i] = s[1 + i - 1]
  <2> HIDE <1>1
  <2> QED BY <1>2, <1>3, SubSeqProperties
<1>5. \A i \in 1..Len(s) - 1 : i \in 1..Len(s) - 1 - 1 + 1 /\ 1 + i - 1 = i
  BY <1>1
<1>6. Len(SubSeq(s, 1, Len(s) - 1)) = Len(s) - 1
  <2>1. \A n \in Nat \ {0} : (IF 1 <= n - 1 THEN n - 1 - 1 + 1 ELSE 0) = n - 1
    OBVIOUS
  <2> QED BY <1>1, <1>4, <2>1, Zenon
<1>7. \A i \in 1..Len(s) - 1 : SubSeq(s, 1, Len(s) - 1)[i] = s[i]
  BY <1>4, <1>5
<1> QED
  BY <1>1, <1>4, <1>6, <1>7

(* What shifting the oldest entry does.                                    *)
LEMMA ShiftFacts ==
    ASSUME NEW S, NEW q \in Seq(S), q # <<>>
    PROVE  /\ Tail(q) \in Seq(S)
           /\ Len(Tail(q)) = Len(q) - 1
           /\ \A i \in 1..Len(Tail(q)) : Tail(q)[i] = q[i + 1]
           /\ Head(q) = q[1]
           /\ Head(q) \in S
           /\ Len(q) \in Nat \ {0}
BY SMT

(* Pump frames and task frames are told apart by their tag.                *)
LEMMA FrameFacts ==
    /\ \A l \in Lane : Pump(l) \in Frame
    /\ \A e \in Entry : Task(e) \in Frame
    /\ \A l \in Lane, e \in Entry : Pump(l) # Task(e)
    /\ \A l, m \in Lane : Pump(l) = Pump(m) => l = m
    /\ \A e, f \in Entry : Task(e) = Task(f) => e = f
BY DEF Frame, Pump, Task

(* A queue may be called when no pump is on top: from a new turn, from a   *)
(* task or from resetAllLanes.                                             *)
Callable == stack = <<>> \/ InTask

(* drainLane(l) leaves a pump of l on the stack and keeps every pump that  *)
(* was there.                                                              *)
LEMMA DrainLaneFacts ==
    ASSUME NEW l \in Lane, TypeOK, StackInv, DrainingInv, Callable,
           drainLane(l), UNCHANGED activeTaskIds
    PROVE  /\ stack' \in Seq(Frame)
           /\ draining' \in [Lane -> BOOLEAN]
           /\ PumpOnStack(l)'
           /\ \A m \in Lane : PumpOnStack(m) => PumpOnStack(m)'
           /\ \A e \in Entry : \A i \in 1..Len(stack') :
                  stack'[i] = Task(e) => i \in 1..Len(stack)
           /\ \A i \in 1..Len(stack) : stack'[i] = stack[i]
           /\ Len(stack) \in Nat
           /\ DrainingInv'
<1> Len(stack) \in Nat
  BY DEF TypeOK
<1>1. CASE draining[l]
  <2>1. UNCHANGED <<draining, stack>>
    BY <1>1 DEF drainLane
  <2>2. PumpOnStack(l)'
    BY <1>1, <2>1 DEF DrainingInv, LivePump, PumpOnStack
  <2>3. DrainingInv'
    BY <2>1 DEF DrainingInv, LivePump
  <2> QED
    BY <2>1, <2>2, <2>3 DEF TypeOK, PumpOnStack
<1>2. CASE ~draining[l]
  <2>1. /\ draining' = [draining EXCEPT ![l] = TRUE]
        /\ stack' = Append(stack, Pump(l))
    BY <1>2 DEF drainLane
  <2>2. stack \in Seq(Frame) /\ Pump(l) \in Frame
    BY FrameFacts DEF TypeOK
  <2>3. /\ stack' \in Seq(Frame)
        /\ Len(stack') = Len(stack) + 1
        /\ \A i \in 1..Len(stack) : stack'[i] = stack[i]
        /\ stack'[Len(stack) + 1] = Pump(l)
        /\ Len(stack) \in Nat
    BY <2>1, <2>2, PushFacts
  <2>4. draining' \in [Lane -> BOOLEAN]
    BY <2>1 DEF TypeOK
  <2>5. PumpOnStack(l)' /\ \A m \in Lane : PumpOnStack(m) => PumpOnStack(m)'
    BY <2>3 DEF PumpOnStack
  <2>6. \A e \in Entry : \A i \in 1..Len(stack') :
            stack'[i] = Task(e) => i \in 1..Len(stack)
    BY <2>3, FrameFacts
  <2>7. DrainingInv'
    <3> SUFFICES ASSUME NEW m \in Lane, draining'[m] PROVE LivePump(m)'
      BY DEF DrainingInv
    <3>1. CASE m = l
      BY <3>1, <2>3 DEF LivePump
    <3>2. CASE m # l
      <4>1. draining[m]
        BY <3>2, <2>1 DEF TypeOK
      <4>2. PICK i \in 1..Len(stack) :
                /\ stack[i] = Pump(m)
                /\ i = Len(stack) \/ \E e \in activeTaskIds[m] : stack[i + 1] = Task(e)
        BY <4>1 DEF DrainingInv, LivePump
      <4>3. i # Len(stack)
        BY <4>2, FrameFacts, <2>3 DEF Callable, InTask, OnTop
      <4>4. i + 1 \in 1..Len(stack)
        BY <4>3, <2>3
      <4>5. PICK e \in activeTaskIds'[m] : stack[i + 1] = Task(e)
        BY <4>2, <4>3
      <4>6. i \in 1..Len(stack') /\ stack'[i] = Pump(m) /\ stack'[i + 1] = Task(e)
        BY <4>2, <4>4, <4>5, <2>3
      <4> QED
        BY <4>5, <4>6 DEF LivePump
    <3> QED BY <3>1, <3>2
  <2> QED
    BY <2>3, <2>4, <2>5, <2>6, <2>7
<1> QED BY <1>1, <1>2

(* A step that pushes no task and settles none that is on the stack keeps  *)
(* the shape of the stack.                                                 *)
LEMMA StackInvKept ==
    ASSUME StackInv, Len(stack) \in Nat,
           \A e \in Entry : \A i \in 1..Len(stack') :
               stack'[i] = Task(e) => i \in 1..Len(stack),
           \A i \in 1..Len(stack) : i \in 1..Len(stack') => stack'[i] = stack[i],
           \A e \in Entry : \A i \in 1..Len(stack') :
               stack'[i] = Task(e) =>
                   (promise[e] = "running" =>
                       promise'[e] = "running" /\ laneOf'[e] = laneOf[e])
    PROVE  StackInv'
<1>1. ASSUME NEW e \in Entry, NEW i \in 1..Len(stack'), stack'[i] = Task(e)
      PROVE  promise'[e] = "running" /\ i > 1 /\ stack'[i - 1] = Pump(laneOf'[e])
  <2>1. i \in 1..Len(stack) /\ stack[i] = Task(e)
    BY <1>1
  <2>2. promise[e] = "running" /\ i > 1 /\ stack[i - 1] = Pump(laneOf[e])
    BY <2>1 DEF StackInv
  <2>3. i - 1 \in 1..Len(stack) /\ i - 1 \in 1..Len(stack')
    BY <2>1, <2>2
  <2> QED
    BY <1>1, <2>1, <2>2, <2>3
<1>2. ASSUME NEW e \in Entry, NEW i \in 1..Len(stack'), NEW j \in 1..Len(stack'),
             stack'[i] = Task(e), stack'[j] = Task(e)
      PROVE  i = j
  BY <1>2 DEF StackInv
<1> QED
  BY <1>1, <1>2 DEF StackInv

-----------------------------------------------------------------------------
(* Initial states.                                                         *)

(* The initial state satisfies the inductive invariant.                    *)
LEMMA InitInv == Init => IInv
<1> SUFFICES ASSUME Init PROVE IInv
  OBVIOUS
<1> USE DEF Init
<1>1. TypeOK
  <2>1. gatewayDraining \in BOOLEAN /\ resetting \in BOOLEAN /\ toDrain \in SUBSET Lane
    OBVIOUS
  <2>2. queue \in [Lane -> Seq(Entry)] /\ stack \in Seq(Frame)
    OBVIOUS
  <2>3. activeTaskIds \in [Lane -> SUBSET Entry] /\ waiterTasks \in [Waiter -> SUBSET Entry]
    OBVIOUS
  <2>4. draining \in [Lane -> BOOLEAN]
    OBVIOUS
  <2>5. /\ maxConcurrent \in [Lane -> Nat \ {0}]
        /\ generation \in [Lane -> 0..MaxGeneration]
        /\ taskGeneration \in [Entry -> 0..MaxGeneration]
    BY GenerationAssumption
  <2>6. /\ promise \in [Entry -> PromiseState]
        /\ laneOf \in [Entry -> Lane \cup {NoLane}]
        /\ waiterState \in [Waiter -> {"idle", "waiting", "drained", "timedOut"}]
    BY DEF PromiseState
  <2> QED
    BY <2>1, <2>2, <2>3, <2>4, <2>5, <2>6 DEF TypeOK
<1>2. QueueInv /\ RunningInv /\ StackInv
  BY DEF QueueInv, RunningInv, StackInv
<1>3. ActiveMatchesRunning
  BY DEF ActiveMatchesRunning, Running
<1>4. BacklogInv /\ DrainingInv
  BY DEF BacklogInv, Backlog, DrainingInv
<1>5. SerialInv
  BY LaneAssumption DEF SerialInv
<1>6. WaiterTasksInv /\ WaitersExact
  BY DEF WaiterTasksInv, WaitersExact
<1> QED
  BY <1>1, <1>2, <1>3, <1>4, <1>5, <1>6 DEF IInv

-----------------------------------------------------------------------------
(* One lemma per operation: it preserves the inductive invariant.          *)

(* A refused enqueue only marks the caller's promise.                      *)
LEMMA EnqueueRefusedInv ==
    ASSUME IInv, NEW e \in Entry, promise[e] = "none", EnqueueRefused(e)
    PROVE  IInv'
<1> USE DEF IInv, EnqueueRefused, laneVars, entryVars, waiterVars, controlVars
<1>1. TypeOK'
  BY DEF TypeOK, PromiseState, Settled
<1>2. QueueInv'
  BY DEF QueueInv, TypeOK
<1>3. RunningInv'
  BY DEF RunningInv, TypeOK
<1>4. StackInv'
  BY DEF StackInv, TypeOK
<1>5. WaiterTasksInv'
  BY DEF WaiterTasksInv, TypeOK
<1>6. ActiveMatchesRunning'
  BY DEF ActiveMatchesRunning, Running, TypeOK
<1>7. BacklogInv'
  BY DEF BacklogInv, Backlog, PumpOnStack
<1>8. DrainingInv'
  BY DEF DrainingInv, LivePump
<1>9. SerialInv' /\ WaitersExact'
  BY DEF SerialInv, WaitersExact, hasPendingActiveTasks
<1> QED
  BY <1>1, <1>2, <1>3, <1>4, <1>5, <1>6, <1>7, <1>8, <1>9

(* An accepted enqueue appends to the lane and drains it.                  *)
LEMMA EnqueueAcceptedInv ==
    ASSUME IInv, MayCall, NEW l \in Lane, NEW e \in Entry, promise[e] = "none",
           EnqueueAccepted(l, e)
    PROVE  IInv'
<1> USE DEF IInv
<1>1. /\ queue' = [queue EXCEPT ![l] = Append(@, e)]
      /\ promise' = [promise EXCEPT ![e] = "queued"]
      /\ laneOf' = [laneOf EXCEPT ![e] = l]
      /\ drainLane(l)
      /\ UNCHANGED <<gatewayDraining, activeTaskIds, maxConcurrent, generation,
                     taskGeneration, waiterState, waiterTasks, resetting, toDrain>>
  BY DEF EnqueueAccepted, waiterVars
<1>2. Callable
  BY DEF MayCall, Idle, Callable
<1>3. /\ stack' \in Seq(Frame)
      /\ draining' \in [Lane -> BOOLEAN]
      /\ PumpOnStack(l)'
      /\ \A m \in Lane : PumpOnStack(m) => PumpOnStack(m)'
      /\ \A f \in Entry : \A i \in 1..Len(stack') :
             stack'[i] = Task(f) => i \in 1..Len(stack)
      /\ \A i \in 1..Len(stack) : stack'[i] = stack[i]
      /\ Len(stack) \in Nat
      /\ DrainingInv'
  BY <1>1, <1>2, DrainLaneFacts
<1>4. \A m \in Lane : queue'[m] = IF m = l THEN Append(queue[l], e) ELSE queue[m]
  BY <1>1 DEF TypeOK
<1>5. /\ queue'[l] \in Seq(Entry)
      /\ Len(queue'[l]) = Len(queue[l]) + 1
      /\ \A i \in 1..Len(queue[l]) : queue'[l][i] = queue[l][i]
      /\ queue'[l][Len(queue[l]) + 1] = e
      /\ Len(queue[l]) \in Nat
  <2>1. queue[l] \in Seq(Entry) /\ queue'[l] = Append(queue[l], e)
    BY <1>4 DEF TypeOK
  <2> QED
    BY <2>1, PushFacts
<1>6. TypeOK'
  BY <1>1, <1>3, <1>5 DEF TypeOK, PromiseState, Settled
<1>7. QueueInv'
  <2> SUFFICES ASSUME NEW m \in Lane
               PROVE  /\ \A i \in 1..Len(queue'[m]) :
                             promise'[queue'[m][i]] = "queued" /\ laneOf'[queue'[m][i]] = m
                      /\ \A i, j \in 1..Len(queue'[m]) : queue'[m][i] = queue'[m][j] => i = j
    BY DEF QueueInv
  <2>1. \A i \in 1..Len(queue[m]) : queue[m][i] \in Entry /\ queue[m][i] # e
    BY DEF QueueInv, TypeOK
  <2>2. \A i \in 1..Len(queue[m]) :
           promise'[queue[m][i]] = "queued" /\ laneOf'[queue[m][i]] = m
    BY <2>1, <1>1 DEF QueueInv, TypeOK
  <2>3. promise'[e] = "queued" /\ laneOf'[e] = l
    BY <1>1 DEF TypeOK
  <2>4. CASE m # l
    BY <2>4, <2>2, <1>4 DEF QueueInv
  <2>5. CASE m = l
    <3>1. \A i \in 1..Len(queue'[l]) :
             \/ i \in 1..Len(queue[l]) /\ queue'[l][i] = queue[l][i]
             \/ i = Len(queue[l]) + 1 /\ queue'[l][i] = e
      BY <1>5
    <3>2. \A i \in 1..Len(queue'[l]) :
             promise'[queue'[l][i]] = "queued" /\ laneOf'[queue'[l][i]] = l
      BY <2>5, <2>2, <2>3, <3>1
    <3>3. \A i, j \in 1..Len(queue'[l]) : queue'[l][i] = queue'[l][j] => i = j
      <4>1. \A i, j \in 1..Len(queue[l]) : queue[l][i] = queue[l][j] => i = j
        BY DEF QueueInv
      <4> QED
        BY <2>5, <2>1, <3>1, <4>1
    <3> QED
      BY <2>5, <3>2, <3>3
  <2> QED
    BY <2>4, <2>5
<1>8. RunningInv' /\ WaiterTasksInv'
  BY <1>1 DEF RunningInv, WaiterTasksInv, TypeOK
<1>9. ActiveMatchesRunning'
  BY <1>1 DEF ActiveMatchesRunning, Running, TypeOK
<1>10. StackInv'
  <2>1. \A f \in Entry : promise[f] = "running" =>
            promise'[f] = "running" /\ laneOf'[f] = laneOf[f]
    BY <1>1 DEF TypeOK
  <2> QED
    BY <1>3, <2>1, StackInvKept
<1>11. BacklogInv'
  BY <1>1, <1>3, <1>4 DEF BacklogInv, Backlog
<1>12. SerialInv' /\ WaitersExact'
  BY <1>1 DEF SerialInv, WaitersExact, hasPendingActiveTasks
<1> QED
  BY <1>3, <1>6, <1>7, <1>8, <1>9, <1>10, <1>11, <1>12

(* Starting an entry moves it from the queue to the active set and enters  *)
(* its task.                                                               *)
LEMMA PumpStartInv ==
    ASSUME IInv, NEW l \in Lane, PumpStart(l)
    PROVE  IInv'
<1> USE DEF IInv
<1> DEFINE e == Head(queue[l])
<1>1. /\ stack # <<>> /\ stack[Len(stack)] = Pump(l)
      /\ Backlog(l)
      /\ queue' = [queue EXCEPT ![l] = Tail(@)]
      /\ activeTaskIds' = [activeTaskIds EXCEPT ![l] = @ \cup {e}]
      /\ taskGeneration' = [taskGeneration EXCEPT ![e] = generation[l]]
      /\ promise' = [promise EXCEPT ![e] = "running"]
      /\ stack' = Append(stack, Task(e))
      /\ UNCHANGED <<gatewayDraining, maxConcurrent, draining, generation, laneOf,
                     waiterState, waiterTasks, resetting, toDrain>>
  BY DEF PumpStart, OnTop, waiterVars
<1>2. /\ Tail(queue[l]) \in Seq(Entry)
      /\ Len(Tail(queue[l])) = Len(queue[l]) - 1
      /\ \A i \in 1..Len(Tail(queue[l])) : Tail(queue[l])[i] = queue[l][i + 1]
      /\ e = queue[l][1]
      /\ e \in Entry
      /\ Len(queue[l]) \in Nat \ {0}
  <2>1. queue[l] \in Seq(Entry) /\ queue[l] # <<>>
    BY <1>1 DEF Backlog, TypeOK
  <2> QED
    BY <2>1, ShiftFacts
<1>3. promise[e] = "queued" /\ laneOf[e] = l
  BY <1>2 DEF QueueInv
<1> HIDE DEF e
<1>4. /\ stack' \in Seq(Frame)
      /\ Len(stack') = Len(stack) + 1
      /\ \A i \in 1..Len(stack) : stack'[i] = stack[i]
      /\ stack'[Len(stack) + 1] = Task(e)
      /\ Len(stack) \in Nat \ {0}
  <2>1. stack \in Seq(Frame) /\ Task(e) \in Frame
    BY <1>2, FrameFacts DEF TypeOK
  <2> QED
    BY <1>1, <2>1, PushFacts
<1>5. /\ \A f \in Entry : promise'[f] = IF f = e THEN "running" ELSE promise[f]
      /\ \A f \in Entry : taskGeneration'[f] = IF f = e THEN generation[l] ELSE taskGeneration[f]
      /\ \A m \in Lane : activeTaskIds'[m] = IF m = l THEN activeTaskIds[l] \cup {e}
                                                      ELSE activeTaskIds[m]
      /\ \A m \in Lane : queue'[m] = IF m = l THEN Tail(queue[l]) ELSE queue[m]
  BY <1>1 DEF TypeOK
<1>6. TypeOK'
  <2>1. promise' \in [Entry -> PromiseState] /\ taskGeneration' \in [Entry -> 0..MaxGeneration]
    BY <1>1 DEF TypeOK, PromiseState
  <2>2. queue' \in [Lane -> Seq(Entry)] /\ activeTaskIds' \in [Lane -> SUBSET Entry]
    BY <1>1, <1>2 DEF TypeOK
  <2> QED
    BY <1>1, <1>4, <2>1, <2>2 DEF TypeOK
<1>7. QueueInv'
  <2>3. queue'[l] = Tail(queue[l])
    BY <1>5
  <2>4. /\ Len(queue'[l]) = Len(queue[l]) - 1
        /\ \A i \in 1..Len(queue'[l]) : queue'[l][i] = queue[l][i + 1]
    BY <2>3, <1>2, Zenon
  <2>5. \A i \in 1..Len(queue[l]) : queue[l][i] \in Entry /\ (queue[l][i] = e => i = 1)
    <3>1. 1 \in 1..Len(queue[l]) /\ e = queue[l][1]
      BY <1>2
    <3>2. \A i \in 1..Len(queue[l]) : queue[l][i] = queue[l][1] => i = 1
      BY <3>1 DEF QueueInv
    <3> QED
      BY <3>1, <3>2 DEF TypeOK
  <2>6. Len(queue[l]) \in Nat \ {0}
    BY <1>2
  <2>1. ASSUME NEW m \in Lane, NEW i \in 1..Len(queue'[m])
        PROVE  promise'[queue'[m][i]] = "queued" /\ laneOf'[queue'[m][i]] = m
    <3>1. CASE m = l
      <4>1. i + 1 \in 1..Len(queue[l]) /\ queue'[l][i] = queue[l][i + 1] /\ i + 1 # 1
        BY <3>1, <2>1, <2>4, <2>6
      <4>2. queue[l][i + 1] \in Entry /\ queue[l][i + 1] # e
        BY <4>1, <2>5
      <4> QED
        BY <3>1, <4>1, <4>2, <1>5, <1>1 DEF QueueInv
    <3>2. CASE m # l
      <4>1. queue'[m] = queue[m] /\ i \in 1..Len(queue[m])
        BY <3>2, <1>5, <2>1
      <4>2. queue[m][i] \in Entry /\ promise[queue[m][i]] = "queued" /\ laneOf[queue[m][i]] = m
        BY <4>1 DEF QueueInv, TypeOK
      <4>3. queue[m][i] # e
        BY <4>2, <1>3, <3>2
      <4> QED
        BY <4>1, <4>2, <4>3, <1>5, <1>1
    <3> QED BY <3>1, <3>2
  <2>2. ASSUME NEW m \in Lane, NEW i \in 1..Len(queue'[m]), NEW j \in 1..Len(queue'[m]),
               queue'[m][i] = queue'[m][j]
        PROVE  i = j
    <3>1. CASE m = l
      <4>1. /\ i + 1 \in 1..Len(queue[l]) /\ queue'[l][i] = queue[l][i + 1]
            /\ j + 1 \in 1..Len(queue[l]) /\ queue'[l][j] = queue[l][j + 1]
        BY <3>1, <2>2, <2>4, <2>6
      <4>2. i + 1 = j + 1
        BY <3>1, <4>1, <2>2 DEF QueueInv
      <4> QED
        BY <4>2
    <3>2. CASE m # l
      BY <3>2, <2>2, <1>5 DEF QueueInv
    <3> QED BY <3>1, <3>2
  <2> QED
    BY <2>1, <2>2 DEF QueueInv
<1>8. RunningInv'
  <2>1. generation[l] \in 0..MaxGeneration
    BY DEF TypeOK
  <2> QED
    BY <1>1, <1>3, <1>5, <2>1, GenerationAssumption DEF RunningInv
<1>9. ActiveMatchesRunning'
  <2> SUFFICES ASSUME NEW m \in Lane, NEW f
               PROVE  f \in activeTaskIds'[m] <=>
                        /\ f \in Entry /\ promise'[f] = "running" /\ laneOf'[f] = m
                        /\ taskGeneration'[f] = generation'[m]
    BY DEF ActiveMatchesRunning, Running
  <2>1. f \in activeTaskIds[m] <=>
            /\ f \in Entry /\ promise[f] = "running" /\ laneOf[f] = m
            /\ taskGeneration[f] = generation[m]
    BY DEF ActiveMatchesRunning, Running
  <2> QED
    BY <1>1, <1>2, <1>3, <1>5, <2>1
<1>10. StackInv'
  <2>1. \A i \in 1..Len(stack') :
           \/ i \in 1..Len(stack) /\ stack'[i] = stack[i]
           \/ i = Len(stack) + 1 /\ stack'[i] = Task(e)
    BY <1>4
  <2>2. \A i \in 1..Len(stack) : stack[i] # Task(e)
    BY <1>2, <1>3 DEF StackInv
  <2>3. ASSUME NEW f \in Entry, NEW i \in 1..Len(stack'), stack'[i] = Task(f)
        PROVE  promise'[f] = "running" /\ i > 1 /\ stack'[i - 1] = Pump(laneOf'[f])
    <3>1. CASE i \in 1..Len(stack)
      <4>1. promise[f] = "running" /\ i > 1 /\ stack[i - 1] = Pump(laneOf[f])
        BY <3>1, <2>3, <1>4 DEF StackInv
      <4>2. i - 1 \in 1..Len(stack)
        BY <3>1, <4>1, <1>4
      <4> QED
        BY <4>1, <4>2, <1>1, <1>4, <1>5
    <3>2. CASE i = Len(stack) + 1
      <4>1. f = e
        BY <3>2, <2>3, <1>4, <1>2, FrameFacts
      <4>2. i > 1 /\ i - 1 = Len(stack) /\ Len(stack) \in 1..Len(stack)
        BY <3>2, <1>4
      <4> QED
        BY <4>1, <4>2, <1>1, <1>2, <1>3, <1>4, <1>5
    <3> QED BY <3>1, <3>2, <2>1
  <2>4. ASSUME NEW f \in Entry, NEW i \in 1..Len(stack'), NEW j \in 1..Len(stack'),
               stack'[i] = Task(f), stack'[j] = Task(f)
        PROVE  i = j
    <3>1. CASE f = e
      BY <3>1, <2>1, <2>2, <2>4
    <3>2. CASE f # e
      <4>1. /\ i \in 1..Len(stack) /\ stack[i] = Task(f)
            /\ j \in 1..Len(stack) /\ stack[j] = Task(f)
        BY <3>2, <2>1, <2>4, <1>2, FrameFacts
      <4> QED
        BY <4>1 DEF StackInv
    <3> QED BY <3>1, <3>2
  <2> QED
    BY <2>3, <2>4 DEF StackInv
<1>11. BacklogInv'
  <2>1. PumpOnStack(l)'
    BY <1>1, <1>4 DEF PumpOnStack
  <2>2. \A m \in Lane : PumpOnStack(m) => PumpOnStack(m)'
    BY <1>4 DEF PumpOnStack
  <2>3. \A m \in Lane : m # l => (Backlog(m)' <=> Backlog(m))
    BY <1>1, <1>5 DEF Backlog
  <2> QED
    BY <1>1, <2>1, <2>2, <2>3 DEF BacklogInv
<1>12. DrainingInv'
  <2> SUFFICES ASSUME NEW m \in Lane, draining[m] PROVE LivePump(m)'
    BY <1>1 DEF DrainingInv
  <2>1. PICK i \in 1..Len(stack) :
            /\ stack[i] = Pump(m)
            /\ i = Len(stack) \/ \E f \in activeTaskIds[m] : stack[i + 1] = Task(f)
    BY DEF DrainingInv, LivePump
  <2>2. i \in 1..Len(stack') /\ stack'[i] = Pump(m)
    BY <2>1, <1>4
  <2>3. CASE i = Len(stack)
    <3>1. m = l
      BY <2>1, <2>3, <1>1, FrameFacts
    <3>2. e \in activeTaskIds'[m] /\ stack'[i + 1] = Task(e)
      BY <3>1, <2>3, <1>4, <1>5
    <3> QED
      BY <2>2, <3>2 DEF LivePump
  <2>4. CASE i # Len(stack)
    <3>1. PICK f \in activeTaskIds[m] : stack[i + 1] = Task(f)
      BY <2>1, <2>4
    <3>2. i + 1 \in 1..Len(stack) /\ f \in activeTaskIds'[m]
      BY <2>4, <1>4, <1>5
    <3>3. stack'[i + 1] = Task(f)
      BY <3>1, <3>2, <1>4
    <3> QED
      BY <2>2, <3>2, <3>3 DEF LivePump
  <2> QED BY <2>3, <2>4
<1>13. SerialInv'
  <2>1. \A m \in SerialLane : m \in Lane
    BY LaneAssumption
  <2>2. CASE l \in SerialLane
    <3>1. Cardinality(activeTaskIds[l]) < 1
      BY <2>2, <1>1 DEF Backlog, SerialInv
    <3>2. \A x : Cardinality({x}) = 1
      BY FS_Singleton
    <3>3. activeTaskIds[l] = {}
      <4> SUFFICES ASSUME NEW x \in activeTaskIds[l] PROVE FALSE
        OBVIOUS
      <4>1. activeTaskIds[l] = {x}
        BY <2>2 DEF SerialInv
      <4> QED
        BY <4>1, <3>1, <3>2
    <3> QED
      BY <3>3, <2>1, <1>1, <1>5 DEF SerialInv
  <2>3. CASE l \notin SerialLane
    BY <2>1, <2>3, <1>1, <1>5 DEF SerialInv
  <2> QED BY <2>2, <2>3
<1>14. WaiterTasksInv'
  <2>1. \A w \in Waiter : waiterTasks[w] \subseteq Entry
    BY DEF TypeOK
  <2> QED
    BY <1>1, <1>5, <2>1 DEF WaiterTasksInv
<1>15. WaitersExact'
  <2>1. \A w \in Waiter : e \notin waiterTasks[w]
    BY <1>3 DEF WaiterTasksInv
  <2>2. \A w \in Waiter : hasPendingActiveTasks(waiterTasks[w], activeTaskIds)
                            <=> hasPendingActiveTasks(waiterTasks[w], activeTaskIds')
    BY <2>1, <1>5 DEF hasPendingActiveTasks
  <2> QED
    BY <1>1, <2>2 DEF WaitersExact
<1> QED
  BY <1>6, <1>7, <1>8, <1>9, <1>10, <1>11, <1>12, <1>13, <1>14, <1>15

(* A step that pops the top frame and changes neither lanes nor entries.   *)
LEMMA BelowFacts ==
    ASSUME TypeOK, stack # <<>>
    PROVE  /\ Below \in Seq(Frame)
           /\ Len(Below) = Len(stack) - 1
           /\ \A i \in 1..Len(Below) : i \in 1..Len(stack) /\ Below[i] = stack[i]
           /\ \A i \in 1..Len(stack) : i # Len(stack) => i \in 1..Len(Below) /\ Below[i] = stack[i]
           /\ Len(stack) \in Nat \ {0}
<1>1. stack \in Seq(Frame)
  BY DEF TypeOK
<1>2. /\ Below \in Seq(Frame)
      /\ Len(Below) = Len(stack) - 1
      /\ \A i \in 1..Len(stack) - 1 : Below[i] = stack[i]
      /\ Len(stack) \in Nat \ {0}
  BY <1>1, PopFacts DEF Below
<1> QED
  BY <1>2

(* Leaving the pump's loop: no backlog, the guard is cleared.              *)
LEMMA PumpEndInv ==
    ASSUME IInv, NEW l \in Lane, PumpEnd(l)
    PROVE  IInv'
<1> USE DEF IInv
<1>1. /\ stack # <<>> /\ stack[Len(stack)] = Pump(l)
      /\ ~Backlog(l)
      /\ draining' = [draining EXCEPT ![l] = FALSE]
      /\ stack' = Below
      /\ UNCHANGED <<gatewayDraining, queue, activeTaskIds, maxConcurrent, generation, promise,
                     laneOf, taskGeneration, waiterState, waiterTasks, resetting, toDrain>>
  BY DEF PumpEnd, OnTop, waiterVars, entryVars
<1>2. /\ stack' \in Seq(Frame)
      /\ Len(stack') = Len(stack) - 1
      /\ \A i \in 1..Len(stack') : i \in 1..Len(stack) /\ stack'[i] = stack[i]
      /\ \A i \in 1..Len(stack) : i # Len(stack) => i \in 1..Len(stack') /\ stack'[i] = stack[i]
      /\ Len(stack) \in Nat \ {0}
  BY <1>1, BelowFacts
<1>3. TypeOK'
  <2>1. draining' \in [Lane -> BOOLEAN]
    BY <1>1 DEF TypeOK
  <2> QED
    BY <1>1, <1>2, <2>1 DEF TypeOK
<1>4. StackInv'
  BY <1>1, <1>2, StackInvKept
<1>5. BacklogInv'
  <2> SUFFICES ASSUME NEW m \in Lane, Backlog(m)' PROVE (PumpOnStack(m) \/ m \in toDrain)'
    BY <1>1 DEF BacklogInv
  <2>1. Backlog(m) /\ m # l
    BY <1>1 DEF Backlog
  <2>2. CASE PumpOnStack(m)
    <3>1. PICK i \in 1..Len(stack) : stack[i] = Pump(m)
      BY <2>2 DEF PumpOnStack
    <3>2. i # Len(stack)
      BY <3>1, <2>1, <1>1, FrameFacts
    <3> QED
      BY <3>1, <3>2, <1>2 DEF PumpOnStack
  <2> QED
    BY <2>1, <2>2, <1>1 DEF BacklogInv
<1>6. DrainingInv'
  <2> SUFFICES ASSUME NEW m \in Lane, draining'[m] PROVE LivePump(m)'
    BY DEF DrainingInv
  <2>1. m # l /\ draining[m]
    BY <1>1 DEF TypeOK
  <2>2. PICK i \in 1..Len(stack) :
            /\ stack[i] = Pump(m)
            /\ i = Len(stack) \/ \E f \in activeTaskIds[m] : stack[i + 1] = Task(f)
    BY <2>1 DEF DrainingInv, LivePump
  <2>3. i # Len(stack)
    BY <2>1, <2>2, <1>1, FrameFacts
  <2>4. PICK f \in activeTaskIds[m] : stack[i + 1] = Task(f)
    BY <2>2, <2>3
  <2>5. f \in Entry
    BY DEF TypeOK
  <2>6. i + 1 # Len(stack)
    BY <2>4, <2>5, <1>1, FrameFacts
  <2>7. i + 1 \in 1..Len(stack)
    BY <2>3, <1>2
  <2>8. i \in 1..Len(stack') /\ stack'[i] = Pump(m) /\ stack'[i + 1] = Task(f)
    BY <2>2, <2>3, <2>4, <2>6, <2>7, <1>2
  <2> QED
    BY <2>8, <1>1 DEF LivePump
<1>7. QueueInv' /\ RunningInv' /\ WaiterTasksInv'
  BY <1>1 DEF QueueInv, RunningInv, WaiterTasksInv
<1>8. ActiveMatchesRunning' /\ SerialInv' /\ WaitersExact'
  BY <1>1 DEF ActiveMatchesRunning, Running, SerialInv, WaitersExact, hasPendingActiveTasks
<1> QED
  BY <1>3, <1>4, <1>5, <1>6, <1>7, <1>8

(* The task on top of the stack returns to the pump below it.              *)
LEMMA TaskAwaitsInv ==
    ASSUME IInv, NEW e \in Entry, TaskAwaits(e)
    PROVE  IInv'
<1> USE DEF IInv
<1>1. /\ stack # <<>> /\ stack[Len(stack)] = Task(e)
      /\ stack' = Below
      /\ UNCHANGED <<gatewayDraining, queue, activeTaskIds, maxConcurrent, draining, generation,
                     promise, laneOf, taskGeneration, waiterState, waiterTasks, resetting, toDrain>>
  BY DEF TaskAwaits, OnTop, waiterVars, entryVars, laneVars
<1>2. /\ stack' \in Seq(Frame)
      /\ Len(stack') = Len(stack) - 1
      /\ \A i \in 1..Len(stack') : i \in 1..Len(stack) /\ stack'[i] = stack[i]
      /\ \A i \in 1..Len(stack) : i # Len(stack) => i \in 1..Len(stack') /\ stack'[i] = stack[i]
      /\ Len(stack) \in Nat \ {0}
  BY <1>1, BelowFacts
<1>3. TypeOK'
  BY <1>1, <1>2 DEF TypeOK
<1>4. StackInv'
  BY <1>1, <1>2, StackInvKept
<1>5. BacklogInv'
  <2>1. \A m \in Lane : PumpOnStack(m) => PumpOnStack(m)'
    BY <1>1, <1>2, FrameFacts DEF PumpOnStack
  <2> QED
    BY <1>1, <2>1 DEF BacklogInv, Backlog
<1>6. DrainingInv'
  <2> SUFFICES ASSUME NEW m \in Lane, draining[m] PROVE LivePump(m)'
    BY <1>1 DEF DrainingInv
  <2>1. PICK i \in 1..Len(stack) :
            /\ stack[i] = Pump(m)
            /\ i = Len(stack) \/ \E f \in activeTaskIds[m] : stack[i + 1] = Task(f)
    BY DEF DrainingInv, LivePump
  <2>2. i # Len(stack)
    BY <2>1, <1>1, FrameFacts
  <2>3. i \in 1..Len(stack') /\ stack'[i] = Pump(m)
    BY <2>1, <2>2, <1>2
  <2>4. CASE i + 1 = Len(stack)
    BY <2>3, <2>4, <1>2 DEF LivePump
  <2>5. CASE i + 1 # Len(stack)
    <3>1. PICK f \in activeTaskIds[m] : stack[i + 1] = Task(f)
      BY <2>1, <2>2
    <3>2. i + 1 \in 1..Len(stack)
      BY <2>2, <1>2
    <3>3. stack'[i + 1] = Task(f) /\ f \in activeTaskIds'[m]
      BY <3>1, <3>2, <2>5, <1>1, <1>2
    <3> QED
      BY <2>3, <3>3 DEF LivePump
  <2> QED BY <2>4, <2>5
<1>7. QueueInv' /\ RunningInv' /\ WaiterTasksInv'
  BY <1>1 DEF QueueInv, RunningInv, WaiterTasksInv
<1>8. ActiveMatchesRunning' /\ SerialInv' /\ WaitersExact'
  BY <1>1 DEF ActiveMatchesRunning, Running, SerialInv, WaitersExact, hasPendingActiveTasks
<1> QED
  BY <1>3, <1>4, <1>5, <1>6, <1>7, <1>8

(* A settling task frees its slot only if it belongs to the current        *)
(* generation; then the waiters are told and its lane is pumped again.     *)
LEMMA CompleteInv ==
    ASSUME IInv, NEW e \in Entry, NEW outcome \in {"fulfilled", "rejected"}, NEW rest,
           promise[e] = "running",
           Complete(e, outcome, rest),
           rest \in Seq(Frame),
           \A i \in 1..Len(rest) : i \in 1..Len(stack) /\ rest[i] = stack[i] /\ rest[i] # Task(e),
           rest = <<>> \/ rest[Len(rest)] = Pump(laneOf[e]),
           \A m \in Lane : PumpOnStack(m) => \E i \in 1..Len(rest) : rest[i] = Pump(m),
           \A m \in Lane : draining[m] =>
               \E i \in 1..Len(rest) :
                   /\ rest[i] = Pump(m)
                   /\ i = Len(rest) \/ \E f \in activeTaskIds[m] \ {e} : rest[i + 1] = Task(f)
    PROVE  IInv'
<1> USE DEF IInv
<1> DEFINE l == laneOf[e]
<1> DEFINE fresh == taskGeneration[e] = generation[l]
<1>1. /\ promise' = [promise EXCEPT ![e] = outcome]
      /\ UNCHANGED <<gatewayDraining, queue, maxConcurrent, draining, generation,
                     laneOf, taskGeneration, waiterTasks, resetting, toDrain>>
  BY DEF Complete
<1>2. fresh => /\ activeTaskIds' = [activeTaskIds EXCEPT ![l] = @ \ {e}]
               /\ notifyActiveTaskWaiters(waiterState, waiterTasks, activeTaskIds')
               /\ stack' = Append(rest, Pump(l))
  BY DEF Complete
<1>3. ~fresh => stack' = rest /\ UNCHANGED <<activeTaskIds, waiterState>>
  BY DEF Complete
<1>4. l \in Lane
  BY DEF RunningInv
<1>5. \A f \in Entry : promise'[f] = IF f = e THEN outcome ELSE promise[f]
  BY <1>1 DEF TypeOK
<1>6. \A m \in Lane : activeTaskIds'[m] = activeTaskIds[m] \ {e}
  <2>1. \A m \in Lane : m # l => e \notin activeTaskIds[m]
    BY DEF ActiveMatchesRunning, Running
  <2>2. ~fresh => e \notin activeTaskIds[l]
    BY <1>4 DEF ActiveMatchesRunning, Running
  <2>3. CASE fresh
    <3>1. \A m \in Lane : activeTaskIds'[m] = IF m = l THEN activeTaskIds[l] \ {e}
                                                       ELSE activeTaskIds[m]
      BY <2>3, <1>2 DEF TypeOK
    <3> QED BY <3>1, <2>1
  <2>4. CASE ~fresh
    BY <2>4, <2>1, <2>2, <1>3
  <2> QED BY <2>3, <2>4
<1>7. Len(rest) \in Nat
  OBVIOUS
<1>8. /\ stack' \in Seq(Frame)
      /\ \A i \in 1..Len(rest) : i \in 1..Len(stack') /\ stack'[i] = rest[i]
      /\ \A i \in 1..Len(stack') : \A f \in Entry : stack'[i] = Task(f) => i \in 1..Len(rest)
      /\ fresh => Len(stack') = Len(rest) + 1 /\ stack'[Len(rest) + 1] = Pump(l)
      /\ Len(stack') \in Nat
      /\ ~fresh => Len(stack') = Len(rest)
  <2>1. CASE fresh
    <3>1. Pump(l) \in Frame
      BY <1>4, FrameFacts
    <3>2. /\ stack' \in Seq(Frame)
          /\ Len(stack') = Len(rest) + 1
          /\ \A i \in 1..Len(rest) : stack'[i] = rest[i]
          /\ stack'[Len(rest) + 1] = Pump(l)
      <4>1. stack' = Append(rest, Pump(l))
        BY <2>1, <1>2
      <4> HIDE DEF l
      <4> QED
        BY <4>1, <3>1, PushFacts
    <3>3. \A i \in 1..Len(stack') : i \in 1..Len(rest) \/ i = Len(rest) + 1
      BY <3>2, <1>7
    <3> QED
      BY <3>2, <3>3, <1>4, <1>7, <2>1, FrameFacts
  <2>2. CASE ~fresh
    BY <2>2, <1>3, <1>7
  <2> QED BY <2>1, <2>2
<1> HIDE DEF fresh
<1>9. TypeOK'
  <2>1. promise' \in [Entry -> PromiseState]
    BY <1>1 DEF TypeOK, PromiseState, Settled
  <2>2. activeTaskIds' \in [Lane -> SUBSET Entry]
    <3>1. CASE fresh
      <4>1. activeTaskIds' = [activeTaskIds EXCEPT ![l] = activeTaskIds[l] \ {e}]
        BY <3>1, <1>2
      <4>2. activeTaskIds \in [Lane -> SUBSET Entry] /\ activeTaskIds[l] \ {e} \in SUBSET Entry
        BY <1>4 DEF TypeOK
      <4> HIDE DEF l
      <4> QED
        BY <4>1, <4>2
    <3>2. CASE ~fresh
      BY <3>2, <1>3 DEF TypeOK
    <3> QED BY <3>1, <3>2
  <2>3. waiterState' \in [Waiter -> {"idle", "waiting", "drained", "timedOut"}]
    BY <1>2, <1>3 DEF TypeOK, notifyActiveTaskWaiters
  <2> QED
    BY <1>1, <1>8, <2>1, <2>2, <2>3 DEF TypeOK
<1>10. QueueInv'
  <2>1. \A m \in Lane : \A i \in 1..Len(queue[m]) : queue[m][i] \in Entry /\ queue[m][i] # e
    BY DEF QueueInv, TypeOK
  <2> QED
    BY <1>1, <1>5, <2>1 DEF QueueInv
<1>11. RunningInv'
  BY <1>1, <1>5 DEF RunningInv
<1>12. ActiveMatchesRunning'
  <2> SUFFICES ASSUME NEW m \in Lane, NEW f
               PROVE  f \in activeTaskIds'[m] <=>
                        /\ f \in Entry /\ promise'[f] = "running" /\ laneOf'[f] = m
                        /\ taskGeneration'[f] = generation'[m]
    BY DEF ActiveMatchesRunning, Running
  <2>1. f \in activeTaskIds[m] <=>
            /\ f \in Entry /\ promise[f] = "running" /\ laneOf[f] = m
            /\ taskGeneration[f] = generation[m]
    BY DEF ActiveMatchesRunning, Running
  <2> QED
    BY <1>1, <1>5, <1>6, <2>1
<1>13. StackInv'
  <2>1. Len(stack) \in Nat
    BY DEF TypeOK
  <2>2. \A f \in Entry : \A i \in 1..Len(stack') : stack'[i] = Task(f) =>
            /\ i \in 1..Len(rest) /\ i \in 1..Len(stack) /\ stack[i] = Task(f)
            /\ f # e
    BY <1>8
  <2>3. ASSUME NEW f \in Entry, NEW i \in 1..Len(stack'), stack'[i] = Task(f)
        PROVE  promise'[f] = "running" /\ i > 1 /\ stack'[i - 1] = Pump(laneOf'[f])
    <3>1. i \in 1..Len(rest) /\ i \in 1..Len(stack) /\ stack[i] = Task(f) /\ f # e
      BY <2>2, <2>3
    <3>2. promise[f] = "running" /\ i > 1 /\ stack[i - 1] = Pump(laneOf[f])
      BY <3>1 DEF StackInv
    <3>3. i - 1 \in 1..Len(rest)
      BY <3>1, <3>2, <1>7
    <3> QED
      BY <3>1, <3>2, <3>3, <1>1, <1>5, <1>8
  <2>4. ASSUME NEW f \in Entry, NEW i \in 1..Len(stack'), NEW j \in 1..Len(stack'),
               stack'[i] = Task(f), stack'[j] = Task(f)
        PROVE  i = j
    BY <2>2, <2>4 DEF StackInv
  <2> QED
    BY <2>3, <2>4 DEF StackInv
<1>14. BacklogInv'
  <2>1. \A m \in Lane : PumpOnStack(m) => PumpOnStack(m)'
    BY <1>8 DEF PumpOnStack
  <2>2. CASE fresh
    <3>1. \A m \in Lane : m = l => PumpOnStack(m)'
      <4>1. Len(rest) + 1 \in 1..Len(stack') /\ stack'[Len(rest) + 1] = Pump(l)
        BY <2>2, <1>7, <1>8
      <4> QED
        BY <4>1 DEF PumpOnStack
    <3>3. \A m \in Lane : m # l => activeTaskIds'[m] = activeTaskIds[m]
      BY <2>2, <1>2 DEF TypeOK
    <3>4. \A m \in Lane : m # l => (Backlog(m)' <=> Backlog(m))
      BY <3>3, <1>1 DEF Backlog
    <3> QED
      BY <1>1, <2>1, <3>1, <3>4 DEF BacklogInv
  <2>3. CASE ~fresh
    <3>1. \A m \in Lane : Backlog(m)' <=> Backlog(m)
      BY <2>3, <1>1, <1>3 DEF Backlog, fresh
    <3> QED
      BY <1>1, <2>1, <3>1 DEF BacklogInv
  <2> QED BY <2>2, <2>3
<1>15. DrainingInv'
  <2> SUFFICES ASSUME NEW m \in Lane, draining[m] PROVE LivePump(m)'
    BY <1>1 DEF DrainingInv
  <2>1. PICK i \in 1..Len(rest) :
            /\ rest[i] = Pump(m)
            /\ i = Len(rest) \/ \E f \in activeTaskIds[m] \ {e} : rest[i + 1] = Task(f)
    OBVIOUS
  <2>2. i \in 1..Len(stack') /\ stack'[i] = Pump(m)
    BY <2>1, <1>8
  <2>3. CASE i # Len(rest)
    <3>1. PICK f \in activeTaskIds[m] \ {e} : rest[i + 1] = Task(f)
      BY <2>1, <2>3
    <3>2. i + 1 \in 1..Len(rest) /\ f \in activeTaskIds'[m]
      BY <2>3, <1>6, <1>7
    <3>3. stack'[i + 1] = Task(f)
      BY <3>1, <3>2, <1>8
    <3> QED
      BY <2>2, <3>2, <3>3 DEF LivePump
  <2>4. CASE i = Len(rest) /\ ~fresh
    BY <2>2, <2>4, <1>8 DEF LivePump
  <2>5. CASE i = Len(rest) /\ fresh
    <3>1. rest # <<>>
      BY <2>5, <1>7
    <3>2. m = l
      BY <2>1, <2>5, <3>1, <1>4, FrameFacts
    <3>3. Len(stack') \in 1..Len(stack') /\ stack'[Len(stack')] = Pump(m)
      BY <3>2, <2>5, <1>7, <1>8
    <3> QED
      BY <3>3 DEF LivePump
  <2> QED BY <2>3, <2>4, <2>5
<1>16. SerialInv'
  <2>1. \A m \in SerialLane : m \in Lane
    BY LaneAssumption
  <2> QED
    BY <2>1, <1>1, <1>6 DEF SerialInv
<1>17. WaiterTasksInv'
  <2>1. \A w \in Waiter : waiterTasks[w] \subseteq Entry
    BY DEF TypeOK
  <2> QED
    BY <1>1, <1>5, <2>1 DEF WaiterTasksInv
<1>18. WaitersExact'
  <2>1. \A w \in Waiter : hasPendingActiveTasks(waiterTasks[w], activeTaskIds')
                            => hasPendingActiveTasks(waiterTasks[w], activeTaskIds)
    BY <1>6 DEF hasPendingActiveTasks
  <2>2. CASE fresh
    <3>1. \A w \in Waiter : waiterState'[w] =
              IF waiterState[w] = "waiting"
                 /\ ~hasPendingActiveTasks(waiterTasks[w], activeTaskIds')
              THEN "drained" ELSE waiterState[w]
      BY <2>2, <1>2 DEF notifyActiveTaskWaiters
    <3> QED
      BY <3>1, <2>1, <1>1 DEF WaitersExact
  <2>3. CASE ~fresh
    BY <2>3, <1>1, <1>3 DEF WaitersExact, fresh
  <2> QED BY <2>2, <2>3
<1> QED
  BY <1>9, <1>10, <1>11, <1>12, <1>13, <1>14, <1>15, <1>16, <1>17, <1>18

(* A task that settles in a later turn.                                    *)
LEMMA TaskSettlesInv ==
    ASSUME IInv, NEW e \in Entry, NEW outcome \in {"fulfilled", "rejected"},
           TaskSettles(e, outcome)
    PROVE  IInv'
<1>1. stack = <<>> /\ promise[e] = "running" /\ Complete(e, outcome, stack)
  BY DEF TaskSettles, Idle
<1>2. stack \in Seq(Frame) /\ Len(stack) = 0
  BY <1>1 DEF IInv, TypeOK
<1>3. \A m \in Lane : ~PumpOnStack(m) /\ ~draining[m]
  BY <1>2 DEF IInv, DrainingInv, LivePump, PumpOnStack
<1>4. \A i \in 1..Len(stack) : FALSE
  BY <1>2
<1> QED
  BY <1>1, <1>2, <1>3, <1>4, CompleteInv

(* A task that throws before its first await.                              *)
LEMMA TaskThrowsInv ==
    ASSUME IInv, NEW e \in Entry, TaskThrows(e)
    PROVE  IInv'
<1>1. stack # <<>> /\ stack[Len(stack)] = Task(e) /\ Complete(e, "rejected", Below)
  BY DEF TaskThrows, OnTop
<1>2. /\ Below \in Seq(Frame)
      /\ Len(Below) = Len(stack) - 1
      /\ \A i \in 1..Len(Below) : i \in 1..Len(stack) /\ Below[i] = stack[i]
      /\ \A i \in 1..Len(stack) : i # Len(stack) => i \in 1..Len(Below) /\ Below[i] = stack[i]
      /\ Len(stack) \in Nat \ {0}
  BY <1>1, BelowFacts DEF IInv
<1>3. Len(stack) \in 1..Len(stack)
  BY <1>2
<1>4. /\ promise[e] = "running"
      /\ Len(stack) > 1
      /\ stack[Len(stack) - 1] = Pump(laneOf[e])
      /\ \A i \in 1..Len(stack) : stack[i] = Task(e) => i = Len(stack)
  BY <1>1, <1>3 DEF IInv, StackInv
<1>5. Below[Len(Below)] = Pump(laneOf[e])
  BY <1>2, <1>4
<1>6. \A i \in 1..Len(Below) : i # Len(stack)
  BY <1>2
<1>7. \A i \in 1..Len(Below) : i \in 1..Len(stack) /\ Below[i] = stack[i] /\ Below[i] # Task(e)
  BY <1>2, <1>4, <1>6
<1>8. ASSUME NEW m \in Lane, PumpOnStack(m)
      PROVE  \E i \in 1..Len(Below) : Below[i] = Pump(m)
  BY <1>1, <1>2, <1>8, FrameFacts DEF PumpOnStack
<1>9. ASSUME NEW m \in Lane, draining[m]
      PROVE  \E i \in 1..Len(Below) :
                 /\ Below[i] = Pump(m)
                 /\ i = Len(Below) \/ \E f \in activeTaskIds[m] \ {e} : Below[i + 1] = Task(f)
  <2>1. PICK i \in 1..Len(stack) :
            /\ stack[i] = Pump(m)
            /\ i = Len(stack) \/ \E f \in activeTaskIds[m] : stack[i + 1] = Task(f)
    BY <1>9 DEF IInv, DrainingInv, LivePump
  <2>2. i # Len(stack)
    BY <2>1, <1>1, FrameFacts
  <2>3. i \in 1..Len(Below) /\ Below[i] = Pump(m)
    BY <2>1, <2>2, <1>2
  <2>4. CASE i + 1 = Len(stack)
    BY <2>3, <2>4, <1>2
  <2>5. CASE i + 1 # Len(stack)
    <3>1. PICK f \in activeTaskIds[m] : stack[i + 1] = Task(f)
      BY <2>1, <2>2
    <3>2. i + 1 \in 1..Len(stack)
      BY <2>2, <1>2
    <3>3. f # e
      BY <3>1, <3>2, <2>5, <1>4
    <3>4. Below[i + 1] = Task(f)
      BY <3>1, <3>2, <2>5, <1>2
    <3> QED
      BY <2>3, <3>3, <3>4
  <2> QED BY <2>4, <2>5
<1> HIDE DEF Below
<1>10. "rejected" \in {"fulfilled", "rejected"}
  OBVIOUS
<1> QED
  BY <1>1, <1>2, <1>4, <1>5, <1>7, <1>8, <1>9, <1>10, CompleteInv, SMTT(60)

(* Steps that change no lane, entry, waiter or frame.                      *)
LEMMA MarkGatewayDrainingInv ==
    ASSUME IInv, markGatewayDraining
    PROVE  IInv'
<1> USE DEF IInv, markGatewayDraining, laneVars, entryVars, waiterVars, controlVars
<1>1. TypeOK'
  BY DEF TypeOK
<1>2. QueueInv' /\ RunningInv' /\ StackInv'
  BY DEF QueueInv, RunningInv, StackInv
<1>3. BacklogInv' /\ DrainingInv'
  BY DEF BacklogInv, Backlog, PumpOnStack, DrainingInv, LivePump
<1>4. ActiveMatchesRunning' /\ SerialInv' /\ WaiterTasksInv' /\ WaitersExact'
  BY DEF ActiveMatchesRunning, Running, SerialInv, WaiterTasksInv, WaitersExact,
         hasPendingActiveTasks
<1> QED
  BY <1>1, <1>2, <1>3, <1>4

(* drainLane called by an operation that leaves entries, active tasks and  *)
(* waiters alone: a changed limit, or the second loop of resetAllLanes.    *)
LEMMA DrainOnlyInv ==
    ASSUME IInv, NEW l \in Lane, Callable, drainLane(l),
           UNCHANGED <<gatewayDraining, queue, activeTaskIds, generation, promise, laneOf,
                       taskGeneration, waiterState, waiterTasks, resetting>>,
           maxConcurrent' \in [Lane -> Nat \ {0}],
           \A m \in Lane : m # l => maxConcurrent'[m] = maxConcurrent[m],
           \A m \in SerialLane : maxConcurrent'[m] = maxConcurrent[m],
           toDrain \ {l} \subseteq toDrain', toDrain' \subseteq toDrain
    PROVE  IInv'
<1> USE DEF IInv
<1>1. /\ stack' \in Seq(Frame)
      /\ draining' \in [Lane -> BOOLEAN]
      /\ PumpOnStack(l)'
      /\ \A m \in Lane : PumpOnStack(m) => PumpOnStack(m)'
      /\ \A e \in Entry : \A i \in 1..Len(stack') : stack'[i] = Task(e) => i \in 1..Len(stack)
      /\ \A i \in 1..Len(stack) : stack'[i] = stack[i]
      /\ Len(stack) \in Nat
      /\ DrainingInv'
  BY DrainLaneFacts
<1>2. TypeOK'
  BY <1>1 DEF TypeOK
<1>3. StackInv'
  BY <1>1, StackInvKept
<1>4. BacklogInv'
  BY <1>1 DEF BacklogInv, Backlog
<1>5. QueueInv' /\ RunningInv'
  BY DEF QueueInv, RunningInv
<1>6. ActiveMatchesRunning' /\ SerialInv'
  BY DEF ActiveMatchesRunning, Running, SerialInv
<1>7. WaiterTasksInv' /\ WaitersExact'
  BY DEF WaiterTasksInv, WaitersExact, hasPendingActiveTasks
<1> QED
  BY <1>1, <1>2, <1>3, <1>4, <1>5, <1>6, <1>7

(* A changed limit is clamped to at least one and drains the lane.         *)
LEMMA SetConcurrencyInv ==
    ASSUME IInv, NEW l \in Lane \ SerialLane, NEW n \in Concurrency,
           setCommandLaneConcurrency(l, n)
    PROVE  IInv'
<1>1. /\ Idle
      /\ maxConcurrent' = [maxConcurrent EXCEPT ![l] = AtLeastOne(n)]
      /\ drainLane(l)
      /\ UNCHANGED <<gatewayDraining, queue, activeTaskIds, generation, promise, laneOf,
                     taskGeneration, waiterState, waiterTasks, resetting, toDrain>>
  BY DEF setCommandLaneConcurrency, entryVars, waiterVars
<1>2. AtLeastOne(n) \in Nat \ {0}
  BY ConcurrencyAssumption DEF AtLeastOne
<1>3. maxConcurrent \in [Lane -> Nat \ {0}]
  BY DEF IInv, TypeOK
<1>4. /\ maxConcurrent' \in [Lane -> Nat \ {0}]
      /\ \A m \in Lane : m # l => maxConcurrent'[m] = maxConcurrent[m]
  BY <1>1, <1>2, <1>3
<1>5. \A m \in SerialLane : maxConcurrent'[m] = maxConcurrent[m]
  BY <1>4, LaneAssumption
<1>6. Callable /\ toDrain' = toDrain
  BY <1>1 DEF Idle, Callable
<1> QED
  BY <1>1, <1>4, <1>5, <1>6, DrainOnlyInv

(* One lane of the second loop of resetAllLanes.                           *)
LEMMA ResetDrainInv ==
    ASSUME IInv, NEW l \in Lane, ResetDrain(l)
    PROVE  IInv'
<1>1. /\ stack = <<>>
      /\ toDrain' = toDrain \ {l}
      /\ drainLane(l)
      /\ UNCHANGED <<gatewayDraining, queue, activeTaskIds, maxConcurrent, generation, promise,
                     laneOf, taskGeneration, waiterState, waiterTasks, resetting>>
  BY DEF ResetDrain, entryVars, waiterVars
<1>2. Callable /\ maxConcurrent' \in [Lane -> Nat \ {0}]
  BY <1>1 DEF Callable, IInv, TypeOK
<1> QED
  BY <1>1, <1>2, DrainOnlyInv

(* Clearing a lane rejects exactly the entries it removes.                 *)
LEMMA ClearInv ==
    ASSUME IInv, NEW l \in Lane, clearCommandLane(l)
    PROVE  IInv'
<1> USE DEF IInv
<1>1. /\ queue' = [queue EXCEPT ![l] = <<>>]
      /\ promise' = [e \in Entry |-> IF InQueue(l, e) THEN "cleared" ELSE promise[e]]
      /\ UNCHANGED <<gatewayDraining, activeTaskIds, maxConcurrent, draining, generation, laneOf,
                     taskGeneration, waiterState, waiterTasks, stack, resetting, toDrain>>
  BY DEF clearCommandLane, waiterVars, controlVars
<1>2. \A e \in Entry : InQueue(l, e) => promise[e] = "queued" /\ laneOf[e] = l
  BY DEF InQueue, QueueInv
<1>3. \A e \in Entry : promise[e] # "queued" => promise'[e] = promise[e]
  BY <1>1, <1>2
<1>4. \A e \in Entry : promise[e] = "queued" => promise'[e] \in {"queued", "cleared"}
  BY <1>1
<1>5. \A m \in Lane : queue'[m] = IF m = l THEN <<>> ELSE queue[m]
  BY <1>1 DEF TypeOK
<1>6. TypeOK'
  <2>1. promise' \in [Entry -> PromiseState]
    BY <1>1 DEF TypeOK, PromiseState, Settled
  <2>2. queue' \in [Lane -> Seq(Entry)]
    BY <1>1 DEF TypeOK
  <2> QED
    BY <1>1, <2>1, <2>2 DEF TypeOK
<1>7. QueueInv'
  <2>1. ASSUME NEW m \in Lane, m # l, NEW i \in 1..Len(queue[m])
        PROVE  promise'[queue[m][i]] = "queued" /\ laneOf'[queue[m][i]] = m
    <3>1. queue[m][i] \in Entry /\ promise[queue[m][i]] = "queued" /\ laneOf[queue[m][i]] = m
      BY DEF QueueInv, TypeOK
    <3>2. ~InQueue(l, queue[m][i])
      BY <3>1, <2>1, <1>2
    <3> QED
      BY <3>1, <3>2, <1>1
  <2> QED
    BY <2>1, <1>5 DEF QueueInv
<1>8. RunningInv'
  BY <1>1, <1>3, <1>4 DEF RunningInv
<1>9. ActiveMatchesRunning'
  <2>1. \A e \in Entry : promise'[e] = "running" <=> promise[e] = "running"
    BY <1>3, <1>4
  <2> QED
    BY <2>1, <1>1 DEF ActiveMatchesRunning, Running
<1>10. StackInv'
  BY <1>1, <1>3 DEF StackInv
<1>11. BacklogInv'
  <2>1. \A m \in Lane : Backlog(m)' => Backlog(m)
    BY <1>1, <1>5 DEF Backlog
  <2> QED
    BY <2>1, <1>1 DEF BacklogInv, PumpOnStack
<1>12. DrainingInv'
  BY <1>1 DEF DrainingInv, LivePump
<1>13. SerialInv' /\ WaitersExact'
  BY <1>1 DEF SerialInv, WaitersExact, hasPendingActiveTasks
<1>14. WaiterTasksInv'
  <2>1. \A w \in Waiter : waiterTasks[w] \subseteq Entry
    BY DEF TypeOK
  <2> QED
    BY <1>1, <1>3, <2>1 DEF WaiterTasksInv
<1> QED
  BY <1>6, <1>7, <1>8, <1>9, <1>10, <1>11, <1>12, <1>13, <1>14

(* A reset makes every running task stale and schedules every lane that    *)
(* still has entries.                                                      *)
LEMMA ResetInv ==
    ASSUME IInv, resetAllLanes
    PROVE  IInv'
<1> USE DEF IInv
<1>1. /\ stack = <<>>
      /\ \A l \in Lane : generation[l] < MaxGeneration
      /\ gatewayDraining' = FALSE
      /\ generation' = [l \in Lane |-> generation[l] + 1]
      /\ activeTaskIds' = [l \in Lane |-> {}]
      /\ draining' = [l \in Lane |-> FALSE]
      /\ resetting' = TRUE
      /\ toDrain' = {l \in Lane : queue[l] # <<>>}
      /\ UNCHANGED <<queue, maxConcurrent, promise, laneOf, taskGeneration,
                     waiterState, waiterTasks, stack>>
  BY DEF resetAllLanes, Idle, entryVars, waiterVars
<1>2. \A l \in Lane : generation[l] \in 0..MaxGeneration /\ generation'[l] = generation[l] + 1
  BY <1>1 DEF TypeOK
<1>3. TypeOK'
  <2>1. generation' \in [Lane -> 0..MaxGeneration]
    BY <1>1, <1>2, GenerationAssumption
  <2>2. draining' \in [Lane -> BOOLEAN] /\ activeTaskIds' \in [Lane -> SUBSET Entry]
    BY <1>1
  <2>3. toDrain' \in SUBSET Lane /\ gatewayDraining' \in BOOLEAN /\ resetting' \in BOOLEAN
    BY <1>1
  <2> QED
    BY <1>1, <2>1, <2>2, <2>3 DEF TypeOK
<1>4. \A e \in Entry : promise[e] = "running" =>
          /\ laneOf[e] \in Lane
          /\ taskGeneration[e] \in Nat
          /\ taskGeneration[e] < generation'[laneOf[e]]
  BY <1>2, GenerationAssumption DEF RunningInv, TypeOK
<1>5. RunningInv'
  <2>1. \A e \in Entry : promise[e] = "running" =>
            laneOf[e] \in Lane /\ taskGeneration[e] =< generation'[laneOf[e]]
    BY <1>2, <1>4, GenerationAssumption
  <2> QED
    BY <1>1, <2>1 DEF RunningInv
<1>6. ActiveMatchesRunning'
  <2> SUFFICES ASSUME NEW l \in Lane, NEW e \in Entry, promise[e] = "running", laneOf[e] = l
               PROVE  taskGeneration[e] # generation'[l]
    BY <1>1 DEF ActiveMatchesRunning, Running
  <2> QED
    BY <1>2, <1>4, GenerationAssumption
<1>7. QueueInv' /\ StackInv' /\ WaiterTasksInv'
  BY <1>1 DEF QueueInv, StackInv, WaiterTasksInv
<1>8. BacklogInv'
  BY <1>1 DEF BacklogInv, Backlog
<1>9. DrainingInv'
  BY <1>1 DEF DrainingInv
<1>10. SerialInv'
  BY <1>1, LaneAssumption DEF SerialInv
<1>11. WaitersExact'
  BY <1>1 DEF WaitersExact, hasPendingActiveTasks
<1> QED
  BY <1>3, <1>5, <1>6, <1>7, <1>8, <1>9, <1>10, <1>11

(* Steps of waiters: only waiterState, waiterTasks and resetting change.   *)
LEMMA WaiterStepInv ==
    ASSUME IInv,
           UNCHANGED <<gatewayDraining, laneVars, entryVars, stack, toDrain>>,
           waiterState' \in [Waiter -> {"idle", "waiting", "drained", "timedOut"}],
           waiterTasks' \in [Waiter -> SUBSET Entry],
           resetting' \in BOOLEAN,
           toDrain # {} => resetting',
           \A w \in Waiter : waiterTasks'[w] = waiterTasks[w] \/ waiterTasks'[w] \subseteq AllActive,
           WaitersExact'
    PROVE  IInv'
<1> USE DEF IInv, laneVars, entryVars
<1>1. TypeOK'
  BY DEF TypeOK
<1>2. QueueInv' /\ RunningInv' /\ StackInv'
  BY DEF QueueInv, RunningInv, StackInv
<1>3. BacklogInv' /\ DrainingInv'
  BY DEF BacklogInv, Backlog, PumpOnStack, DrainingInv, LivePump
<1>4. ActiveMatchesRunning' /\ SerialInv'
  BY DEF ActiveMatchesRunning, Running, SerialInv
<1>5. WaiterTasksInv'
  <2>1. \A e \in AllActive : promise[e] = "running"
    BY DEF AllActive, ActiveMatchesRunning, Running
  <2> QED
    BY <2>1 DEF WaiterTasksInv
<1> QED
  BY <1>1, <1>2, <1>3, <1>4, <1>5

(* The trailing notification of resetAllLanes.                             *)
LEMMA ResetNotifyInv ==
    ASSUME IInv, ResetNotify
    PROVE  IInv'
<1>1. /\ toDrain = {}
      /\ resetting' = FALSE
      /\ \A w \in Waiter : waiterState'[w] =
             IF waiterState[w] = "waiting"
                /\ ~hasPendingActiveTasks(waiterTasks[w], activeTaskIds)
             THEN "drained" ELSE waiterState[w]
      /\ UNCHANGED <<gatewayDraining, laneVars, entryVars, waiterTasks, stack, toDrain>>
  BY DEF ResetNotify, notifyActiveTaskWaiters
<1>2. waiterState' \in [Waiter -> {"idle", "waiting", "drained", "timedOut"}]
  BY DEF IInv, TypeOK, ResetNotify, notifyActiveTaskWaiters
<1>3. waiterTasks' \in [Waiter -> SUBSET Entry] /\ activeTaskIds' = activeTaskIds
  BY <1>1 DEF IInv, TypeOK, laneVars
<1>4. WaitersExact'
  BY <1>1, <1>3 DEF IInv, WaitersExact
<1> QED
  BY <1>1, <1>2, <1>3, <1>4, WaiterStepInv

(* A call of waitForActiveTasks.                                           *)
LEMMA WaitInv ==
    ASSUME IInv, NEW w \in Waiter, NEW hasTime \in BOOLEAN, waitForActiveTasks(w, hasTime)
    PROVE  IInv'
<1>1. /\ waiterState[w] = "idle"
      /\ UNCHANGED <<gatewayDraining, laneVars, entryVars, stack, resetting, toDrain, activeTaskIds>>
      /\ WaitNothingActive(w) \/ WaitNoTime(w) \/ WaitRegister(w)
  BY DEF waitForActiveTasks, controlVars, laneVars
<1>2. /\ waiterState \in [Waiter -> {"idle", "waiting", "drained", "timedOut"}]
      /\ waiterTasks \in [Waiter -> SUBSET Entry]
      /\ resetting' \in BOOLEAN
      /\ toDrain # {} => resetting'
      /\ WaitersExact
  BY <1>1 DEF IInv, TypeOK, BacklogInv
<1>3. AllActive \in SUBSET Entry
  BY DEF AllActive, IInv, TypeOK
<1>4. AllActive = {} => \A S : ~hasPendingActiveTasks(S, activeTaskIds)
  BY DEF AllActive, hasPendingActiveTasks
<1>5. AllActive # {} => hasPendingActiveTasks(AllActive, activeTaskIds)
  BY DEF AllActive, hasPendingActiveTasks
<1>6. CASE WaitNothingActive(w)
  <2>1. WaitersExact'
    BY <1>1, <1>2, <1>4, <1>6 DEF WaitNothingActive, WaitersExact
  <2> QED
    BY <1>1, <1>2, <1>6, <2>1, WaiterStepInv DEF WaitNothingActive
<1>7. CASE WaitNoTime(w)
  <2>1. WaitersExact'
    BY <1>1, <1>2, <1>7 DEF WaitNoTime, WaitersExact
  <2> QED
    BY <1>1, <1>2, <1>7, <2>1, WaiterStepInv DEF WaitNoTime
<1>8. CASE WaitRegister(w)
  <2>1. /\ AllActive # {}
        /\ waiterTasks' = [waiterTasks EXCEPT ![w] = AllActive]
        /\ \A v \in Waiter : waiterState'[v] =
             IF (IF v = w THEN "waiting" ELSE waiterState[v]) = "waiting"
                /\ ~hasPendingActiveTasks(waiterTasks'[v], activeTaskIds)
             THEN "drained" ELSE IF v = w THEN "waiting" ELSE waiterState[v]
    BY <1>2, <1>8 DEF WaitRegister, notifyActiveTaskWaiters
  <2>2. waiterState' \in [Waiter -> {"idle", "waiting", "drained", "timedOut"}]
    BY <1>2, <1>8 DEF WaitRegister, notifyActiveTaskWaiters
  <2>3. \A v \in Waiter : waiterTasks'[v] = IF v = w THEN AllActive ELSE waiterTasks[v]
    BY <1>2, <2>1
  <2>4. waiterTasks' \in [Waiter -> SUBSET Entry]
    BY <1>2, <1>3, <2>1
  <2>5. WaitersExact'
    BY <1>1, <1>2, <1>5, <2>1, <2>3 DEF WaitersExact
  <2> QED
    BY <1>1, <1>2, <2>2, <2>3, <2>4, <2>5, WaiterStepInv
<1> QED
  BY <1>1, <1>6, <1>7, <1>8

(* The timer of a waiter fires.                                            *)
LEMMA WaiterTimeoutInv ==
    ASSUME IInv, NEW w \in Waiter, WaiterTimeout(w)
    PROVE  IInv'
<1>1. /\ waiterState' = [waiterState EXCEPT ![w] = "timedOut"]
      /\ UNCHANGED <<gatewayDraining, laneVars, entryVars, waiterTasks, stack, resetting, toDrain,
                     activeTaskIds>>
  BY DEF WaiterTimeout, controlVars, laneVars
<1>2. /\ waiterState \in [Waiter -> {"idle", "waiting", "drained", "timedOut"}]
      /\ waiterTasks \in [Waiter -> SUBSET Entry]
      /\ resetting' \in BOOLEAN
      /\ toDrain # {} => resetting'
      /\ WaitersExact
  BY <1>1 DEF IInv, TypeOK, BacklogInv
<1>3. WaitersExact'
  BY <1>1, <1>2 DEF WaitersExact
<1> QED
  BY <1>1, <1>2, <1>3, WaiterStepInv

-----------------------------------------------------------------------------
(* Invariance.                                                             *)

(* Every step of the queue preserves the inductive invariant.              *)
LEMMA NextInv == IInv /\ [Next]_vars => IInv'
<1> SUFFICES ASSUME IInv, [Next]_vars PROVE IInv'
  OBVIOUS
<1>1. ASSUME NEW l \in Lane, PumpStart(l) \/ PumpEnd(l) \/ ResetDrain(l) PROVE IInv'
  BY <1>1, PumpStartInv, PumpEndInv, ResetDrainInv
<1>2. ASSUME NEW e \in Entry, TaskAwaits(e) \/ TaskThrows(e) PROVE IInv'
  BY <1>2, TaskAwaitsInv, TaskThrowsInv
<1>3. CASE ResetNotify
  BY <1>3, ResetNotifyInv
<1>4. ASSUME NEW l \in Lane, NEW e \in Entry, enqueueCommandInLane(l, e) PROVE IInv'
  BY <1>4, EnqueueRefusedInv, EnqueueAcceptedInv DEF enqueueCommandInLane
<1>5. ASSUME NEW l \in Lane \ SerialLane, NEW n \in Concurrency, setCommandLaneConcurrency(l, n)
      PROVE  IInv'
  BY <1>5, SetConcurrencyInv
<1>6. ASSUME NEW l \in Lane, clearCommandLane(l) PROVE IInv'
  BY <1>6, ClearInv
<1>7. CASE markGatewayDraining
  BY <1>7, MarkGatewayDrainingInv
<1>8. CASE resetAllLanes
  BY <1>8, ResetInv
<1>9. ASSUME NEW w \in Waiter, NEW hasTime \in BOOLEAN, waitForActiveTasks(w, hasTime)
      PROVE  IInv'
  BY <1>9, WaitInv
<1>10. ASSUME NEW e \in Entry, Settles(e) PROVE IInv'
  BY <1>10, TaskSettlesInv DEF Settles
<1>11. ASSUME NEW w \in Waiter, WaiterTimeout(w) PROVE IInv'
  BY <1>11, WaiterTimeoutInv
<1>12. CASE UNCHANGED vars
  <2> USE <1>12 DEF IInv, vars, laneVars, entryVars, waiterVars, controlVars
  <2>1. TypeOK' /\ QueueInv' /\ RunningInv' /\ StackInv'
    BY DEF TypeOK, QueueInv, RunningInv, StackInv
  <2>2. BacklogInv' /\ DrainingInv'
    BY DEF BacklogInv, Backlog, PumpOnStack, DrainingInv, LivePump
  <2>3. ActiveMatchesRunning' /\ SerialInv' /\ WaiterTasksInv' /\ WaitersExact'
    BY DEF ActiveMatchesRunning, Running, SerialInv, WaiterTasksInv, WaitersExact,
           hasPendingActiveTasks
  <2> QED
    BY <2>1, <2>2, <2>3
<1> QED
  BY <1>1, <1>2, <1>3, <1>4, <1>5, <1>6, <1>7, <1>8, <1>9, <1>10, <1>11, <1>12
     DEF Next, Synchronous, Calls

(* The inductive invariant is an invariant of the queue.                   *)
THEOREM Invariance == Spec => []IInv
<1>1. Init => IInv
  BY InitInv
<1>2. IInv /\ [Next]_vars => IInv'
  BY NextInv
<1> QED
  BY <1>1, <1>2, PTL DEF Spec

-----------------------------------------------------------------------------
(* The properties that the runs check, for every instance.                 *)

(* The state always has its type.                                          *)
THEOREM TypeCorrect == Spec => []TypeOK
<1>1. IInv => TypeOK
  BY DEF IInv
<1> QED
  BY <1>1, Invariance, PTL

(* Slots are never leaked and never freed by somebody else's completion.   *)
THEOREM ActiveMatchesRunningHolds == Spec => []ActiveMatchesRunning
<1>1. IInv => ActiveMatchesRunning
  BY DEF IInv
<1> QED
  BY <1>1, Invariance, PTL

(* No lane is left between turns with an entry it has room to run.         *)
THEOREM WorkConservingHolds == Spec => []WorkConserving
<1>1. IInv => WorkConserving
  <2> SUFFICES ASSUME IInv, Idle, NEW l \in Lane, Backlog(l) PROVE FALSE
    BY DEF WorkConserving
  <2>1. Len(stack) = 0 /\ toDrain = {}
    BY DEF Idle, IInv, BacklogInv
  <2>2. ~PumpOnStack(l)
    BY <2>1 DEF PumpOnStack
  <2> QED
    BY <2>1, <2>2 DEF IInv, BacklogInv
<1> QED
  BY <1>1, Invariance, PTL

(* The "drainLane blocked" condition is unreachable.                       *)
THEOREM DrainNeverBlockedHolds == Spec => []DrainNeverBlocked
<1>1. IInv => DrainNeverBlocked
  <2> SUFFICES ASSUME IInv, MayCall, NEW l \in Lane, draining[l]
               PROVE  stack # <<>> /\ activeTaskIds[l] # {}
    BY DEF DrainNeverBlocked
  <2>1. PICK i \in 1..Len(stack) :
            /\ stack[i] = Pump(l)
            /\ i = Len(stack) \/ \E e \in activeTaskIds[l] : stack[i + 1] = Task(e)
    BY DEF IInv, DrainingInv, LivePump
  <2>2. stack # <<>>
    BY <2>1
  <2>3. PICK e \in Entry : stack[Len(stack)] = Task(e)
    BY <2>2 DEF MayCall, Idle, InTask, OnTop
  <2>4. i # Len(stack)
    BY <2>1, <2>3, FrameFacts
  <2> QED
    BY <2>1, <2>2, <2>4
<1> QED
  BY <1>1, Invariance, PTL

(* A lane at its default limit runs one task of its generation at a time.  *)
THEOREM SerialLanesRunOneHolds == Spec => []SerialLanesRunOne
<1>1. IInv => SerialLanesRunOne
  <2> SUFFICES ASSUME IInv, NEW l \in SerialLane, NEW e \in Running(l), NEW f \in Running(l),
                      taskGeneration[e] = generation[l], taskGeneration[f] = generation[l]
               PROVE  e = f
    BY DEF SerialLanesRunOne
  <2>1. l \in Lane
    BY LaneAssumption
  <2>2. e \in activeTaskIds[l] /\ f \in activeTaskIds[l]
    BY <2>1 DEF IInv, ActiveMatchesRunning
  <2> QED
    BY <2>2 DEF IInv, SerialInv
<1> QED
  BY <1>1, Invariance, PTL

(* Drain waiters answer exactly.                                           *)
THEOREM WaitersExactHolds == Spec => []WaitersExact
<1>1. IInv => WaitersExact
  BY DEF IInv
<1> QED
  BY <1>1, Invariance, PTL

(* A settled promise never changes: cleared, refused or finished work is   *)
(* never started (again).                                                  *)
THEOREM SettledStaysSettledHolds == Spec => SettledStaysSettled
<1> DEFINE Kept == \A e \in Entry : promise[e] \in Settled => promise'[e] = promise[e]
<1>1. IInv /\ [Next]_vars => [Kept]_vars
  <2> SUFFICES ASSUME IInv, Next PROVE Kept
    OBVIOUS
  <2>1. promise \in [Entry -> PromiseState] /\ queue \in [Lane -> Seq(Entry)]
    BY DEF IInv, TypeOK
  <2>2. ASSUME NEW d \in Entry, NEW v, promise[d] \notin Settled,
               promise' = [promise EXCEPT ![d] = v]
        PROVE  Kept
    BY <2>1, <2>2
  <2>3. CASE UNCHANGED promise
    BY <2>3
  <2>4. ASSUME NEW l \in Lane, PumpStart(l) PROVE Kept
    <3>1. queue[l] \in Seq(Entry) /\ queue[l] # <<>>
      BY <2>1, <2>4 DEF PumpStart, Backlog
    <3>2. Head(queue[l]) = queue[l][1] /\ Head(queue[l]) \in Entry /\ 1 \in 1..Len(queue[l])
      BY <3>1, ShiftFacts
    <3>3. promise[Head(queue[l])] = "queued"
      BY <3>2 DEF IInv, QueueInv
    <3> QED
      BY <2>2, <2>4, <3>2, <3>3 DEF PumpStart, Settled
  <2>5. ASSUME NEW l \in Lane, PumpEnd(l) \/ ResetDrain(l) PROVE Kept
    BY <2>3, <2>5 DEF PumpEnd, ResetDrain, entryVars
  <2>6. ASSUME NEW e \in Entry, TaskAwaits(e) PROVE Kept
    BY <2>3, <2>6 DEF TaskAwaits, entryVars
  <2>7. ASSUME NEW e \in Entry, TaskThrows(e) PROVE Kept
    <3>1. Len(stack) \in 1..Len(stack) /\ stack[Len(stack)] = Task(e)
      BY <2>7 DEF TaskThrows, OnTop, IInv, TypeOK
    <3>2. promise[e] = "running"
      BY <3>1 DEF IInv, StackInv
    <3> QED
      BY <2>2, <2>7, <3>2 DEF TaskThrows, Complete, Settled
  <2>8. ASSUME NEW e \in Entry, Settles(e) PROVE Kept
    BY <2>2, <2>8 DEF Settles, TaskSettles, Complete, Settled
  <2>9. ASSUME NEW l \in Lane, NEW e \in Entry, enqueueCommandInLane(l, e) PROVE Kept
    BY <2>2, <2>9 DEF enqueueCommandInLane, EnqueueRefused, EnqueueAccepted, Settled
  <2>10. ASSUME NEW l \in Lane, clearCommandLane(l) PROVE Kept
    <3>1. \A e \in Entry : InQueue(l, e) => promise[e] = "queued"
      BY DEF InQueue, IInv, QueueInv
    <3> QED
      BY <2>1, <2>10, <3>1 DEF clearCommandLane, Settled
  <2>11. ASSUME NEW l \in Lane, NEW n \in Concurrency, setCommandLaneConcurrency(l, n) PROVE Kept
    BY <2>3, <2>11 DEF setCommandLaneConcurrency, entryVars
  <2>12. ASSUME NEW w \in Waiter, NEW hasTime \in BOOLEAN,
                waitForActiveTasks(w, hasTime) \/ WaiterTimeout(w)
         PROVE  Kept
    BY <2>3, <2>12 DEF waitForActiveTasks, WaiterTimeout, entryVars
  <2>13. CASE markGatewayDraining \/ resetAllLanes \/ ResetNotify
    BY <2>3, <2>13 DEF markGatewayDraining, resetAllLanes, ResetNotify, entryVars
  <2> HIDE DEF Kept
  <2> QED
    BY <2>4, <2>5, <2>6, <2>7, <2>8, <2>9, <2>10, <2>11, <2>12, <2>13
       DEF Next, Synchronous, Calls
<1>2. [][Kept]_vars => SettledStaysSettled
  BY PTL DEF SettledStaysSettled, Kept
<1> QED
  BY <1>1, <1>2, Invariance, PTL DEF Spec

=============================================================================

------------------------ MODULE HeartbeatRunnerProofs -----------------------
(***************************************************************************)
(* Theorems about the heartbeat, for any targets, agents, delays and       *)
(* bounds: no wake is lost or weakened or left without a timer, batches of *)
(* one handler overlap only for one reason, the pause of a busy lane is    *)
(* kept, and the chain of interval heartbeats lives on.                    *)
(***************************************************************************)
EXTENDS HeartbeatRunner, TLAPS

(* What the runner does to the wake layer.                                 *)
Answered(b) ==
    /\ InFlight(b)
    /\ \/ \E t \in batch[b].rest : HandlerDone(b, t) \/ HandlerBusy(b, t)
       \/ HandlerThrows(b)

WakeStep ==
    \/ \E t \in Target, r \in Reason, ms \in {0, DefaultCoalesce} : requestHeartbeatNow(t, r, ms)
    \/ setHeartbeatWakeHandler \/ \E g \in Runner : disposeWakeHandler(g)
    \/ TimerFires \/ Tick
    \/ \E b \in Batch : Answered(b)

(* A batch was taken by a handler that had been registered, and has left   *)
(* only targets that were pending.                                         *)
BatchInv ==
    /\ handler \in {0, handlerGeneration}
    /\ \A b \in Batch : InFlight(b) =>
          /\ batch[b].gen <= handlerGeneration
          /\ \A t \in batch[b].rest : batch[b].item[t] # NoReason

(* Unless a batch has outlived its handler, a handler has one batch, and   *)
(* the flag tells whether the current one has.                             *)
OverlapInv ==
    ~outlived =>
        /\ \A b, c \in Batch :
              InFlight(b) /\ InFlight(c) /\ batch[b].gen = batch[c].gen => b = c
        /\ \A b \in Batch : InFlight(b) /\ batch[b].gen = handler => running

(* A pause is kept by a retry timer that nothing replaces.                 *)
CooldownInv ==
    pause > 0 /\ ~excused => timer.kind = "retry" /\ timer.left >= pause

WakeInv == WakeTypeOK /\ BatchInv /\ WakeKept /\ NoWakeStuck /\ OverlapInv /\ CooldownInv

(* A run belongs to a batch that waits for its target, and the registered  *)
(* runner is up.                                                           *)
CallInv == \A b \in Batch : Awaited(b) => InFlight(b) /\ call[b].target \in batch[b].rest
RunnerInv == handler # 0 => runner[handler] = "up"

IInv == TypeOK /\ WakeInv /\ CallInv /\ RunnerInv /\ IntervalChainAlive

-----------------------------------------------------------------------------
(* Reasons and timers.                                                     *)
LEMMA ReasonFacts ==
    /\ NoReason \notin Reason
    /\ \A r : resolveReasonPriority(r) \in Nat
BY ReasonAssumption DEF NoReason, ReasonKind, resolveReasonPriority

LEMMA CoalesceType ==
    ASSUME NEW p \in Reason \cup {NoReason}, NEW r \in Reason
    PROVE  Coalesce(p, r) \in Reason
BY ReasonFacts DEF Coalesce

(* Coalescing keeps a reason as strong as what it stands for.              *)
LEMMA CoalesceKeeps ==
    ASSUME NEW p, NEW o, NEW r, NEW s, AtLeast(p, o), AtLeast(r, s), r # NoReason
    PROVE  AtLeast(Coalesce(p, r), Stronger(o, s))
<1> DEFINE P(x) == resolveReasonPriority(x)
<1>1. P(p) \in Nat /\ P(o) \in Nat /\ P(r) \in Nat /\ P(s) \in Nat
  BY ReasonFacts
<1> HIDE DEF P
<1>2. /\ o = NoReason \/ (p # NoReason /\ P(p) >= P(o))
      /\ s = NoReason \/ P(r) >= P(s)
  BY DEF AtLeast, P
<1>3. Stronger(o, s) \in {o, s}
  BY DEF Stronger
<1>4. CASE p = NoReason \/ P(r) >= P(p)
  <2>1. Coalesce(p, r) = r
    BY <1>4 DEF Coalesce, P
  <2>2. AtLeast(r, o)
    BY <1>1, <1>2, <1>4 DEF AtLeast, P
  <2> QED
    BY <1>3, <2>1, <2>2
<1>5. CASE p # NoReason /\ ~(P(r) >= P(p))
  <2>1. Coalesce(p, r) = p
    BY <1>5 DEF Coalesce, P
  <2>2. AtLeast(p, s)
    BY <1>1, <1>2, <1>5 DEF AtLeast, P
  <2> QED
    BY <1>3, <2>1, <2>2
<1> QED
  BY <1>4, <1>5

(* A call of schedule leaves a timer armed, and a retry timer alone.       *)
LEMMA ScheduleFacts ==
    ASSUME NEW tm \in Timers, NEW ms \in Delay, NEW kind \in {"normal", "retry"}
    PROVE  /\ schedule(tm, ms, kind) \in Timers
           /\ schedule(tm, ms, kind) # NoTimer
           /\ tm.kind = "retry" => schedule(tm, ms, kind) = tm
           /\ tm = NoTimer => /\ schedule(tm, ms, kind).kind = kind
                              /\ schedule(tm, ms, kind).left = ms
<1> DEFINE new == [kind |-> kind, left |-> ms, delay |-> ms]
<1>1. ms \in 0..DefaultRetry
  BY DelayAssumption DEF Delay
<1>2. new \in Timers /\ new # NoTimer /\ new.kind = kind /\ new.left = ms
  BY <1>1 DEF Timers, NoTimer
<1>3. tm.kind = "retry" => tm # NoTimer
  BY DEF NoTimer
<1>4. schedule(tm, ms, kind) = IF tm # NoTimer /\ (tm.kind = "retry" \/ tm.left <= ms)
                               THEN tm ELSE new
  BY DEF schedule
<1> HIDE DEF new
<1> QED
  BY <1>2, <1>3, <1>4

LEMMA TimerFacts ==
    /\ NoTimer \in Timers /\ NoTimer.kind = "none" /\ NoTimer.left = 0
    /\ \A tm \in Timers : /\ tm.left \in 0..DefaultRetry /\ tm.delay \in Delay
                          /\ tm # NoTimer => tm.kind \in {"normal", "retry"}
BY DelayAssumption DEF Timers, NoTimer, Delay

LEMMA DelayFacts == {0, DefaultCoalesce, DefaultRetry} \subseteq Delay
BY DEF Delay

(* A batch in flight.                                                      *)
LEMMA BatchFacts ==
    ASSUME WakeTypeOK, NEW b \in Batch, InFlight(b)
    PROVE  /\ batch[b] \in [gen : 1..MaxGeneration, item : [Target -> Reason \cup {NoReason}],
                            rest : SUBSET Target, delay : Delay,
                            owed : [Target -> Reason \cup {NoReason}]]
           /\ batch[b].gen \in 1..MaxGeneration /\ batch[b].rest \subseteq Target
           /\ batch[b].item \in [Target -> Reason \cup {NoReason}]
           /\ batch[b].owed \in [Target -> Reason \cup {NoReason}]
           /\ batch[b].delay \in Delay
BY DEF WakeTypeOK, Batches, InFlight

-----------------------------------------------------------------------------
(* The end of a call.                                                      *)

(* A batch answers some of its targets: those whose lanes are busy go back *)
(* and are tried again, the others are done.                               *)
Continues(b, rest, back, retry) ==
    /\ InFlight(b) /\ rest \in SUBSET batch[b].rest /\ retry \in BOOLEAN
    /\ back \in SUBSET Target /\ \A t \in back : batch[b].item[t] # NoReason
    /\ retry => batch[b].rest \ rest \subseteq back
    /\ ~retry => back = {}
    /\ BatchContinues(b, rest, back, retry)

LEMMA AnsweredContinues ==
    ASSUME WakeTypeOK, BatchInv, NEW b \in Batch, Answered(b)
    PROVE  \E rest, back : \E retry \in BOOLEAN : Continues(b, rest, back, retry)
<1>0. InFlight(b)
  BY DEF Answered
<1>1. /\ batch[b].rest \subseteq Target
      /\ \A t \in batch[b].rest : batch[b].item[t] # NoReason
  BY <1>0, BatchFacts DEF BatchInv
<1>2. ASSUME NEW t \in batch[b].rest, HandlerDone(b, t)
      PROVE  Continues(b, batch[b].rest \ {t}, {}, FALSE)
  BY <1>0, <1>2 DEF HandlerDone, Continues
<1>3. ASSUME NEW t \in batch[b].rest, HandlerBusy(b, t)
      PROVE  Continues(b, batch[b].rest \ {t}, {t}, TRUE)
  BY <1>0, <1>1, <1>3 DEF HandlerBusy, Continues
<1>4. ASSUME HandlerThrows(b)
      PROVE  Continues(b, {}, {t \in Target : batch[b].item[t] # NoReason}, TRUE)
  BY <1>0, <1>1, <1>4 DEF HandlerThrows, Continues
<1>5. CASE \E t \in batch[b].rest : HandlerDone(b, t)
  BY <1>2, <1>5
<1>6. CASE \E t \in batch[b].rest : HandlerBusy(b, t)
  BY <1>3, <1>6
<1>7. CASE HandlerThrows(b)
  BY <1>4, <1>7
<1> QED
  BY <1>5, <1>6, <1>7 DEF Answered

(* What happens to the batch.                                              *)
LEMMA ContinuesBatch ==
    ASSUME WakeTypeOK, NEW b \in Batch, NEW rest, NEW back, NEW retry \in BOOLEAN,
           Continues(b, rest, back, retry)
    PROVE  /\ \A c \in Batch \ {b} : batch'[c] = batch[c]
           /\ rest = {} => batch'[b] = NoBatch
           /\ rest # {} => /\ batch'[b] \in [gen : 1..MaxGeneration,
                                    item : [Target -> Reason \cup {NoReason}],
                                    rest : SUBSET Target, delay : Delay,
                                    owed : [Target -> Reason \cup {NoReason}]]
                           /\ batch'[b].gen = batch[b].gen /\ batch'[b].item = batch[b].item
                           /\ batch'[b].owed = batch[b].owed /\ batch'[b].rest = rest
           /\ batch' \in [Batch -> Batches]
           /\ \A c \in Batch : InFlight(c)' => InFlight(c)
<1>0. InFlight(b) /\ rest \in SUBSET batch[b].rest /\ batch \in [Batch -> Batches]
  BY DEF Continues, WakeTypeOK
<1>1. batch' = [batch EXCEPT ![b] = IF rest = {} THEN NoBatch ELSE [batch[b] EXCEPT !.rest = rest]]
  BY DEF Continues, BatchContinues
<1>2. /\ batch[b] \in [gen : 1..MaxGeneration, item : [Target -> Reason \cup {NoReason}],
                       rest : SUBSET Target, delay : Delay,
                       owed : [Target -> Reason \cup {NoReason}]]
      /\ batch[b].rest \subseteq Target
  BY <1>0, BatchFacts
<1> DEFINE kept == [batch[b] EXCEPT !.rest = rest]
<1>3. /\ kept \in [gen : 1..MaxGeneration, item : [Target -> Reason \cup {NoReason}],
                   rest : SUBSET Target, delay : Delay,
                   owed : [Target -> Reason \cup {NoReason}]]
      /\ kept.gen = batch[b].gen /\ kept.item = batch[b].item /\ kept.owed = batch[b].owed
      /\ kept.rest = rest
  BY <1>0, <1>2
<1>4. batch'[b] = IF rest = {} THEN NoBatch ELSE kept
  BY <1>0, <1>1
<1>5. \A c \in Batch \ {b} : batch'[c] = batch[c]
  BY <1>0, <1>1
<1> HIDE DEF kept
<1>6. batch'[b] \in Batches
  BY <1>3, <1>4 DEF Batches
<1>7. batch' \in [Batch -> Batches]
  BY <1>0, <1>1, <1>6
<1>8. \A c \in Batch : InFlight(c)' => InFlight(c)
  BY <1>0, <1>5 DEF InFlight
<1> QED
  BY <1>3, <1>4, <1>5, <1>7, <1>8

(* What happens to the timer.                                              *)
LEMMA ContinuesTimer ==
    ASSUME WakeTypeOK, NEW b \in Batch, NEW rest, NEW back, NEW retry \in BOOLEAN,
           Continues(b, rest, back, retry)
    PROVE  /\ timer' \in Timers
           /\ timer # NoTimer \/ retry => timer' # NoTimer
           /\ timer.kind = "retry" => timer' = timer
           /\ retry /\ timer = NoTimer => timer'.kind = "retry" /\ timer'.left = DefaultRetry
<1>0. InFlight(b) /\ timer \in Timers
  BY DEF Continues, WakeTypeOK
<1>1. batch[b].delay \in Delay /\ DefaultRetry \in Delay
  BY <1>0, BatchFacts, DelayFacts
<1> DEFINE armed == IF retry THEN schedule(timer, DefaultRetry, "retry") ELSE timer
<1>2. timer' = armed \/ timer' = schedule(armed, batch[b].delay, "normal")
  BY DEF Continues, BatchContinues
<1>3. /\ armed \in Timers /\ (timer # NoTimer \/ retry => armed # NoTimer)
      /\ timer.kind = "retry" => armed = timer
      /\ retry /\ timer = NoTimer => armed.kind = "retry" /\ armed.left = DefaultRetry
  BY <1>0, <1>1, ScheduleFacts
<1> HIDE DEF armed
<1>4. /\ schedule(armed, batch[b].delay, "normal") \in Timers
      /\ schedule(armed, batch[b].delay, "normal") # NoTimer
      /\ armed.kind = "retry" => schedule(armed, batch[b].delay, "normal") = armed
  BY <1>1, <1>3, ScheduleFacts
<1> QED
  BY <1>2, <1>3, <1>4

(* What happens to the pending wakes.                                      *)
LEMMA ContinuesPending ==
    ASSUME WakeTypeOK, NEW b \in Batch, NEW rest, NEW back, NEW retry \in BOOLEAN,
           Continues(b, rest, back, retry)
    PROVE  /\ pendingWakes' = [t \in Target |-> IF t \in back
                                 THEN Coalesce(pendingWakes[t], batch[b].item[t]) ELSE pendingWakes[t]]
           /\ pendingWakes' \in [Target -> Reason \cup {NoReason}]
           /\ \A t \in Target : (pendingWakes[t] # NoReason \/ t \in back)
                                  => pendingWakes'[t] # NoReason
<1>0. /\ InFlight(b) /\ pendingWakes \in [Target -> Reason \cup {NoReason}]
      /\ \A t \in back : batch[b].item[t] # NoReason
  BY DEF Continues, WakeTypeOK
<1>1. pendingWakes' = [t \in Target |-> IF t \in back
                         THEN Coalesce(pendingWakes[t], batch[b].item[t]) ELSE pendingWakes[t]]
  BY DEF Continues, BatchContinues, queuePendingWakeReason
<1>2. \A t \in Target \cap back : Coalesce(pendingWakes[t], batch[b].item[t]) \in Reason
  BY <1>0, BatchFacts, CoalesceType
<1> QED
  BY <1>0, <1>1, <1>2, ReasonFacts

-----------------------------------------------------------------------------
(* Types of the wake layer.                                                *)
LEMMA WakeTypeStep == WakeTypeOK /\ BatchInv /\ [WakeStep]_wVars => WakeTypeOK'
<1> SUFFICES ASSUME WakeTypeOK, BatchInv, [WakeStep]_wVars PROVE WakeTypeOK'
  OBVIOUS
<1> USE DEF wakeHistory
<1>0. /\ handler \in 0..MaxGeneration /\ handlerGeneration \in 0..MaxGeneration
      /\ pendingWakes \in [Target -> Reason \cup {NoReason}]
      /\ scheduled \in BOOLEAN /\ running \in BOOLEAN
      /\ timer \in Timers /\ batch \in [Batch -> Batches]
      /\ owed \in [Target -> Reason \cup {NoReason}]
      /\ pause \in 0..DefaultRetry /\ excused \in BOOLEAN /\ outlived \in BOOLEAN
  BY DEF WakeTypeOK
<1>1. ASSUME NEW t \in Target, NEW r \in Reason, NEW ms \in {0, DefaultCoalesce},
             requestHeartbeatNow(t, r, ms)
      PROVE  WakeTypeOK'
  <2>1. timer' \in Timers
    BY <1>0, <1>1, ScheduleFacts, DelayFacts DEF requestHeartbeatNow
  <2>2. pendingWakes' \in [Target -> Reason \cup {NoReason}]
    <3>1. \A u \in Target : Coalesce(pendingWakes[u], r) \in Reason
      BY <1>0, CoalesceType
    <3> QED
      BY <1>0, <1>1, <3>1 DEF requestHeartbeatNow, queuePendingWakeReason
  <2>3. owed' \in [Target -> Reason \cup {NoReason}]
    BY <1>0, <1>1 DEF requestHeartbeatNow, Stronger
  <2> QED
    BY <1>0, <1>1, <2>1, <2>2, <2>3 DEF requestHeartbeatNow, WakeTypeOK
<1>2. ASSUME setHeartbeatWakeHandler PROVE WakeTypeOK'
  <2>1. timer' \in Timers
    BY <1>2, ScheduleFacts, TimerFacts, DelayFacts DEF setHeartbeatWakeHandler
  <2>2. handlerGeneration' \in 0..MaxGeneration /\ handler' \in 0..MaxGeneration
    BY <1>0, <1>2, DelayAssumption DEF setHeartbeatWakeHandler
  <2>3. excused' \in BOOLEAN
    BY <1>2 DEF setHeartbeatWakeHandler
  <2> QED
    BY <1>0, <1>2, <2>1, <2>2, <2>3 DEF setHeartbeatWakeHandler, WakeTypeOK
<1>3. ASSUME NEW g \in Runner, disposeWakeHandler(g) PROVE WakeTypeOK'
  <2>1. handlerGeneration' \in 0..MaxGeneration /\ handler' \in 0..MaxGeneration
    BY <1>0, <1>3, DelayAssumption DEF disposeWakeHandler, wVars, wakeVars
  <2> QED
    BY <1>0, <1>3, <2>1 DEF disposeWakeHandler, wVars, wakeVars, WakeTypeOK
<1>4. ASSUME TimerFires PROVE WakeTypeOK'
  <2>1. CASE TimerFindsNoHandler \/ TimerFindsNothing
    BY <1>0, <2>1, TimerFacts DEF TimerFindsNoHandler, TimerFindsNothing, WakeTypeOK
  <2>2. CASE TimerFindsBatch
    <3>1. timer' \in Timers
      BY <1>0, <1>4, <2>2, ScheduleFacts, TimerFacts DEF TimerFires, TimerFindsBatch
    <3> QED
      BY <1>0, <2>2, <3>1 DEF TimerFindsBatch, WakeTypeOK
  <2>3. ASSUME NEW b \in Batch, TimerStartsBatch(b) PROVE WakeTypeOK'
    <3> DEFINE new == [gen |-> handler, item |-> pendingWakes, rest |-> Pending,
                       delay |-> timer.delay, owed |-> owed]
    <3>1. handler \in 1..MaxGeneration
      BY <1>0, <2>3, DelayAssumption DEF TimerStartsBatch
    <3>2. Pending \in SUBSET Target /\ timer.delay \in Delay
      BY <1>0, TimerFacts DEF Pending
    <3>3. new \in Batches
      BY <1>0, <3>1, <3>2 DEF Batches
    <3>4. batch' \in [Batch -> Batches]
      BY <1>0, <2>3, <3>3 DEF TimerStartsBatch
    <3> QED
      BY <1>0, <2>3, <3>4, TimerFacts DEF TimerStartsBatch, WakeTypeOK
  <2> QED
    BY <1>4, <2>1, <2>2, <2>3 DEF TimerFires
<1>5. ASSUME Tick PROVE WakeTypeOK'
  <2>1. /\ timer' = [timer EXCEPT !.left = IF timer.left > 0 THEN timer.left - 1 ELSE 0]
        /\ pause' = IF pause > 0 THEN pause - 1 ELSE 0
    BY <1>5 DEF Tick
  <2>2. timer' \in Timers
    <3>1. CASE timer = NoTimer
      BY <2>1, <3>1 DEF Timers, NoTimer
    <3>2. CASE timer # NoTimer
      <4>1. timer \in [kind : {"normal", "retry"}, left : 0..DefaultRetry, delay : Delay]
        BY <1>0, <3>2 DEF Timers
      <4>2. (IF timer.left > 0 THEN timer.left - 1 ELSE 0) \in 0..DefaultRetry
        BY <4>1, DelayAssumption
      <4> QED
        BY <2>1, <4>1, <4>2 DEF Timers
    <3> QED
      BY <3>1, <3>2
  <2>3. pause' \in 0..DefaultRetry
    BY <1>0, <2>1, DelayAssumption
  <2>4. excused' \in BOOLEAN
    BY <1>5 DEF Tick
  <2> QED
    BY <1>0, <1>5, <2>2, <2>3, <2>4 DEF Tick, WakeTypeOK
<1>6. ASSUME NEW b \in Batch, Answered(b) PROVE WakeTypeOK'
  <2>1. PICK rest, back : \E retry \in BOOLEAN : Continues(b, rest, back, retry)
    BY <1>6, AnsweredContinues
  <2>2. PICK retry \in BOOLEAN : Continues(b, rest, back, retry)
    BY <2>1
  <2>3. timer' \in Timers /\ batch' \in [Batch -> Batches]
        /\ pendingWakes' \in [Target -> Reason \cup {NoReason}]
    BY <2>2, ContinuesBatch, ContinuesTimer, ContinuesPending
  <2>4. owed' \in [Target -> Reason \cup {NoReason}]
    <3>1. batch[b].owed \in [Target -> Reason \cup {NoReason}]
      BY <2>2, BatchFacts DEF Continues
    <3>2. owed' = [t \in Target |-> IF retry /\ t \in batch[b].rest \ rest
                                    THEN Stronger(owed[t], batch[b].owed[t]) ELSE owed[t]]
      BY <2>2 DEF Continues, BatchContinues
    <3>3. \A t \in Target : Stronger(owed[t], batch[b].owed[t]) \in {owed[t], batch[b].owed[t]}
      BY DEF Stronger
    <3> QED
      BY <1>0, <3>1, <3>2, <3>3
  <2>5. pause' \in 0..DefaultRetry
    BY <1>0, <2>2, DelayAssumption DEF Continues, BatchContinues
  <2>6. running' \in BOOLEAN /\ excused' \in BOOLEAN /\ outlived' \in BOOLEAN
    <3>1. running' = (running /\ ~(rest = {}))
      BY <2>2 DEF Continues, BatchContinues
    <3>2. excused' = (timer # NoTimer) \/ excused' = excused
      BY <2>2 DEF Continues, BatchContinues
    <3>3. outlived' = (outlived \/ (rest = {} /\ batch[b].gen # handler /\ running))
      BY <2>2 DEF Continues, BatchContinues
    <3> QED
      BY <1>0, <3>1, <3>2, <3>3
  <2>7. UNCHANGED <<handler, handlerGeneration, scheduled>>
    BY <2>2 DEF Continues, BatchContinues
  <2> QED
    BY <1>0, <2>3, <2>4, <2>5, <2>6, <2>7 DEF WakeTypeOK
<1>7. CASE UNCHANGED wVars
  BY <1>7 DEF wVars, wakeVars, WakeTypeOK
<1> QED
  BY <1>1, <1>2, <1>3, <1>4, <1>5, <1>6, <1>7 DEF WakeStep

-----------------------------------------------------------------------------
(* Batches and their handlers.                                             *)

(* What a batch that starts is.                                            *)
LEMMA StartFacts ==
    ASSUME WakeTypeOK, NEW b \in Batch, TimerStartsBatch(b)
    PROVE  /\ ~InFlight(b) /\ ~running /\ handler # 0 /\ running'
           /\ \A c \in Batch \ {b} : batch'[c] = batch[c]
           /\ batch'[b].gen = handler /\ batch'[b].rest = Pending
           /\ batch'[b].item = pendingWakes /\ batch'[b].owed = owed
           /\ InFlight(b)'
<1>1. /\ ~InFlight(b) /\ ~running /\ handler # 0
  BY DEF TimerStartsBatch, Free
<1>2. running'
  BY DEF TimerStartsBatch
<1>3. batch' = [batch EXCEPT ![b] = [gen |-> handler, item |-> pendingWakes, rest |-> Pending,
                                     delay |-> timer.delay, owed |-> owed]]
  BY DEF TimerStartsBatch
<1>4. batch \in [Batch -> Batches]
  BY DEF WakeTypeOK
<1>5. batch'[b] = [gen |-> handler, item |-> pendingWakes, rest |-> Pending,
                   delay |-> timer.delay, owed |-> owed]
  BY <1>3, <1>4
<1>6. batch'[b].gen = handler /\ batch'[b].rest = Pending
      /\ batch'[b].item = pendingWakes /\ batch'[b].owed = owed
  BY <1>5
<1>7. InFlight(b)'
  BY <1>1, <1>6 DEF InFlight, NoBatch
<1> QED
  BY <1>1, <1>2, <1>3, <1>4, <1>6, <1>7

(* Other steps leave the batches alone.                                    *)
LEMMA BatchCases ==
    ASSUME [WakeStep]_wVars
    PROVE  \/ /\ batch' = batch
              /\ \/ UNCHANGED <<handler, handlerGeneration>>
                 \/ handlerGeneration' = handlerGeneration + 1 /\ handler' \in {0, handlerGeneration'}
           \/ /\ UNCHANGED <<handler, handlerGeneration>>
              /\ \E b \in Batch : TimerStartsBatch(b) \/ Answered(b)
<1>1. ASSUME NEW t \in Target, NEW r \in Reason, NEW ms, requestHeartbeatNow(t, r, ms)
      PROVE  UNCHANGED <<batch, handler, handlerGeneration>>
  BY <1>1 DEF requestHeartbeatNow
<1>2. CASE setHeartbeatWakeHandler
  BY <1>2 DEF setHeartbeatWakeHandler
<1>3. ASSUME NEW g \in Runner, disposeWakeHandler(g)
      PROVE  /\ batch' = batch
             /\ \/ UNCHANGED <<handler, handlerGeneration>>
                \/ handlerGeneration' = handlerGeneration + 1 /\ handler' = 0
  BY <1>3 DEF disposeWakeHandler, wVars, wakeVars
<1>4. CASE TimerFires
  BY <1>4 DEF TimerFires, TimerFindsNoHandler, TimerFindsBatch, TimerFindsNothing, TimerStartsBatch
<1>5. CASE Tick
  BY <1>5 DEF Tick
<1>6. ASSUME NEW b \in Batch, Answered(b) PROVE UNCHANGED <<handler, handlerGeneration>>
  BY <1>6 DEF Answered, HandlerDone, HandlerBusy, HandlerThrows, BatchContinues
<1>7. CASE UNCHANGED wVars
  BY <1>7 DEF wVars, wakeVars
<1> QED
  BY <1>1, <1>2, <1>3, <1>4, <1>5, <1>6, <1>7 DEF WakeStep

LEMMA BatchStep == WakeTypeOK /\ BatchInv /\ [WakeStep]_wVars => BatchInv'
<1> SUFFICES ASSUME WakeTypeOK, BatchInv, [WakeStep]_wVars PROVE BatchInv'
  OBVIOUS
<1>0. handlerGeneration \in Nat /\ \A b \in Batch : InFlight(b) => batch[b].gen \in Nat
  BY BatchFacts, DelayAssumption DEF WakeTypeOK
<1>1. ASSUME batch' = batch,
             \/ UNCHANGED <<handler, handlerGeneration>>
             \/ handlerGeneration' = handlerGeneration + 1 /\ handler' \in {0, handlerGeneration'}
      PROVE  BatchInv'
  BY <1>0, <1>1 DEF BatchInv, InFlight
<1>2. ASSUME NEW b \in Batch, UNCHANGED <<handler, handlerGeneration>>, TimerStartsBatch(b)
      PROVE  BatchInv'
  <2>1. batch'[b].gen <= handlerGeneration
    BY <1>0, <1>2, StartFacts DEF BatchInv
  <2>2. \A t \in batch'[b].rest : batch'[b].item[t] # NoReason
    BY <1>2, StartFacts DEF Pending
  <2>3. \A c \in Batch \ {b} : batch'[c] = batch[c]
    BY <1>2, StartFacts
  <2> QED
    BY <1>2, <2>1, <2>2, <2>3 DEF BatchInv, InFlight
<1>3. ASSUME NEW b \in Batch, UNCHANGED <<handler, handlerGeneration>>, Answered(b)
      PROVE  BatchInv'
  <2>1. PICK rest, back : \E retry \in BOOLEAN : Continues(b, rest, back, retry)
    BY <1>3, AnsweredContinues
  <2>2. /\ \A c \in Batch \ {b} : batch'[c] = batch[c]
        /\ rest = {} => batch'[b] = NoBatch
        /\ rest # {} => /\ batch'[b].gen = batch[b].gen /\ batch'[b].item = batch[b].item
                        /\ batch'[b].rest = rest
    BY <2>1, ContinuesBatch
  <2>3. InFlight(b) /\ rest \subseteq batch[b].rest
    BY <2>1 DEF Continues
  <2> QED
    BY <1>3, <2>2, <2>3 DEF BatchInv, InFlight
<1> QED
  BY <1>1, <1>2, <1>3, BatchCases

-----------------------------------------------------------------------------
(* Wakes.                                                                  *)
LEMMA KeptStep == WakeTypeOK /\ BatchInv /\ WakeKept /\ [WakeStep]_wVars => WakeKept'
<1> SUFFICES ASSUME WakeTypeOK, BatchInv, WakeKept, [WakeStep]_wVars PROVE WakeKept'
  OBVIOUS
<1> USE DEF wakeHistory
<1>0. /\ owed \in [Target -> Reason \cup {NoReason}]
      /\ pendingWakes \in [Target -> Reason \cup {NoReason}]
  BY DEF WakeTypeOK
<1>1. CASE UNCHANGED <<pendingWakes, owed, batch>>
  BY <1>1 DEF WakeKept, InFlight
<1>2. ASSUME NEW t \in Target, NEW r \in Reason, NEW ms, requestHeartbeatNow(t, r, ms)
      PROVE  WakeKept'
  <2>1. /\ batch' = batch /\ owed' = [owed EXCEPT ![t] = Stronger(owed[t], r)]
        /\ \A u \in Target : pendingWakes'[u] = IF u = t THEN Coalesce(pendingWakes[t], r)
                                                         ELSE pendingWakes[u]
    BY <1>2 DEF requestHeartbeatNow, queuePendingWakeReason
  <2>2. AtLeast(pendingWakes'[t], owed'[t])
    <3>1. AtLeast(r, r) /\ r # NoReason
      BY ReasonFacts DEF AtLeast
    <3>2. AtLeast(Coalesce(pendingWakes[t], r), Stronger(owed[t], r))
      BY <3>1, CoalesceKeeps DEF WakeKept
    <3> QED
      BY <1>0, <2>1, <3>2
  <2>3. \A u \in Target \ {t} : pendingWakes'[u] = pendingWakes[u] /\ owed'[u] = owed[u]
    BY <1>0, <2>1
  <2> QED
    BY <2>1, <2>2, <2>3 DEF WakeKept, InFlight
<1>3. ASSUME NEW b \in Batch, TimerStartsBatch(b) PROVE WakeKept'
  <2>1. \A t \in Target : owed'[t] = NoReason
    BY <1>3 DEF TimerStartsBatch
  <2>2. \A t \in Target : AtLeast(batch'[b].item[t], batch'[b].owed[t])
    BY <1>3, StartFacts DEF WakeKept
  <2>3. \A c \in Batch \ {b} : batch'[c] = batch[c]
    BY <1>3, StartFacts
  <2> QED
    BY <2>1, <2>2, <2>3 DEF WakeKept, InFlight, AtLeast
<1>4. ASSUME NEW b \in Batch, Answered(b) PROVE WakeKept'
  <2>1. PICK rest, back : \E retry \in BOOLEAN : Continues(b, rest, back, retry)
    BY <1>4, AnsweredContinues
  <2>2. PICK retry \in BOOLEAN : Continues(b, rest, back, retry)
    BY <2>1
  <2>3. ASSUME NEW t \in Target PROVE AtLeast(pendingWakes'[t], owed'[t])
    <3>1. AtLeast(pendingWakes[t], owed[t]) /\ AtLeast(batch[b].item[t], batch[b].owed[t])
      BY <2>2 DEF WakeKept, Continues
    <3>2. pendingWakes'[t] = IF t \in back THEN Coalesce(pendingWakes[t], batch[b].item[t])
                                           ELSE pendingWakes[t]
      BY <2>2, ContinuesPending
    <3>3. owed'[t] = IF retry /\ t \in batch[b].rest \ rest
                     THEN Stronger(owed[t], batch[b].owed[t]) ELSE owed[t]
      BY <2>2 DEF Continues, BatchContinues
    <3>4. /\ t \in back => batch[b].item[t] # NoReason
          /\ retry /\ t \in batch[b].rest \ rest => t \in back
      BY <2>2 DEF Continues
    <3>5. CASE t \in back
      <4>1. AtLeast(Coalesce(pendingWakes[t], batch[b].item[t]), Stronger(owed[t], batch[b].owed[t]))
        BY <3>1, <3>4, <3>5, CoalesceKeeps
      <4>2. AtLeast(Coalesce(pendingWakes[t], batch[b].item[t]), Stronger(owed[t], NoReason))
        BY <3>1, <3>4, <3>5, CoalesceKeeps DEF AtLeast
      <4>3. Stronger(owed[t], NoReason) = owed[t]
        BY DEF Stronger, AtLeast
      <4> QED
        BY <3>2, <3>3, <3>5, <4>1, <4>2, <4>3
    <3>6. CASE t \notin back
      BY <3>1, <3>2, <3>3, <3>4, <3>6
    <3> QED
      BY <3>5, <3>6
  <2>4. /\ \A c \in Batch \ {b} : batch'[c] = batch[c]
        /\ rest = {} => batch'[b] = NoBatch
        /\ rest # {} => batch'[b].item = batch[b].item /\ batch'[b].owed = batch[b].owed
    BY <2>1, ContinuesBatch
  <2>5. InFlight(b)
    BY <2>2 DEF Continues
  <2> QED
    BY <2>3, <2>4, <2>5 DEF WakeKept, InFlight
<1>5. CASE setHeartbeatWakeHandler \/ (\E g \in Runner : disposeWakeHandler(g)) \/ Tick
           \/ TimerFindsNoHandler \/ TimerFindsBatch \/ TimerFindsNothing \/ UNCHANGED wVars
  BY <1>1, <1>5 DEF setHeartbeatWakeHandler, disposeWakeHandler, Tick, TimerFindsNoHandler,
                    TimerFindsBatch, TimerFindsNothing, wVars, wakeVars
<1> QED
  BY <1>2, <1>3, <1>4, <1>5 DEF WakeStep, TimerFires

-----------------------------------------------------------------------------
(* The timer.                                                              *)
LEMMA TickFacts ==
    ASSUME timer \in Timers, Tick
    PROVE  /\ timer # NoTimer => timer' # NoTimer
           /\ timer'.kind = timer.kind
           /\ timer'.left = IF timer.left > 0 THEN timer.left - 1 ELSE 0
<1>1. timer' = [timer EXCEPT !.left = IF timer.left > 0 THEN timer.left - 1 ELSE 0]
  BY DEF Tick
<1>2. /\ timer'.kind = timer.kind
      /\ timer'.left = IF timer.left > 0 THEN timer.left - 1 ELSE 0
  BY <1>1 DEF Timers, NoTimer
<1> QED
  BY <1>2, TimerFacts

LEMMA FindsBatchFacts ==
    ASSUME WakeTypeOK, TimerFires, TimerFindsBatch
    PROVE  /\ timer' # NoTimer /\ timer'.kind = timer.kind /\ timer'.left = timer.delay
<1>1. /\ timer \in Timers /\ timer # NoTimer
      /\ timer' = schedule(NoTimer, timer.delay, timer.kind)
  BY DEF WakeTypeOK, TimerFires, TimerFindsBatch
<1>2. timer.delay \in Delay /\ timer.kind \in {"normal", "retry"} /\ NoTimer \in Timers
  BY <1>1, TimerFacts
<1> QED
  BY <1>1, <1>2, ScheduleFacts

LEMMA StuckStep == WakeTypeOK /\ BatchInv /\ NoWakeStuck /\ [WakeStep]_wVars => NoWakeStuck'
<1> SUFFICES ASSUME WakeTypeOK, BatchInv, NoWakeStuck, [WakeStep]_wVars PROVE NoWakeStuck'
  OBVIOUS
<1> USE DEF wakeHistory
<1>0. /\ timer \in Timers /\ batch \in [Batch -> Batches]
      /\ NoTimer \in Timers
  BY TimerFacts DEF WakeTypeOK
<1>1. CASE UNCHANGED <<pendingWakes, timer, handler, running, batch>>
  BY <1>1 DEF NoWakeStuck, Pending, InFlight
<1>2. ASSUME NEW t \in Target, NEW r \in Reason, NEW ms \in {0, DefaultCoalesce},
             requestHeartbeatNow(t, r, ms)
      PROVE  NoWakeStuck'
  <2>1. timer' # NoTimer
    BY <1>0, <1>2, ScheduleFacts, DelayFacts DEF requestHeartbeatNow
  <2> QED
    BY <1>2, <2>1 DEF requestHeartbeatNow, NoWakeStuck, InFlight
<1>3. ASSUME setHeartbeatWakeHandler PROVE NoWakeStuck'
  <2>1. Pending' = Pending /\ ~running'
    BY <1>3 DEF setHeartbeatWakeHandler, Pending
  <2>2. Pending # {} => timer' # NoTimer
    BY <1>0, <1>3, ScheduleFacts, DelayFacts DEF setHeartbeatWakeHandler
  <2> QED
    BY <2>1, <2>2 DEF NoWakeStuck
<1>4. ASSUME NEW g \in Runner, disposeWakeHandler(g) PROVE NoWakeStuck'
  <2>1. CASE handler' = 0 /\ UNCHANGED <<running, batch>>
    BY <2>1 DEF NoWakeStuck, InFlight
  <2> QED
    BY <1>1, <1>4, <2>1 DEF disposeWakeHandler, wVars, wakeVars
<1>5. ASSUME TimerFires PROVE NoWakeStuck'
  <2>1. CASE TimerFindsNoHandler
    BY <2>1 DEF TimerFindsNoHandler, NoWakeStuck, InFlight
  <2>2. CASE TimerFindsBatch
    <3>1. timer' # NoTimer
      BY <1>5, <2>2, FindsBatchFacts
    <3> QED
      BY <2>2, <3>1 DEF TimerFindsBatch, NoWakeStuck, InFlight
  <2>3. CASE TimerFindsNothing
    BY <2>3 DEF TimerFindsNothing, NoWakeStuck, InFlight, Pending
  <2>4. ASSUME NEW b \in Batch, TimerStartsBatch(b) PROVE NoWakeStuck'
    <3>1. InFlight(b)'
      BY <2>4, StartFacts
    <3>2. Pending' = {}
      BY <2>4 DEF TimerStartsBatch, Pending
    <3> QED
      BY <3>1, <3>2 DEF NoWakeStuck, InFlight
  <2> QED
    BY <1>5, <2>1, <2>2, <2>3, <2>4 DEF TimerFires
<1>6. ASSUME Tick PROVE NoWakeStuck'
  <2>1. timer # NoTimer => timer' # NoTimer
    BY <1>0, <1>6, TickFacts
  <2>2. UNCHANGED <<handler, pendingWakes, running, batch>>
    BY <1>6 DEF Tick
  <2> QED
    BY <2>1, <2>2 DEF NoWakeStuck, InFlight, Pending
<1>7. ASSUME NEW b \in Batch, Answered(b) PROVE NoWakeStuck'
  <2>1. PICK rest, back : \E retry \in BOOLEAN : Continues(b, rest, back, retry)
    BY <1>7, AnsweredContinues
  <2>2. PICK retry \in BOOLEAN : Continues(b, rest, back, retry)
    BY <2>1
  <2>3. handler' = handler /\ running' = (running /\ ~(rest = {}))
    BY <2>2 DEF Continues, BatchContinues
  <2>4. rest # {} => InFlight(b)'
    BY <2>2, ContinuesBatch DEF InFlight, NoBatch
  <2>5. timer # NoTimer \/ retry => timer' # NoTimer
    BY <2>2, ContinuesTimer
  <2>6. ~retry => pendingWakes' = pendingWakes
    BY <2>2, ContinuesPending DEF Continues, WakeTypeOK
  <2> QED
    BY <2>3, <2>4, <2>5, <2>6 DEF NoWakeStuck, Pending, InFlight
<1> QED
  BY <1>1, <1>2, <1>3, <1>4, <1>5, <1>6, <1>7 DEF WakeStep, wVars, wakeVars

-----------------------------------------------------------------------------
(* Overlapping batches.                                                    *)
LEMMA OverlapStep == WakeTypeOK /\ BatchInv /\ OverlapInv /\ [WakeStep]_wVars => OverlapInv'
<1> SUFFICES ASSUME WakeTypeOK, BatchInv, OverlapInv, [WakeStep]_wVars, ~outlived' PROVE OverlapInv'
  BY DEF OverlapInv
<1> USE DEF wakeHistory
<1>0. ~outlived
  BY DEF WakeStep, requestHeartbeatNow, setHeartbeatWakeHandler, disposeWakeHandler, TimerFires,
         TimerFindsNoHandler, TimerFindsBatch, TimerFindsNothing, TimerStartsBatch, Tick,
         Answered, HandlerDone, HandlerBusy, HandlerThrows, BatchContinues, wVars, wakeVars
<1>1. /\ \A b, c \in Batch :
            InFlight(b) /\ InFlight(c) /\ batch[b].gen = batch[c].gen => b = c
      /\ \A b \in Batch : InFlight(b) /\ batch[b].gen = handler => running
  BY <1>0 DEF OverlapInv
<1>2. \A b \in Batch : InFlight(b) => /\ batch[b].gen \in 1..MaxGeneration
                                      /\ batch[b].gen <= handlerGeneration
  BY BatchFacts DEF BatchInv
<1>3. handlerGeneration \in Nat
  BY DelayAssumption DEF WakeTypeOK
<1>4. CASE /\ batch' = batch
           /\ \/ UNCHANGED <<handler, running>>
              \/ handlerGeneration' = handlerGeneration + 1 /\ handler' \in {0, handlerGeneration'}
  <2>1. \A b \in Batch : InFlight(b)' /\ batch'[b].gen = handler' => running'
    BY <1>1, <1>2, <1>3, <1>4 DEF InFlight
  <2> QED
    BY <1>1, <1>4, <2>1 DEF OverlapInv, InFlight
<1>5. ASSUME NEW b \in Batch, TimerStartsBatch(b) PROVE OverlapInv'
  <2>1. handler' = handler
    BY <1>5 DEF TimerStartsBatch
  <2>2. \A c \in Batch \ {b} : batch'[c] = batch[c]
    BY <1>5, StartFacts
  <2>3. batch'[b].gen = handler /\ ~running /\ running'
    BY <1>5, StartFacts
  <2>4. \A c \in Batch \ {b} : InFlight(c)' => batch'[c].gen # handler
    BY <1>1, <2>2, <2>3 DEF InFlight
  <2> QED
    BY <1>1, <2>1, <2>2, <2>3, <2>4 DEF OverlapInv, InFlight
<1>6. ASSUME NEW b \in Batch, Answered(b) PROVE OverlapInv'
  <2>1. PICK rest, back : \E retry \in BOOLEAN : Continues(b, rest, back, retry)
    BY <1>6, AnsweredContinues
  <2>2. /\ handler' = handler /\ running' = (running /\ ~(rest = {}))
        /\ outlived' = (outlived \/ (rest = {} /\ batch[b].gen # handler /\ running))
    BY <2>1 DEF Continues, BatchContinues
  <2>3. /\ \A c \in Batch : InFlight(c)' => InFlight(c) /\ batch'[c].gen = batch[c].gen
        /\ rest = {} => ~InFlight(b)'
    BY <2>1, ContinuesBatch DEF InFlight
  <2>4. InFlight(b)
    BY <1>6 DEF Answered
  <2>5. \A c \in Batch : InFlight(c)' /\ batch'[c].gen = handler' => running'
    <3> SUFFICES ASSUME NEW c \in Batch, InFlight(c)', batch'[c].gen = handler'
                 PROVE  running'
      OBVIOUS
    <3>1. running /\ InFlight(c) /\ batch[c].gen = handler
      BY <1>1, <2>2, <2>3
    <3>2. CASE rest = {}
      <4>1. batch[b].gen = handler
        BY <2>2, <3>1, <3>2
      <4>2. b = c
        BY <1>1, <2>4, <3>1, <4>1
      <4> QED
        BY <2>3, <3>2, <4>2
    <3> QED
      BY <2>2, <3>1, <3>2
  <2>6. \A c, d \in Batch :
            InFlight(c)' /\ InFlight(d)' /\ batch'[c].gen = batch'[d].gen => c = d
    BY <1>1, <2>3
  <2> QED
    BY <2>5, <2>6 DEF OverlapInv, InFlight
<1>7. CASE UNCHANGED wVars
  BY <1>4, <1>7 DEF wVars, wakeVars
<1>8. CASE \/ \E t \in Target, r \in Reason, ms \in {0, DefaultCoalesce} : requestHeartbeatNow(t, r, ms)
           \/ TimerFindsNoHandler \/ TimerFindsBatch \/ TimerFindsNothing \/ Tick
  BY <1>4, <1>8 DEF requestHeartbeatNow, TimerFindsNoHandler, TimerFindsBatch, TimerFindsNothing, Tick
<1>9. CASE setHeartbeatWakeHandler \/ \E g \in Runner : disposeWakeHandler(g)
  BY <1>4, <1>9 DEF setHeartbeatWakeHandler, disposeWakeHandler, wVars, wakeVars
<1> QED
  BY <1>5, <1>6, <1>7, <1>8, <1>9 DEF WakeStep, TimerFires

-----------------------------------------------------------------------------
(* The pause of a busy lane.                                               *)
LEMMA CooldownStep == WakeTypeOK /\ BatchInv /\ CooldownInv /\ [WakeStep]_wVars => CooldownInv'
<1> SUFFICES ASSUME WakeTypeOK, BatchInv, CooldownInv, [WakeStep]_wVars PROVE CooldownInv'
  OBVIOUS
<1> USE DEF wakeHistory
<1>0. /\ timer \in Timers /\ timer.left \in Nat /\ pause \in Nat /\ DefaultRetry \in Nat
  BY TimerFacts, DelayAssumption DEF WakeTypeOK
<1>1. CASE UNCHANGED <<timer, pause, excused>>
  BY <1>1 DEF CooldownInv
<1>2. ASSUME NEW t \in Target, NEW r \in Reason, NEW ms \in {0, DefaultCoalesce},
             requestHeartbeatNow(t, r, ms)
      PROVE  CooldownInv'
  <2>1. timer.kind = "retry" => timer' = timer
    BY <1>0, <1>2, ScheduleFacts, DelayFacts DEF requestHeartbeatNow
  <2> QED
    BY <1>2, <2>1 DEF requestHeartbeatNow, CooldownInv
<1>3. CASE setHeartbeatWakeHandler
  BY <1>3 DEF setHeartbeatWakeHandler, CooldownInv
<1>4. ASSUME TimerFires PROVE CooldownInv'
  <2>1. timer.left = 0 /\ UNCHANGED <<pause, excused>>
    BY <1>4 DEF TimerFires, TimerFindsNoHandler, TimerFindsBatch, TimerFindsNothing, TimerStartsBatch
  <2> QED
    BY <1>0, <2>1 DEF CooldownInv
<1>5. ASSUME Tick PROVE CooldownInv'
  <2>1. /\ timer'.kind = timer.kind
        /\ timer'.left = IF timer.left > 0 THEN timer.left - 1 ELSE 0
    BY <1>0, <1>5, TickFacts
  <2>2. /\ pause' = IF pause > 0 THEN pause - 1 ELSE 0
        /\ pause' > 0 /\ ~excused' => ~excused
    BY <1>5 DEF Tick
  <2> QED
    BY <1>0, <2>1, <2>2 DEF CooldownInv
<1>6. ASSUME NEW b \in Batch, Answered(b) PROVE CooldownInv'
  <2>1. PICK rest, back : \E retry \in BOOLEAN : Continues(b, rest, back, retry)
    BY <1>6, AnsweredContinues
  <2>2. PICK retry \in BOOLEAN : Continues(b, rest, back, retry)
    BY <2>1
  <2>3. /\ pause' = IF retry /\ pause = 0 THEN DefaultRetry ELSE pause
        /\ excused' = IF retry /\ pause = 0 THEN timer # NoTimer ELSE excused
    BY <2>2 DEF Continues, BatchContinues
  <2>4. /\ timer.kind = "retry" => timer' = timer
        /\ retry /\ timer = NoTimer => timer'.kind = "retry" /\ timer'.left = DefaultRetry
    BY <2>2, ContinuesTimer
  <2>5. CASE retry /\ pause = 0
    <3>1. pause' = DefaultRetry /\ (timer # NoTimer => excused')
      BY <2>3, <2>5
    <3>2. timer = NoTimer => timer'.kind = "retry" /\ timer'.left >= DefaultRetry
      BY <1>0, <2>4, <2>5
    <3> QED
      BY <3>1, <3>2 DEF CooldownInv
  <2>6. CASE ~retry \/ pause # 0
    BY <2>3, <2>4, <2>6 DEF CooldownInv
  <2> QED
    BY <2>5, <2>6
<1>7. CASE (\E g \in Runner : disposeWakeHandler(g)) \/ UNCHANGED wVars
  BY <1>1, <1>7 DEF disposeWakeHandler, wVars, wakeVars
<1> QED
  BY <1>2, <1>3, <1>4, <1>5, <1>6, <1>7 DEF WakeStep

LEMMA StartsAfterPause ==
    ASSUME WakeTypeOK, BatchInv, CooldownInv, [WakeStep]_wVars, NEW b \in Batch,
           ~InFlight(b), InFlight(b)'
    PROVE  pause = 0 \/ excused
<1>1. batch' # batch
  BY DEF InFlight
<1>2. CASE TimerFires
  BY <1>2, TimerFacts, DelayAssumption DEF TimerFires, CooldownInv, WakeTypeOK
<1>3. ASSUME NEW c \in Batch, Answered(c) PROVE FALSE
  <2>1. PICK rest, back : \E retry \in BOOLEAN : Continues(c, rest, back, retry)
    BY <1>3, AnsweredContinues
  <2> QED
    BY <2>1, ContinuesBatch
<1>4. CASE \/ \E t \in Target, r \in Reason, ms \in {0, DefaultCoalesce} : requestHeartbeatNow(t, r, ms)
           \/ setHeartbeatWakeHandler \/ \E g \in Runner : disposeWakeHandler(g)
  BY <1>1, <1>4 DEF requestHeartbeatNow, setHeartbeatWakeHandler, disposeWakeHandler, wVars, wakeVars
<1>5. CASE Tick \/ UNCHANGED wVars
  BY <1>1, <1>5 DEF Tick, wVars, wakeVars
<1> QED
  BY <1>2, <1>3, <1>4, <1>5 DEF WakeStep

-----------------------------------------------------------------------------
(* The wake layer as a whole.                                              *)
LEMMA WakeInitial == WakeInit => WakeInv
<1> SUFFICES ASSUME WakeInit PROVE WakeInv
  OBVIOUS
<1>1. WakeTypeOK
  <2>1. NoBatch \in Batches /\ 0 \in 0..MaxGeneration /\ 0 \in 0..DefaultRetry
    BY DelayAssumption DEF Batches
  <2> QED
    BY <2>1, TimerFacts DEF WakeInit, WakeTypeOK
<1>2. \A b \in Batch : ~InFlight(b)
  BY DEF WakeInit, InFlight
<1>3. Pending = {}
  BY DEF WakeInit, Pending
<1>4. WakeKept
  BY <1>2 DEF WakeInit, WakeKept, AtLeast
<1> QED
  BY <1>1, <1>2, <1>3, <1>4 DEF WakeInit, WakeInv, BatchInv, NoWakeStuck, OverlapInv, CooldownInv

LEMMA WakeInductive == WakeInv /\ [WakeStep]_wVars => WakeInv'
BY WakeTypeStep, BatchStep, KeptStep, StuckStep, OverlapStep, CooldownStep DEF WakeInv

(* Every step of the runner is a step of the wake layer.                   *)
LEMMA NextIsWakeStep == TypeOK /\ CallInv /\ Next => [WakeStep]_wVars
<1> SUFFICES ASSUME TypeOK, CallInv, Next PROVE [WakeStep]_wVars
  OBVIOUS
<1>1. ASSUME NEW cfg \in Config, startHeartbeatRunner(cfg) PROVE WakeStep
  BY <1>1 DEF startHeartbeatRunner, WakeStep
<1>2. ASSUME NEW cfg \in Config, NEW g \in Runner, UpdateConfig(g, cfg) PROVE UNCHANGED wVars
  BY <1>2 DEF UpdateConfig
<1>3. ASSUME NEW g \in Runner, stop(g) PROVE WakeStep
  BY <1>3 DEF stop, WakeStep
<1>4. ASSUME NEW g \in Runner, RunnerTimerFires(g) PROVE WakeStep
  <2>1. Untargeted \in Target /\ "interval" \in Reason
    BY TargetAssumption
  <2> QED
    BY <1>4, <2>1 DEF RunnerTimerFires, WakeStep
<1>5. ASSUME NEW g \in Runner, NEW a \in Agent, BecomesDue(g, a) PROVE UNCHANGED wVars
  BY <1>5 DEF BecomesDue
<1>6. ASSUME NEW on \in BOOLEAN, setHeartbeatsEnabled(on) PROVE UNCHANGED wVars
  BY <1>6 DEF setHeartbeatsEnabled
<1>7. ASSUME NEW t \in Target, NEW r \in Reason, RequestWake(t, r) PROVE WakeStep
  BY <1>7 DEF RequestWake, WakeStep
<1>8. ASSUME NEW b \in Batch, RunStep(b) PROVE [WakeStep]_wVars
  <2>1. ASSUME NEW t \in Target, RunRefused(b, t) \/ RunFindsNone(b, t) PROVE Answered(b)
    BY <2>1 DEF RunRefused, RunFindsNone, RunAccepted, Answered
  <2>2. ASSUME NEW t \in Target, NEW a \in Agent, RunStarts(b, t, a) PROVE UNCHANGED wVars
    BY <2>2 DEF RunStarts
  <2>3. ASSUME Awaited(b), RunContinues(b) PROVE Answered(b) \/ UNCHANGED wVars
    BY <2>3 DEF RunContinues, CallInv, Answered
  <2>4. ASSUME RunOnceBusy(b) \/ RunThrows(b) PROVE Answered(b)
    BY <2>4 DEF RunOnceBusy, RunThrows, CallInv, Answered
  <2> QED
    BY <1>8, <2>1, <2>2, <2>3, <2>4 DEF RunStep, RunOnceAnswers, RunOnceDisabled, WakeStep
<1>9. CASE WakeTimer \/ WakeTick
  BY <1>9 DEF WakeTimer, WakeTick, WakeStep
<1> QED
  BY <1>1, <1>2, <1>3, <1>4, <1>5, <1>6, <1>7, <1>8, <1>9 DEF Next

-----------------------------------------------------------------------------
(* Types of the runners.                                                   *)
RunnerTypeOK ==
    /\ heartbeatsEnabled \in BOOLEAN
    /\ runner \in [Runner -> {"none", "up", "stopped"}]
    /\ agents \in [Runner -> SUBSET Agent]
    /\ due \in [Runner -> SUBSET Agent]
    /\ runnerTimer \in [Runner -> BOOLEAN]
    /\ call \in [Batch -> Calls]
    /\ inputs \in 0..MaxInputs
    /\ unarmed \in [Runner -> BOOLEAN]

LEMMA TypeParts == TypeOK <=> WakeTypeOK /\ RunnerTypeOK
BY DEF TypeOK, RunnerTypeOK

(* A run that is awaited.                                                  *)
LEMMA CallFacts ==
    ASSUME RunnerTypeOK, NEW b \in Batch, Awaited(b)
    PROVE  /\ call[b] \in [target : Target, todo : SUBSET Agent, agent : Agent, stale : BOOLEAN]
           /\ call[b].target \in Target /\ call[b].todo \subseteq Agent
BY DEF RunnerTypeOK, Calls, Awaited

(* scheduleNext.                                                           *)
LEMMA ScheduleNextFacts ==
    ASSUME RunnerTypeOK, NEW g \in Runner, scheduleNext(g)
    PROVE  /\ runnerTimer' \in [Runner -> BOOLEAN] /\ unarmed' \in [Runner -> BOOLEAN]
           /\ runner'[g] = "up" /\ agents'[g] # {} => runnerTimer'[g]
           /\ \A h \in Runner \ {g} : runnerTimer'[h] = runnerTimer[h] /\ unarmed'[h] = unarmed[h]
<1> DEFINE armed == IF runner'[g] = "up" THEN agents'[g] # {} ELSE runnerTimer[g]
           missed == IF runner'[g] = "up" THEN FALSE ELSE unarmed[g]
<1>1. runnerTimer \in [Runner -> BOOLEAN] /\ unarmed \in [Runner -> BOOLEAN]
  BY DEF RunnerTypeOK
<1>2. runnerTimer' = [runnerTimer EXCEPT ![g] = armed] /\ unarmed' = [unarmed EXCEPT ![g] = missed]
  BY DEF scheduleNext
<1>3. armed \in BOOLEAN
  <2>1. runnerTimer[g] \in BOOLEAN /\ (agents'[g] # {}) \in BOOLEAN
    BY <1>1
  <2> QED
    BY <2>1
<1>4. missed \in BOOLEAN
  BY <1>1
<1>5. runner'[g] = "up" /\ agents'[g] # {} => armed = TRUE
  OBVIOUS
<1> HIDE DEF armed, missed
<1> QED
  BY <1>1, <1>2, <1>3, <1>4, <1>5

LEMMA UpdateConfigFacts ==
    ASSUME RunnerTypeOK, NEW g \in Runner, NEW cfg \in Config, updateConfig(g, cfg)
    PROVE  /\ agents' \in [Runner -> SUBSET Agent] /\ agents'[g] = cfg
           /\ due' \in [Runner -> SUBSET Agent]
           /\ call' \in [Batch -> Calls]
           /\ \A b \in Batch : Awaited(b)' => Awaited(b) /\ call'[b].target = call[b].target
<1>1. cfg \in SUBSET Agent
  BY TargetAssumption
<1>2. agents' = [agents EXCEPT ![g] = cfg] /\ due' = [due EXCEPT ![g] = {}]
  BY DEF updateConfig
<1>3. ASSUME NEW b \in Batch
      PROVE  /\ call'[b] \in Calls
             /\ Awaited(b)' => Awaited(b) /\ call'[b].target = call[b].target
  <2>1. call'[b] = IF call[b] # NoCall /\ batch[b].gen = g
                   THEN [call[b] EXCEPT !.stale = TRUE] ELSE call[b]
    BY DEF updateConfig
  <2>2. CASE Awaited(b)
    <3>1. /\ [call[b] EXCEPT !.stale = TRUE]
               \in [target : Target, todo : SUBSET Agent, agent : Agent, stale : BOOLEAN]
          /\ [call[b] EXCEPT !.stale = TRUE].target = call[b].target
      BY <2>2, CallFacts
    <3> QED
      BY <2>1, <2>2, <3>1, CallFacts DEF Calls
  <2>3. CASE ~Awaited(b)
    BY <2>1, <2>3 DEF Awaited, RunnerTypeOK
  <2> QED
    BY <2>2, <2>3
<1>4. call' \in [Batch -> Calls]
  BY <1>3 DEF updateConfig
<1> QED
  BY <1>1, <1>2, <1>3, <1>4 DEF RunnerTypeOK

(* The agents a run asks.                                                  *)
LEMMA RunAgentsType ==
    ASSUME RunnerTypeOK, NEW g \in Runner, NEW t, NEW r
    PROVE  RunAgents(g, t, r) \subseteq Agent
BY DEF RunAgents, RunnerTypeOK

(* A run goes on with another agent, or is over.                           *)
LEMMA ContinueFacts ==
    ASSUME RunnerTypeOK, NEW b \in Batch, Awaited(b), RunContinues(b)
    PROVE  \/ /\ HandlerDone(b, call[b].target)
              /\ call' = [call EXCEPT ![b] = NoCall]
              /\ UNCHANGED <<runner, agents>>
              /\ scheduleNext(RunnerOf(b))
           \/ /\ UNCHANGED <<wVars, runner, agents, runnerTimer, unarmed>>
              /\ call' \in [Batch -> Calls]
              /\ \A c \in Batch \ {b} : call'[c] = call[c]
              /\ Awaited(b)' /\ call'[b].target = call[b].target
<1>1. CASE NextAgents(b) = {}
  BY <1>1 DEF RunContinues
<1>2. CASE NextAgents(b) # {}
  <2>1. PICK a \in NextAgents(b) :
            call' = [call EXCEPT ![b] = [call[b] EXCEPT !.todo = NextAgents(b) \ {a}, !.agent = a]]
    BY <1>2 DEF RunContinues
  <2>2. NextAgents(b) \subseteq call[b].todo
    BY DEF NextAgents
  <2> DEFINE new == [call[b] EXCEPT !.todo = NextAgents(b) \ {a}, !.agent = a]
  <2>3. /\ call[b] \in [target : Target, todo : SUBSET Agent, agent : Agent, stale : BOOLEAN]
        /\ a \in Agent /\ NextAgents(b) \ {a} \in SUBSET Agent
    BY <2>2, CallFacts
  <2>4. /\ new \in [target : Target, todo : SUBSET Agent, agent : Agent, stale : BOOLEAN]
        /\ new.target = call[b].target /\ new.agent = a
    BY <2>3
  <2>5. new \in Calls /\ new # NoCall
    BY <2>4 DEF Calls, NoCall
  <2> HIDE DEF new
  <2>6. /\ call' \in [Batch -> Calls] /\ call'[b] = new
        /\ \A c \in Batch \ {b} : call'[c] = call[c]
    BY <2>1, <2>5 DEF RunnerTypeOK, new
  <2> QED
    BY <1>2, <2>4, <2>5, <2>6 DEF RunContinues, Awaited
<1> QED
  BY <1>1, <1>2

LEMMA RunnerOfType ==
    ASSUME WakeTypeOK, NEW b \in Batch, InFlight(b)
    PROVE  RunnerOf(b) \in Runner
BY BatchFacts DEF RunnerOf, Runner

LEMMA RunnerTypeStep == TypeOK /\ CallInv /\ Next => RunnerTypeOK'
<1> SUFFICES ASSUME TypeOK, CallInv, Next PROVE RunnerTypeOK'
  OBVIOUS
<1>0. /\ WakeTypeOK /\ RunnerTypeOK
      /\ heartbeatsEnabled \in BOOLEAN /\ runner \in [Runner -> {"none", "up", "stopped"}]
      /\ agents \in [Runner -> SUBSET Agent] /\ due \in [Runner -> SUBSET Agent]
      /\ runnerTimer \in [Runner -> BOOLEAN] /\ call \in [Batch -> Calls]
      /\ inputs \in 0..MaxInputs /\ unarmed \in [Runner -> BOOLEAN]
      /\ MaxInputs \in Nat
  BY TypeParts, TargetAssumption DEF RunnerTypeOK
<1>1. ASSUME NEW cfg \in Config, startHeartbeatRunner(cfg) PROVE RunnerTypeOK'
  <2> DEFINE g == handlerGeneration'
  <2>1. g \in Runner
    BY <1>0, <1>1, DelayAssumption DEF startHeartbeatRunner, setHeartbeatWakeHandler, WakeTypeOK, Runner
  <2>2. /\ updateConfig(g, cfg) /\ scheduleNext(g)
        /\ runner' = [runner EXCEPT ![g] = "up"] /\ UNCHANGED heartbeatsEnabled
        /\ inputs' = inputs \/ (inputs < MaxInputs /\ inputs' = inputs + 1)
    BY <1>1 DEF startHeartbeatRunner, updateConfig, Input
  <2> HIDE DEF g
  <2>3. runner' \in [Runner -> {"none", "up", "stopped"}]
    BY <1>0, <2>2
  <2>4. inputs' \in 0..MaxInputs
    BY <1>0, <2>2
  <2> QED
    BY <1>0, <2>1, <2>2, <2>3, <2>4, UpdateConfigFacts, ScheduleNextFacts DEF RunnerTypeOK
<1>2. ASSUME NEW cfg \in Config, NEW g \in Runner, UpdateConfig(g, cfg) PROVE RunnerTypeOK'
  <2>1. /\ updateConfig(g, cfg) /\ scheduleNext(g) /\ UNCHANGED <<runner, heartbeatsEnabled>>
        /\ inputs < MaxInputs /\ inputs' = inputs + 1
    BY <1>2 DEF UpdateConfig, updateConfig, Input
  <2>2. inputs' \in 0..MaxInputs
    BY <1>0, <2>1
  <2> QED
    BY <1>0, <2>1, <2>2, UpdateConfigFacts, ScheduleNextFacts DEF RunnerTypeOK
<1>3. ASSUME NEW g \in Runner, stop(g) PROVE RunnerTypeOK'
  BY <1>0, <1>3 DEF stop, RunnerTypeOK
<1>4. ASSUME NEW g \in Runner, RunnerTimerFires(g) PROVE RunnerTypeOK'
  BY <1>0, <1>4 DEF RunnerTimerFires, RunnerTypeOK
<1>5. ASSUME NEW g \in Runner, NEW a \in Agent, BecomesDue(g, a) PROVE RunnerTypeOK'
  BY <1>0, <1>5 DEF BecomesDue, RunnerTypeOK
<1>6. ASSUME NEW on \in BOOLEAN, setHeartbeatsEnabled(on) PROVE RunnerTypeOK'
  BY <1>0, <1>6 DEF setHeartbeatsEnabled, Input, RunnerTypeOK
<1>7. ASSUME NEW t \in Target, NEW r \in Reason, RequestWake(t, r) PROVE RunnerTypeOK'
  BY <1>0, <1>7 DEF RequestWake, Input, RunnerTypeOK
<1>8. ASSUME NEW b \in Batch, NEW t \in Target, RunRefused(b, t) PROVE RunnerTypeOK'
  <2> DEFINE missed == unarmed[RunnerOf(b)]
                       \/ (runner[RunnerOf(b)] = "up" /\ ~heartbeatsEnabled)
  <2>1. unarmed' = [unarmed EXCEPT ![RunnerOf(b)] = missed]
    BY <1>8 DEF RunRefused
  <2>2. RunnerOf(b) \in Runner
    BY <1>0, <1>8, RunnerOfType DEF RunRefused
  <2>3. missed \in BOOLEAN
    BY <1>0, <2>2
  <2> HIDE DEF missed
  <2>4. unarmed' \in [Runner -> BOOLEAN]
    BY <1>0, <2>1, <2>3
  <2>5. UNCHANGED <<heartbeatsEnabled, runner, agents, due, runnerTimer, call, inputs>>
    BY <1>8 DEF RunRefused
  <2> QED
    BY <1>0, <2>4, <2>5 DEF RunnerTypeOK
<1>9. ASSUME NEW b \in Batch, NEW t \in Target, RunFindsNone(b, t) PROVE RunnerTypeOK'
  <2>1. RunnerOf(b) \in Runner
    BY <1>0, <1>9, RunnerOfType DEF RunFindsNone, RunAccepted
  <2> QED
    BY <1>0, <1>9, <2>1, ScheduleNextFacts DEF RunFindsNone, RunnerTypeOK
<1>10. ASSUME NEW b \in Batch, NEW t \in Target, NEW a \in Agent, RunStarts(b, t, a)
       PROVE  RunnerTypeOK'
  <2> DEFINE asked == RunAgents(RunnerOf(b), t, batch[b].item[t])
             new == [target |-> t, todo |-> asked \ {a}, agent |-> a, stale |-> FALSE]
  <2>1. RunnerOf(b) \in Runner
    BY <1>0, <1>10, RunnerOfType DEF RunStarts, RunAccepted
  <2>2. asked \subseteq Agent
    BY <1>0, <2>1, RunAgentsType
  <2>3. call' = [call EXCEPT ![b] = new]
    BY <1>10 DEF RunStarts
  <2>4. new \in Calls
    BY <2>2 DEF Calls
  <2> HIDE DEF new, asked
  <2>5. call' \in [Batch -> Calls]
    BY <1>0, <2>3, <2>4
  <2>6. UNCHANGED <<heartbeatsEnabled, runner, agents, due, runnerTimer, inputs, unarmed>>
    BY <1>10 DEF RunStarts
  <2> QED
    BY <1>0, <2>5, <2>6 DEF RunnerTypeOK
<1>11. NoCall \in Calls
  BY DEF Calls
<1>12. ASSUME NEW b \in Batch, RunContinues(b), Awaited(b), due' \in [Runner -> SUBSET Agent],
              RunnerOf(b) \in Runner, UNCHANGED <<heartbeatsEnabled, inputs>>
       PROVE  RunnerTypeOK'
  <2>1. CASE /\ call' = [call EXCEPT ![b] = NoCall]
             /\ UNCHANGED <<runner, agents>>
             /\ scheduleNext(RunnerOf(b))
    BY <1>0, <1>11, <1>12, <2>1, ScheduleNextFacts DEF RunnerTypeOK
  <2>2. CASE /\ UNCHANGED <<wVars, runner, agents, runnerTimer, unarmed>>
             /\ call' \in [Batch -> Calls]
    BY <1>0, <1>12, <2>2 DEF RunnerTypeOK
  <2> QED
    BY <1>0, <1>12, <2>1, <2>2, ContinueFacts
<1>13. ASSUME NEW b \in Batch, advanceAgentSchedule(b) PROVE due' \in [Runner -> SUBSET Agent]
  BY <1>0, <1>13 DEF advanceAgentSchedule
<1>14. ASSUME NEW b \in Batch, Awaited(b) PROVE RunnerOf(b) \in Runner
  BY <1>0, <1>14, RunnerOfType DEF CallInv
<1>15. ASSUME NEW b \in Batch, RunOnceAnswers(b) \/ RunOnceDisabled(b) PROVE RunnerTypeOK'
  <2>1. Awaited(b) /\ RunContinues(b) /\ UNCHANGED <<heartbeatsEnabled, inputs>>
    BY <1>15 DEF RunOnceAnswers, RunOnceDisabled
  <2>2. due' \in [Runner -> SUBSET Agent]
    BY <1>0, <1>13, <1>15 DEF RunOnceAnswers, RunOnceDisabled
  <2> QED
    BY <1>12, <1>14, <2>1, <2>2
<1>16. ASSUME NEW b \in Batch, RunOnceBusy(b) PROVE RunnerTypeOK'
  <2>1. Awaited(b) /\ call' = [call EXCEPT ![b] = NoCall]
        /\ UNCHANGED <<heartbeatsEnabled, runner, agents, inputs>>
    BY <1>16 DEF RunOnceBusy
  <2>2. call' \in [Batch -> Calls]
    BY <1>0, <1>11, <2>1
  <2>3. CASE UNCHANGED <<due, runnerTimer, unarmed>>
    BY <1>0, <2>1, <2>2, <2>3 DEF RunnerTypeOK
  <2>4. CASE advanceAgentSchedule(b) /\ scheduleNext(RunnerOf(b))
    BY <1>0, <1>13, <1>14, <2>1, <2>2, <2>4, ScheduleNextFacts DEF RunnerTypeOK
  <2> QED
    BY <1>16, <2>3, <2>4 DEF RunOnceBusy
<1>17. ASSUME NEW b \in Batch, RunThrows(b) PROVE RunnerTypeOK'
  <2>1. Awaited(b) /\ call' = [call EXCEPT ![b] = NoCall] /\ scheduleNext(RunnerOf(b))
        /\ UNCHANGED <<heartbeatsEnabled, runner, agents, due, inputs>>
    BY <1>17 DEF RunThrows
  <2>2. call' \in [Batch -> Calls]
    BY <1>0, <1>11, <2>1
  <2> QED
    BY <1>0, <1>14, <2>1, <2>2, ScheduleNextFacts DEF RunnerTypeOK
<1>18. CASE WakeTimer \/ WakeTick
  BY <1>0, <1>18 DEF WakeTimer, WakeTick, runnerVars, RunnerTypeOK
<1> QED
  BY <1>1, <1>2, <1>3, <1>4, <1>5, <1>6, <1>7, <1>8, <1>9, <1>10, <1>15, <1>16, <1>17, <1>18
  DEF Next, RunStep

-----------------------------------------------------------------------------
(* Runs and their batches.                                                 *)
LEMMA CallStep == TypeOK /\ BatchInv /\ CallInv /\ Next => CallInv'
<1> SUFFICES ASSUME TypeOK, BatchInv, CallInv, Next PROVE CallInv'
  OBVIOUS
<1>0. /\ WakeTypeOK /\ RunnerTypeOK /\ call \in [Batch -> Calls] /\ batch \in [Batch -> Batches]
  BY TypeParts DEF RunnerTypeOK, WakeTypeOK
<1>1. ASSUME UNCHANGED <<batch, call>> PROVE CallInv'
  BY <1>1 DEF CallInv, Awaited, InFlight
<1>2. ASSUME batch' = batch,
             \A b \in Batch : Awaited(b)' => Awaited(b) /\ call'[b].target = call[b].target
      PROVE  CallInv'
  BY <1>2 DEF CallInv, InFlight
<1>3. ASSUME NEW b \in Batch, ~Awaited(b)', \A c \in Batch \ {b} : call'[c] = call[c],
             \A c \in Batch \ {b} : batch'[c] = batch[c]
      PROVE  CallInv'
  BY <1>3 DEF CallInv, InFlight, Awaited
<1>4. ASSUME NEW b \in Batch, Answered(b) PROVE \A c \in Batch \ {b} : batch'[c] = batch[c]
  <2>1. PICK rest, back : \E retry \in BOOLEAN : Continues(b, rest, back, retry)
    BY <1>0, <1>4, AnsweredContinues
  <2> QED
    BY <1>0, <2>1, ContinuesBatch
<1>5. ASSUME NEW b \in Batch, Awaited(b), call' = [call EXCEPT ![b] = NoCall],
             HandlerDone(b, call[b].target) \/ HandlerBusy(b, call[b].target) \/ HandlerThrows(b)
      PROVE  CallInv'
  <2>1. Answered(b)
    BY <1>5 DEF CallInv, Answered
  <2>2. ~Awaited(b)' /\ \A c \in Batch \ {b} : call'[c] = call[c]
    BY <1>0, <1>5 DEF Awaited
  <2> QED
    BY <1>3, <1>4, <2>1, <2>2
<1>6. ASSUME NEW cfg \in Config, startHeartbeatRunner(cfg) PROVE CallInv'
  <2>1. handlerGeneration' \in Runner
    BY <1>0, <1>6, DelayAssumption
    DEF startHeartbeatRunner, setHeartbeatWakeHandler, WakeTypeOK, Runner
  <2>2. batch' = batch /\ updateConfig(handlerGeneration', cfg)
    BY <1>6 DEF startHeartbeatRunner, setHeartbeatWakeHandler
  <2> DEFINE g == handlerGeneration'
  <2> HIDE DEF g
  <2> QED
    BY <1>0, <1>2, <2>1, <2>2, UpdateConfigFacts
<1>7. ASSUME NEW cfg \in Config, NEW g \in Runner, UpdateConfig(g, cfg) PROVE CallInv'
  BY <1>0, <1>2, <1>7, UpdateConfigFacts DEF UpdateConfig, wVars, wakeVars
<1>8. ASSUME NEW b \in Batch, NEW t \in Target, RunRefused(b, t) \/ RunFindsNone(b, t)
      PROVE  CallInv'
  <2>1. Answered(b) /\ ~Awaited(b) /\ call' = call
    BY <1>8 DEF RunRefused, RunFindsNone, RunAccepted, Answered
  <2>2. ~Awaited(b)'
    BY <2>1 DEF Awaited
  <2> QED
    BY <1>3, <1>4, <2>1, <2>2
<1>9. ASSUME NEW b \in Batch, NEW t \in Target, NEW a \in Agent, RunStarts(b, t, a)
      PROVE  CallInv'
  <2>1. /\ InFlight(b) /\ t \in batch[b].rest /\ batch' = batch
        /\ call'[b].target = t /\ \A c \in Batch \ {b} : call'[c] = call[c]
    BY <1>0, <1>9 DEF RunStarts, RunAccepted, wVars, wakeVars
  <2> QED
    BY <2>1 DEF CallInv, InFlight, Awaited
<1>10. ASSUME NEW b \in Batch, Awaited(b), RunContinues(b) PROVE CallInv'
  <2>1. CASE HandlerDone(b, call[b].target) /\ call' = [call EXCEPT ![b] = NoCall]
    BY <1>5, <1>10, <2>1
  <2>2. CASE /\ UNCHANGED wVars
             /\ \A c \in Batch \ {b} : call'[c] = call[c]
             /\ Awaited(b)' /\ call'[b].target = call[b].target
    <3>1. \A c \in Batch : Awaited(c)' => Awaited(c) /\ call'[c].target = call[c].target
      BY <1>10, <2>2 DEF Awaited
    <3> QED
      BY <1>2, <2>2, <3>1 DEF wVars, wakeVars
  <2> QED
    BY <1>0, <1>10, <2>1, <2>2, ContinueFacts
<1>11. ASSUME NEW b \in Batch, RunStep(b) PROVE CallInv'
  BY <1>5, <1>8, <1>9, <1>10, <1>11
  DEF RunStep, RunOnceAnswers, RunOnceDisabled, RunOnceBusy, RunThrows
<1>12. ASSUME NEW b \in Batch, TimerStartsBatch(b), call' = call PROVE CallInv'
  <2>1. ~InFlight(b) /\ \A c \in Batch \ {b} : batch'[c] = batch[c]
    BY <1>0, <1>12, StartFacts
  <2>2. ~Awaited(b)'
    BY <1>12, <2>1 DEF CallInv, Awaited
  <2> QED
    BY <1>3, <1>12, <2>1, <2>2
<1>13. CASE WakeTimer \/ WakeTick
  <2>1. CASE TimerFindsNoHandler \/ TimerFindsBatch \/ TimerFindsNothing \/ Tick
    BY <1>1, <1>13, <2>1 DEF TimerFindsNoHandler, TimerFindsBatch, TimerFindsNothing, Tick,
                             WakeTimer, WakeTick, runnerVars
  <2> QED
    BY <1>12, <1>13, <2>1 DEF WakeTimer, WakeTick, TimerFires, runnerVars
<1>14. ASSUME NEW g \in Runner, stop(g) PROVE CallInv'
  BY <1>1, <1>14 DEF stop, disposeWakeHandler, wVars, wakeVars
<1>15. ASSUME NEW g \in Runner, RunnerTimerFires(g) \/ \E a \in Agent : BecomesDue(g, a)
       PROVE  CallInv'
  BY <1>1, <1>15 DEF RunnerTimerFires, BecomesDue, requestHeartbeatNow, wVars, wakeVars
<1>16. CASE (\E on \in BOOLEAN : setHeartbeatsEnabled(on)) \/ \E t \in Target, r \in Reason : RequestWake(t, r)
  BY <1>1, <1>16 DEF setHeartbeatsEnabled, RequestWake, requestHeartbeatNow, wVars, wakeVars
<1> QED
  BY <1>6, <1>7, <1>11, <1>13, <1>14, <1>15, <1>16 DEF Next

-----------------------------------------------------------------------------
(* The chain.                                                              *)

(* A step that leaves the handler and the runners alone, or registers a    *)
(* runner that is up, or takes the handler away.                           *)
LEMMA HandlerCases ==
    ASSUME TypeOK, BatchInv, Next
    PROVE  \/ UNCHANGED <<handler, runner>>
           \/ handler' # 0 /\ runner'[handler'] = "up"
           \/ handler' = 0
           \/ \E g \in Runner : /\ stop(g) /\ g # handler
                                /\ UNCHANGED wVars /\ runner' = [runner EXCEPT ![g] = "stopped"]
<1>0. WakeTypeOK /\ runner \in [Runner -> {"none", "up", "stopped"}]
  BY DEF TypeOK
<1>1. ASSUME NEW cfg \in Config, startHeartbeatRunner(cfg)
      PROVE  handler' # 0 /\ runner'[handler'] = "up"
  <2>1. handler' = handlerGeneration' /\ handler' \in Runner
    BY <1>0, <1>1, DelayAssumption
    DEF startHeartbeatRunner, setHeartbeatWakeHandler, WakeTypeOK, Runner
  <2>2. runner' = [runner EXCEPT ![handler'] = "up"]
    BY <1>1, <2>1 DEF startHeartbeatRunner
  <2> QED
    BY <1>0, <2>1, <2>2 DEF Runner
<1>2. ASSUME NEW g \in Runner, stop(g)
      PROVE  \/ handler' = 0
             \/ /\ g # handler /\ UNCHANGED wVars
                /\ runner' = [runner EXCEPT ![g] = "stopped"]
  <2>1. g = handler => handlerGeneration = g
    BY DEF BatchInv, Runner
  <2> QED
    BY <1>2, <2>1 DEF stop, disposeWakeHandler
<1>3. ASSUME NEW b \in Batch, RunStep(b) PROVE UNCHANGED <<handler, runner>>
  <2>1. ASSUME RunContinues(b) PROVE UNCHANGED <<handler, runner>>
    BY <2>1 DEF RunContinues, HandlerDone, BatchContinues, wVars, wakeVars
  <2>2. ASSUME NEW t \in Target, RunRefused(b, t) \/ RunFindsNone(b, t)
        PROVE  UNCHANGED <<handler, runner>>
    BY <2>2 DEF RunRefused, RunFindsNone, HandlerDone, BatchContinues
  <2>3. ASSUME NEW t \in Target, NEW a \in Agent, RunStarts(b, t, a)
        PROVE  UNCHANGED <<handler, runner>>
    BY <2>3 DEF RunStarts, wVars, wakeVars
  <2>4. ASSUME RunOnceBusy(b) \/ RunThrows(b) PROVE UNCHANGED <<handler, runner>>
    BY <2>4 DEF RunOnceBusy, RunThrows, HandlerBusy, HandlerThrows, BatchContinues
  <2> QED
    BY <1>3, <2>1, <2>2, <2>3, <2>4 DEF RunStep, RunOnceAnswers, RunOnceDisabled
<1>4. CASE WakeTimer \/ WakeTick
  BY <1>4 DEF WakeTimer, WakeTick, runnerVars, TimerFires, TimerFindsNoHandler, TimerFindsBatch,
              TimerFindsNothing, TimerStartsBatch, Tick
<1>5. ASSUME NEW cfg \in Config, NEW g \in Runner, UpdateConfig(g, cfg)
      PROVE  UNCHANGED <<handler, runner>>
  BY <1>5 DEF UpdateConfig, wVars, wakeVars
<1>6. ASSUME NEW g \in Runner, RunnerTimerFires(g) \/ \E a \in Agent : BecomesDue(g, a)
      PROVE  UNCHANGED <<handler, runner>>
  BY <1>6 DEF RunnerTimerFires, BecomesDue, requestHeartbeatNow, wVars, wakeVars
<1>7. CASE (\E on \in BOOLEAN : setHeartbeatsEnabled(on)) \/ \E t \in Target, r \in Reason : RequestWake(t, r)
  BY <1>7 DEF setHeartbeatsEnabled, RequestWake, requestHeartbeatNow, wVars, wakeVars
<1> QED
  BY <1>1, <1>2, <1>3, <1>4, <1>5, <1>6, <1>7 DEF Next

LEMMA RunnerUpStep == TypeOK /\ BatchInv /\ RunnerInv /\ Next => RunnerInv'
<1> SUFFICES ASSUME TypeOK, BatchInv, RunnerInv, Next PROVE RunnerInv'
  OBVIOUS
<1>1. CASE UNCHANGED <<handler, runner>>
  BY <1>1 DEF RunnerInv
<1>2. CASE (handler' # 0 /\ runner'[handler'] = "up") \/ handler' = 0
  BY <1>2 DEF RunnerInv
<1>3. ASSUME NEW g \in Runner, g # handler, UNCHANGED wVars,
             runner' = [runner EXCEPT ![g] = "stopped"]
      PROVE  RunnerInv'
  <2>1. handler' = handler
    BY <1>3 DEF wVars, wakeVars
  <2>2. handler # 0 => handler \in Runner
    BY DelayAssumption DEF TypeOK, WakeTypeOK, Runner
  <2> QED
    BY <1>3, <2>1, <2>2 DEF RunnerInv, TypeOK
<1> QED
  BY <1>1, <1>2, <1>3, HandlerCases

(* What keeps the chain of a runner alive.                                 *)
Carries(b, g) == InFlight(b) /\ RunnerOf(b) = g /\ (Untargeted \in batch[b].rest \/ Awaited(b))

LEMMA ChainKept ==
    ASSUME TypeOK, IntervalChainAlive, UNCHANGED <<handler, agents>>,
           \A g \in Runner : runnerTimer[g] => runnerTimer'[g],
           \A g \in Runner : unarmed[g] => unarmed'[g],
           pendingWakes[Untargeted] # NoReason => pendingWakes'[Untargeted] # NoReason,
           \A b \in Batch, g \in Runner : Carries(b, g) => Carries(b, g)'
    PROVE  IntervalChainAlive'
<1> SUFFICES ASSUME NEW g \in Runner, handler' = g, agents'[g] # {}
             PROVE  \/ runnerTimer'[g] \/ pendingWakes'[Untargeted] # NoReason
                    \/ \E b \in Batch : Carries(b, g)'
                    \/ unarmed'[g]
  BY DEF IntervalChainAlive, Carries, RunnerOf, InFlight, Awaited
<1>1. \/ runnerTimer[g] \/ pendingWakes[Untargeted] # NoReason
      \/ \E b \in Batch : Carries(b, g)
      \/ unarmed[g]
  BY DEF IntervalChainAlive, Carries
<1> QED
  BY <1>1

(* A run that ends arms the timer of its runner.                           *)
LEMMA ChainScheduled ==
    ASSUME TypeOK, BatchInv, RunnerInv, IntervalChainAlive, NEW b \in Batch, Answered(b),
           UNCHANGED <<runner, agents>>, scheduleNext(RunnerOf(b)),
           \A c \in Batch \ {b} : call'[c] = call[c]
    PROVE  IntervalChainAlive'
<1> SUFFICES ASSUME NEW g \in Runner, handler' = g, agents'[g] # {}
             PROVE  \/ runnerTimer'[g] \/ pendingWakes'[Untargeted] # NoReason
                    \/ \E c \in Batch : Carries(c, g)'
                    \/ unarmed'[g]
  BY DEF IntervalChainAlive, Carries, RunnerOf, InFlight, Awaited
<1>0. WakeTypeOK /\ RunnerTypeOK
  BY TypeParts
<1>1. PICK rest, back : \E retry \in BOOLEAN : Continues(b, rest, back, retry)
  BY <1>0, AnsweredContinues
<1>2. /\ \A c \in Batch \ {b} : batch'[c] = batch[c]
      /\ \A t \in Target : pendingWakes[t] # NoReason => pendingWakes'[t] # NoReason
  BY <1>0, <1>1, ContinuesBatch, ContinuesPending
<1>3. handler' = handler /\ InFlight(b)
  BY <1>1 DEF Continues, BatchContinues
<1>4. RunnerOf(b) \in Runner
  BY <1>0, <1>3, RunnerOfType
<1>5. CASE g = RunnerOf(b)
  <2>1. runner'[g] = "up"
    BY <1>3 DEF RunnerInv, Runner
  <2> QED
    BY <1>0, <1>4, <1>5, <2>1, ScheduleNextFacts
<1>6. CASE g # RunnerOf(b)
  <2>1. runnerTimer'[g] = runnerTimer[g] /\ unarmed'[g] = unarmed[g]
    BY <1>0, <1>4, <1>6, ScheduleNextFacts
  <2>2. \A c \in Batch : Carries(c, g) => Carries(c, g)'
    BY <1>2, <1>6 DEF Carries, InFlight, RunnerOf, Awaited
  <2>3. \/ runnerTimer[g] \/ pendingWakes[Untargeted] # NoReason
        \/ \E c \in Batch : Carries(c, g)
        \/ unarmed[g]
    BY <1>3 DEF IntervalChainAlive, Carries
  <2> QED
    BY <1>2, <2>1, <2>2, <2>3, TargetAssumption
<1> QED
  BY <1>5, <1>6

LEMMA ChainStep ==
    ASSUME TypeOK, BatchInv, CallInv, RunnerInv, IntervalChainAlive, Next
    PROVE  IntervalChainAlive'
<1>0. /\ WakeTypeOK /\ RunnerTypeOK /\ agents \in [Runner -> SUBSET Agent]
      /\ call \in [Batch -> Calls]
      /\ runnerTimer \in [Runner -> BOOLEAN] /\ unarmed \in [Runner -> BOOLEAN]
      /\ pendingWakes \in [Target -> Reason \cup {NoReason}] /\ Untargeted \in Target
  BY TypeParts, TargetAssumption DEF RunnerTypeOK, WakeTypeOK
<1>1. ASSUME NEW cfg \in Config, startHeartbeatRunner(cfg) PROVE IntervalChainAlive'
  <2> DEFINE g == handlerGeneration'
  <2>1. handler' = g /\ g \in Runner
    BY <1>0, <1>1, DelayAssumption
    DEF startHeartbeatRunner, setHeartbeatWakeHandler, WakeTypeOK, Runner
  <2>2. scheduleNext(g)
    BY <1>1 DEF startHeartbeatRunner, updateConfig
  <2>3. runner'[g] = "up"
    BY <1>0, <1>1, <2>1 DEF startHeartbeatRunner, RunnerTypeOK
  <2> HIDE DEF g
  <2>4. agents'[g] # {} => runnerTimer'[g]
    BY <1>0, <2>1, <2>2, <2>3, ScheduleNextFacts
  <2> QED
    BY <2>1, <2>4 DEF IntervalChainAlive
<1>2. ASSUME NEW cfg \in Config, NEW g \in Runner, UpdateConfig(g, cfg) PROVE IntervalChainAlive'
  <2>1. /\ scheduleNext(g) /\ runner'[g] = "up" /\ updateConfig(g, cfg)
        /\ UNCHANGED <<handler, pendingWakes, batch>>
    BY <1>2 DEF UpdateConfig, updateConfig, wVars, wakeVars
  <2>2. agents'[g] # {} => runnerTimer'[g]
    BY <1>0, <2>1, ScheduleNextFacts
  <2> SUFFICES ASSUME NEW h \in Runner, h # g, handler' = h, agents'[h] # {}
               PROVE  \/ runnerTimer'[h] \/ pendingWakes'[Untargeted] # NoReason
                      \/ \E c \in Batch : Carries(c, h)'
                      \/ unarmed'[h]
    BY <2>2 DEF IntervalChainAlive, Carries, RunnerOf, InFlight, Awaited
  <2>3. runnerTimer'[h] = runnerTimer[h] /\ unarmed'[h] = unarmed[h]
    BY <1>0, <2>1, ScheduleNextFacts
  <2>4. agents'[h] = agents[h] /\ \A c \in Batch : Carries(c, h) => Carries(c, h)'
    BY <1>0, <2>1 DEF updateConfig, Carries, RunnerOf, InFlight, Awaited
  <2>5. \/ runnerTimer[h] \/ pendingWakes[Untargeted] # NoReason
        \/ \E c \in Batch : Carries(c, h)
        \/ unarmed[h]
    BY <2>1, <2>4 DEF IntervalChainAlive, Carries
  <2> QED
    BY <2>1, <2>3, <2>4, <2>5
<1>3. ASSUME NEW g \in Runner, stop(g) PROVE IntervalChainAlive'
  <2>1. CASE handler' = 0
    BY <2>1 DEF IntervalChainAlive, Runner
  <2>2. CASE handler' # 0
    <3>1. UNCHANGED wVars /\ g # handler
      BY <1>3, <2>2 DEF stop, disposeWakeHandler, BatchInv, Runner
    <3>2. /\ UNCHANGED <<handler, agents, unarmed, pendingWakes, batch, call>>
          /\ runnerTimer' = [runnerTimer EXCEPT ![g] = FALSE]
      BY <1>3, <3>1 DEF stop, wVars, wakeVars
    <3> SUFFICES ASSUME NEW h \in Runner, handler' = h, agents'[h] # {}
                 PROVE  \/ runnerTimer'[h] \/ pendingWakes'[Untargeted] # NoReason
                        \/ \E c \in Batch : Carries(c, h)'
                        \/ unarmed'[h]
      BY DEF IntervalChainAlive, Carries, RunnerOf, InFlight, Awaited
    <3>3. runnerTimer'[h] = runnerTimer[h]
      BY <1>0, <3>1, <3>2
    <3>4. \A c \in Batch : Carries(c, h) => Carries(c, h)'
      BY <3>2 DEF Carries, RunnerOf, InFlight, Awaited
    <3>5. \/ runnerTimer[h] \/ pendingWakes[Untargeted] # NoReason
          \/ \E c \in Batch : Carries(c, h)
          \/ unarmed[h]
      BY <3>2 DEF IntervalChainAlive, Carries
    <3> QED
      BY <3>2, <3>3, <3>4, <3>5
  <2> QED
    BY <2>1, <2>2
<1>4. ASSUME NEW g \in Runner, RunnerTimerFires(g) PROVE IntervalChainAlive'
  <2>1. pendingWakes'[Untargeted] = Coalesce(pendingWakes[Untargeted], "interval")
    BY <1>0, <1>4 DEF RunnerTimerFires, requestHeartbeatNow, queuePendingWakeReason
  <2>2. pendingWakes'[Untargeted] \in Reason
    <3>1. pendingWakes[Untargeted] \in Reason \cup {NoReason} /\ "interval" \in Reason
      BY <1>0, TargetAssumption
    <3>2. Coalesce(pendingWakes[Untargeted], "interval") \in Reason
      BY <3>1, CoalesceType
    <3> QED
      BY <2>1, <3>2
  <2> QED
    BY <2>2, ReasonFacts DEF IntervalChainAlive
<1>5. ASSUME UNCHANGED <<handler, agents, runnerTimer, unarmed, batch, call>>,
             pendingWakes[Untargeted] # NoReason => pendingWakes'[Untargeted] # NoReason
      PROVE  IntervalChainAlive'
  <2>1. \A b \in Batch, g \in Runner : Carries(b, g) => Carries(b, g)'
    BY <1>5 DEF Carries, RunnerOf, InFlight, Awaited
  <2>2. /\ \A g \in Runner : runnerTimer[g] => runnerTimer'[g]
        /\ \A g \in Runner : unarmed[g] => unarmed'[g]
    BY <1>5
  <2> QED
    BY <1>5, <2>1, <2>2, ChainKept
<1>6. ASSUME NEW g \in Runner, NEW a \in Agent, BecomesDue(g, a) PROVE IntervalChainAlive'
  BY <1>5, <1>6 DEF BecomesDue, wVars, wakeVars
<1>7. ASSUME NEW on \in BOOLEAN, setHeartbeatsEnabled(on) PROVE IntervalChainAlive'
  BY <1>5, <1>7 DEF setHeartbeatsEnabled, wVars, wakeVars
<1>8. ASSUME NEW t \in Target, NEW r \in Reason, RequestWake(t, r) PROVE IntervalChainAlive'
  <2>1. pendingWakes'[Untargeted] = IF t = Untargeted THEN Coalesce(pendingWakes[Untargeted], r)
                                                      ELSE pendingWakes[Untargeted]
    BY <1>0, <1>8 DEF RequestWake, requestHeartbeatNow, queuePendingWakeReason
  <2>2. Coalesce(pendingWakes[Untargeted], r) # NoReason
    BY <1>0, CoalesceType, ReasonFacts
  <2>3. UNCHANGED <<handler, agents, runnerTimer, unarmed, batch, call>>
    BY <1>8 DEF RequestWake, requestHeartbeatNow
  <2> QED
    BY <1>5, <2>1, <2>2, <2>3
<1>9. ASSUME NEW b \in Batch, NEW t \in Target, RunRefused(b, t) PROVE IntervalChainAlive'
  <2> DEFINE r == RunnerOf(b)
  <2>1. /\ InFlight(b) /\ ~Awaited(b) /\ t \in batch[b].rest /\ HandlerDone(b, t)
        /\ runner[r] = "stopped" \/ ~heartbeatsEnabled \/ agents[r] = {}
        /\ UNCHANGED <<agents, runnerTimer, call>>
        /\ unarmed' = [unarmed EXCEPT ![r] = unarmed[r] \/ (runner[r] = "up" /\ ~heartbeatsEnabled)]
    BY <1>9 DEF RunRefused
  <2>2. PICK rest, back : \E retry \in BOOLEAN : Continues(b, rest, back, retry)
    BY <1>0, <2>1, AnsweredContinues DEF Answered
  <2>3. /\ \A c \in Batch \ {b} : batch'[c] = batch[c]
        /\ pendingWakes[Untargeted] # NoReason => pendingWakes'[Untargeted] # NoReason
    BY <1>0, <2>2, ContinuesBatch, ContinuesPending
  <2>4. handler' = handler
    BY <2>2 DEF Continues, BatchContinues
  <2>5. r \in Runner
    BY <1>0, <2>1, RunnerOfType
  <2> SUFFICES ASSUME NEW g \in Runner, handler' = g, agents'[g] # {}
               PROVE  \/ runnerTimer'[g] \/ pendingWakes'[Untargeted] # NoReason
                      \/ \E c \in Batch : Carries(c, g)'
                      \/ unarmed'[g]
    BY DEF IntervalChainAlive, Carries, RunnerOf, InFlight, Awaited
  <2>6. \/ runnerTimer[g] \/ pendingWakes[Untargeted] # NoReason
        \/ \E c \in Batch : Carries(c, g)
        \/ unarmed[g]
    BY <2>1, <2>4 DEF IntervalChainAlive, Carries
  <2>7. unarmed[g] => unarmed'[g]
    BY <1>0, <2>1, <2>5
  <2>8. \A c \in Batch \ {b} : Carries(c, g) => Carries(c, g)'
    BY <2>1, <2>3 DEF Carries, RunnerOf, InFlight, Awaited
  <2>9. Carries(b, g) => unarmed'[g]
    <3> SUFFICES ASSUME Carries(b, g) PROVE unarmed'[g]
      OBVIOUS
    <3>1. g = r /\ agents[r] # {} /\ runner[r] = "up"
      BY <2>1, <2>4 DEF Carries, RunnerInv, Runner
    <3>2. ~heartbeatsEnabled
      BY <2>1, <3>1
    <3> QED
      BY <1>0, <2>1, <2>5, <3>1, <3>2
  <2> QED
    BY <2>1, <2>3, <2>6, <2>7, <2>8, <2>9
<1>10. ASSUME NEW b \in Batch, NEW t \in Target, RunFindsNone(b, t) PROVE IntervalChainAlive'
  <2>1. Answered(b) /\ scheduleNext(RunnerOf(b)) /\ UNCHANGED <<runner, agents, call>>
    BY <1>10 DEF RunFindsNone, RunAccepted, Answered
  <2> QED
    BY <2>1, ChainScheduled
<1>11. ASSUME NEW b \in Batch, UNCHANGED <<wVars, agents, runnerTimer, unarmed>>, Awaited(b)',
              \A c \in Batch \ {b} : call'[c] = call[c]
       PROVE  IntervalChainAlive'
  <2>1. \A c \in Batch, g \in Runner : Carries(c, g) => Carries(c, g)'
    BY <1>11 DEF Carries, RunnerOf, InFlight, Awaited, wVars, wakeVars
  <2>2. /\ UNCHANGED <<handler, agents, pendingWakes>>
        /\ \A g \in Runner : runnerTimer[g] => runnerTimer'[g]
        /\ \A g \in Runner : unarmed[g] => unarmed'[g]
    BY <1>11 DEF wVars, wakeVars
  <2> QED
    BY <2>1, <2>2, ChainKept
<1>12. ASSUME NEW b \in Batch, NEW t \in Target, NEW a \in Agent, RunStarts(b, t, a)
       PROVE  IntervalChainAlive'
  <2>1. /\ UNCHANGED <<wVars, agents, runnerTimer, unarmed>>
        /\ call'[b].agent = a /\ call'[b] # NoCall /\ \A c \in Batch \ {b} : call'[c] = call[c]
    BY <1>0, <1>12 DEF RunStarts, NoCall
  <2> QED
    BY <1>11, <2>1 DEF Awaited
<1>13. ASSUME NEW b \in Batch, Awaited(b), call' = [call EXCEPT ![b] = NoCall],
              HandlerDone(b, call[b].target) \/ HandlerBusy(b, call[b].target) \/ HandlerThrows(b),
              UNCHANGED <<runner, agents>>, scheduleNext(RunnerOf(b))
       PROVE  IntervalChainAlive'
  <2>1. Answered(b)
    BY <1>13 DEF CallInv, Answered
  <2>2. \A c \in Batch \ {b} : call'[c] = call[c]
    BY <1>0, <1>13
  <2> QED
    BY <1>13, <2>1, <2>2, ChainScheduled
<1>14. ASSUME NEW b \in Batch, Awaited(b), RunContinues(b) PROVE IntervalChainAlive'
  BY <1>0, <1>11, <1>13, <1>14, ContinueFacts
<1>15. ASSUME NEW b \in Batch, RunOnceBusy(b) PROVE IntervalChainAlive'
  <2>1. CASE call[b].target = Untargeted
    <3>1. Awaited(b) /\ InFlight(b) /\ HandlerBusy(b, Untargeted) /\ Untargeted \in batch[b].rest
      BY <1>15, <2>1 DEF RunOnceBusy, CallInv
    <3>2. batch[b].item[Untargeted] \in Reason
      BY <1>0, <3>1, BatchFacts DEF BatchInv
    <3>3. pendingWakes'[Untargeted] = Coalesce(pendingWakes[Untargeted], batch[b].item[Untargeted])
      BY <1>0, <3>1 DEF HandlerBusy, BatchContinues, queuePendingWakeReason
    <3>4. pendingWakes'[Untargeted] # NoReason
      BY <1>0, <3>2, <3>3, CoalesceType, ReasonFacts
    <3> QED
      BY <3>4 DEF IntervalChainAlive
  <2>2. CASE call[b].target # Untargeted
    BY <1>13, <1>15, <2>2 DEF RunOnceBusy
  <2> QED
    BY <2>1, <2>2
<1>16. ASSUME NEW b \in Batch, RunThrows(b) PROVE IntervalChainAlive'
  BY <1>13, <1>16 DEF RunThrows
<1>17. ASSUME NEW b \in Batch, RunStep(b) PROVE IntervalChainAlive'
  BY <1>9, <1>10, <1>12, <1>14, <1>15, <1>16, <1>17 DEF RunStep, RunOnceAnswers, RunOnceDisabled
<1>18. ASSUME NEW b \in Batch, TimerStartsBatch(b), UNCHANGED runnerVars PROVE IntervalChainAlive'
  <2>1. /\ ~InFlight(b) /\ InFlight(b)' /\ batch'[b].gen = handler /\ batch'[b].rest = Pending
        /\ \A c \in Batch \ {b} : batch'[c] = batch[c]
    BY <1>0, <1>18, StartFacts
  <2>2. UNCHANGED <<handler, agents, runnerTimer, unarmed, call>>
    BY <1>18 DEF TimerStartsBatch, runnerVars
  <2> SUFFICES ASSUME NEW g \in Runner, handler' = g, agents'[g] # {}
               PROVE  \/ runnerTimer'[g] \/ pendingWakes'[Untargeted] # NoReason
                      \/ \E c \in Batch : Carries(c, g)'
                      \/ unarmed'[g]
    BY DEF IntervalChainAlive, Carries, RunnerOf, InFlight, Awaited
  <2>3. \/ runnerTimer[g] \/ pendingWakes[Untargeted] # NoReason
        \/ \E c \in Batch : Carries(c, g)
        \/ unarmed[g]
    BY <2>2 DEF IntervalChainAlive, Carries
  <2>4. \A c \in Batch : Carries(c, g) => Carries(c, g)'
    BY <2>1, <2>2 DEF Carries, RunnerOf, InFlight, Awaited
  <2>5. pendingWakes[Untargeted] # NoReason => Carries(b, g)'
    BY <1>0, <2>1, <2>2 DEF Carries, RunnerOf, InFlight, Pending
  <2> QED
    BY <2>2, <2>3, <2>4, <2>5
<1>19. CASE WakeTimer \/ WakeTick
  <2>1. CASE TimerFindsNoHandler \/ TimerFindsBatch \/ TimerFindsNothing \/ Tick
    BY <1>5, <1>19, <2>1 DEF TimerFindsNoHandler, TimerFindsBatch, TimerFindsNothing, Tick,
                             WakeTimer, WakeTick, runnerVars
  <2> QED
    BY <1>18, <1>19, <2>1 DEF WakeTimer, WakeTick, TimerFires
<1> QED
  BY <1>1, <1>2, <1>3, <1>4, <1>6, <1>7, <1>8, <1>17, <1>19 DEF Next

-----------------------------------------------------------------------------
(* The invariant is inductive.                                             *)
LEMMA Initial == Init => IInv
<1> SUFFICES ASSUME Init PROVE IInv
  OBVIOUS
<1>1. WakeInv
  BY WakeInitial DEF Init
<1>2. RunnerTypeOK
  BY TargetAssumption DEF Init, RunnerTypeOK, Calls
<1>3. CallInv
  BY DEF Init, CallInv, Awaited
<1>4. handler = 0
  BY DEF Init, WakeInit
<1> QED
  BY <1>1, <1>2, <1>3, <1>4, TypeParts DEF IInv, WakeInv, RunnerInv, IntervalChainAlive, Runner

LEMMA Inductive == IInv /\ [Next]_vars => IInv'
<1> SUFFICES ASSUME IInv, [Next]_vars PROVE IInv'
  OBVIOUS
<1>0. /\ TypeOK /\ WakeInv /\ BatchInv /\ CallInv /\ RunnerInv /\ IntervalChainAlive
  BY DEF IInv, WakeInv
<1>1. CASE Next
  <2>1. WakeInv'
    BY <1>0, <1>1, NextIsWakeStep, WakeInductive
  <2>2. RunnerTypeOK' /\ CallInv' /\ RunnerInv' /\ IntervalChainAlive'
    BY <1>0, <1>1, RunnerTypeStep, CallStep, RunnerUpStep, ChainStep
  <2>3. TypeOK'
    BY <2>1, <2>2 DEF WakeInv, TypeOK, RunnerTypeOK
  <2> QED
    BY <2>1, <2>2, <2>3 DEF IInv
<1>2. CASE UNCHANGED vars
  <2>1. UNCHANGED wVars
    BY <1>2 DEF vars
  <2>2. WakeInv'
    BY <1>0, <2>1, WakeInductive
  <2>3. UNCHANGED <<handler, pendingWakes, batch>>
    BY <2>1 DEF wVars, wakeVars
  <2>4. UNCHANGED <<heartbeatsEnabled, runner, agents, due, runnerTimer, call, inputs, unarmed>>
    BY <1>2 DEF vars, runnerVars
  <2>5. TypeOK'
    BY <1>0, <2>2, <2>4 DEF WakeInv, TypeOK
  <2>6. CallInv' /\ RunnerInv' /\ IntervalChainAlive'
    BY <1>0, <2>3, <2>4 DEF CallInv, RunnerInv, IntervalChainAlive, Awaited, InFlight, RunnerOf
  <2> QED
    BY <2>2, <2>5, <2>6 DEF IInv
<1> QED
  BY <1>1, <1>2

LEMMA Invariance == Spec => []IInv
BY Initial, Inductive, PTL DEF Spec

(* Handlers, wakes, the timer, batches, runners and runs keep their types, *)
(* whatever calls start late or answer late.                               *)
THEOREM TypeCorrect == Spec => []TypeOK
<1>1. IInv => TypeOK
  BY DEF IInv
<1> QED
  BY <1>1, Invariance, PTL

(* requestHeartbeatNow, the batch loop and its catch block: a reason asked *)
(* for is under way to the handler with at least its priority.             *)
THEOREM WakeKeptHolds == Spec => []WakeKept
<1>1. IInv => WakeKept
  BY DEF IInv, WakeInv
<1> QED
  BY <1>1, Invariance, PTL

(* schedule and the finally block of a batch: no wake is left without a    *)
(* timer, and the flag is not left set without a batch.                    *)
THEOREM NoWakeStuckHolds == Spec => []NoWakeStuck
<1>1. IInv => NoWakeStuck
  BY DEF IInv, WakeInv
<1> QED
  BY <1>1, Invariance, PTL

(* The running flag: two batches of one handler overlap only after a batch *)
(* of an earlier handler has cleared it.                                   *)
THEOREM OverlapHasCauseHolds == Spec => []OverlapHasCause
<1>1. IInv => OverlapHasCause
  BY DEF IInv, WakeInv, OverlapInv, OverlapHasCause
<1> QED
  BY <1>1, Invariance, PTL

(* "Keep retry cooldown as a hard minimum delay": no batch starts within   *)
(* the pause, but for the excuses the property names.                      *)
THEOREM RetryCooldownKeptHolds == Spec => RetryCooldownKept
<1>1. IInv /\ [Next]_vars =>
          [\A b \in Batch : ~InFlight(b) /\ InFlight(b)' => pause = 0 \/ excused]_wVars
  <2> SUFFICES ASSUME IInv, [Next]_vars, NEW b \in Batch, ~InFlight(b), InFlight(b)'
               PROVE  pause = 0 \/ excused
    OBVIOUS
  <2>1. WakeTypeOK /\ BatchInv /\ CooldownInv /\ TypeOK /\ CallInv
    BY DEF IInv, WakeInv
  <2>2. [WakeStep]_wVars
    BY <2>1, NextIsWakeStep DEF vars
  <2> QED
    BY <2>1, <2>2, StartsAfterPause
<1> QED
  BY <1>1, Invariance, PTL DEF Spec, RetryCooldownKept

(* "Always re-arm the timer": the chain of a registered runner is broken   *)
(* only by a run that found heartbeats disabled.                           *)
THEOREM IntervalChainAliveHolds == Spec => []IntervalChainAlive
<1>1. IInv => IntervalChainAlive
  BY DEF IInv
<1> QED
  BY <1>1, Invariance, PTL

=============================================================================

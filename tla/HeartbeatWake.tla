--------------------------- MODULE HeartbeatWake ----------------------------
(***************************************************************************)
(* The wake layer of the heartbeat: requests are coalesced per target, one *)
(* timer hands all pending targets as a batch to the registered handler,   *)
(* and a target whose lane is busy is tried again after a pause.           *)
(*                                                                         *)
(* A batch is cut at the `await active(...)` of its loop: the answers to   *)
(* its calls are steps of their own, and everything else may happen in     *)
(* between.  The map of pending wakes is iterated in insertion order; here *)
(* a batch answers its targets in any order.                               *)
(*                                                                         *)
(* Time: the armed timer counts down what is left of its delay.            *)
(*                                                                         *)
(* Source: src/brain/src/infra/heartbeat-wake.ts.                          *)
(***************************************************************************)
EXTENDS Naturals

CONSTANTS
    Target,          \* keys agentId::sessionKey
    Reason,          \* kinds of reasons that are requested
    MaxBatches,      \* bound: batches in flight
    DefaultCoalesce, \* DEFAULT_COALESCE_MS, in ticks
    DefaultRetry,    \* DEFAULT_RETRY_MS, in ticks
    MaxGeneration    \* bound: handlerGeneration

ReasonKind == {"retry", "interval", "manual", "exec-event", "wake", "cron", "hook", "other"}

ASSUME ReasonAssumption == Reason \subseteq ReasonKind
ASSUME DelayAssumption ==
    /\ DefaultCoalesce \in Nat /\ DefaultRetry \in Nat
    /\ DefaultCoalesce <= DefaultRetry
    /\ MaxGeneration \in Nat /\ MaxBatches \in Nat

VARIABLES
    handler,            \* generation of the registered handler, 0 for null
    handlerGeneration,
    pendingWakes,       \* target -> reason, NoReason when it is not in the map
    scheduled, running,
    timer,              \* kind, ticks left, and the delay in its closure
    batch,              \* batches in flight
    (* History.                                                            *)
    owed,        \* target -> the strongest reason asked for and not yet in a batch
    pause,       \* ticks left of the pause a busy target asked for
    excused,     \* that pause was asked for beside an armed timer, or a new
                 \* handler came after it
    outlived     \* a batch ended after its handler had been replaced

wakeVars == <<handler, handlerGeneration, pendingWakes, scheduled, running, timer, batch>>
wakeHistory == <<owed, pause, excused, outlived>>
wVars == <<wakeVars, wakeHistory>>

NoReason == "none"
NoTimer == [kind |-> "none", left |-> 0, delay |-> 0]
NoBatch == [gen |-> 0]

Delay == {0, DefaultCoalesce, DefaultRetry}
Timers == {NoTimer}
    \cup [kind : {"normal", "retry"}, left : 0..DefaultRetry, delay : Delay]
Batches == {NoBatch}
    \cup [gen : 1..MaxGeneration, item : [Target -> Reason \cup {NoReason}],
          rest : SUBSET Target, delay : Delay, owed : [Target -> Reason \cup {NoReason}]]

(* Batches in flight take the lowest free slot.                            *)
Batch == 1..MaxBatches
InFlight(b) == batch[b] # NoBatch
Free(b) == ~InFlight(b) /\ \A c \in 1..(b - 1) : InFlight(c)
Pending == {t \in Target : pendingWakes[t] # NoReason}

(* The states of the wake layer.                                           *)
WakeTypeOK ==
    /\ handler \in 0..MaxGeneration
    /\ handlerGeneration \in 0..MaxGeneration
    /\ pendingWakes \in [Target -> Reason \cup {NoReason}]
    /\ scheduled \in BOOLEAN /\ running \in BOOLEAN
    /\ timer \in Timers
    /\ batch \in [Batch -> Batches]
    /\ owed \in [Target -> Reason \cup {NoReason}]
    /\ pause \in 0..DefaultRetry
    /\ excused \in BOOLEAN /\ outlived \in BOOLEAN

WakeInit ==
    /\ handler = 0 /\ handlerGeneration = 0
    /\ pendingWakes = [t \in Target |-> NoReason]
    /\ scheduled = FALSE /\ running = FALSE
    /\ timer = NoTimer
    /\ batch = [b \in Batch |-> NoBatch]
    /\ owed = [t \in Target |-> NoReason]
    /\ pause = 0 /\ excused = FALSE /\ outlived = FALSE

-----------------------------------------------------------------------------
(* Coalescing.                                                             *)

resolveReasonPriority(reason) ==
    CASE reason = "retry" -> 0
      [] reason = "interval" -> 1
      [] reason \in {"manual", "exec-event", "hook"} -> 3
      [] OTHER -> 2

(* Mutant: the latest request wins, whatever its priority.                 *)
Coalesce_Latest(previous, next) == next

(* The reason kept of two for one target; of equals the later.             *)
Coalesce(previous, next) ==
    IF previous = NoReason
       \/ resolveReasonPriority(next) >= resolveReasonPriority(previous)
    THEN next ELSE previous

(* queuePendingWakeReason for several targets, each with its reason.       *)
queuePendingWakeReason(targets, reasonOf) ==
    [t \in Target |-> IF t \in targets THEN Coalesce(pendingWakes[t], reasonOf[t])
                                       ELSE pendingWakes[t]]

(* Mutant: a sooner timer takes the place of a retry timer.                *)
schedule_NoCooldown(tm, ms, kind) ==
    IF tm # NoTimer /\ tm.left <= ms THEN tm
    ELSE [kind |-> kind, left |-> ms, delay |-> ms]

(* The timer after a call of schedule: a retry timer stays, and so does    *)
(* one that fires no later.                                                *)
schedule(tm, ms, kind) ==
    IF tm # NoTimer /\ (tm.kind = "retry" \/ tm.left <= ms) THEN tm
    ELSE [kind |-> kind, left |-> ms, delay |-> ms]

(* History: the stronger of two reasons.                                   *)
AtLeast(r, s) ==
    \/ s = NoReason
    \/ r # NoReason /\ resolveReasonPriority(r) >= resolveReasonPriority(s)
Stronger(r, s) == IF AtLeast(r, s) THEN r ELSE s

-----------------------------------------------------------------------------
(* Operations.                                                             *)

requestHeartbeatNow(t, reason, ms) ==
    /\ pendingWakes' = queuePendingWakeReason({t}, [u \in Target |-> reason])
    /\ timer' = schedule(timer, ms, "normal")
    /\ owed' = [owed EXCEPT ![t] = Stronger(@, reason)]
    /\ UNCHANGED <<handler, handlerGeneration, scheduled, running, batch,
                   pause, excused, outlived>>

(* Mutant: wakes that were waiting for a handler are not scheduled.        *)
setHeartbeatWakeHandler_NotScheduled ==
    /\ handlerGeneration < MaxGeneration
    /\ handlerGeneration' = handlerGeneration + 1
    /\ handler' = handlerGeneration'
    /\ running' = FALSE /\ scheduled' = FALSE
    /\ timer' = NoTimer
    /\ excused' = (pause > 0)
    /\ UNCHANGED <<pendingWakes, batch, owed, pause, outlived>>

(* Registering a handler forgets the timer and the flags of the one before,*)
(* but not its batches.                                                    *)
setHeartbeatWakeHandler ==
    /\ handlerGeneration < MaxGeneration
    /\ handlerGeneration' = handlerGeneration + 1
    /\ handler' = handlerGeneration'
    /\ running' = FALSE /\ scheduled' = FALSE
    /\ timer' = IF Pending # {} THEN schedule(NoTimer, DefaultCoalesce, "normal") ELSE NoTimer
    /\ excused' = (pause > 0)
    /\ UNCHANGED <<pendingWakes, batch, owed, pause, outlived>>

(* The disposer of registration g; a stale one does nothing.               *)
disposeWakeHandler(g) ==
    IF handlerGeneration = g /\ handler = g
    THEN /\ handlerGeneration < MaxGeneration
         /\ handlerGeneration' = handlerGeneration + 1
         /\ handler' = 0
         /\ UNCHANGED <<pendingWakes, scheduled, running, timer, batch, wakeHistory>>
    ELSE UNCHANGED wVars

(* The timer callback, up to the first call of the handler.                *)
TimerFindsNoHandler ==
    /\ handler = 0
    /\ timer' = NoTimer /\ scheduled' = FALSE
    /\ UNCHANGED <<handler, handlerGeneration, pendingWakes, running, batch, wakeHistory>>

TimerFindsBatch ==
    /\ handler # 0 /\ running
    /\ scheduled' = TRUE
    /\ timer' = schedule(NoTimer, timer.delay, timer.kind)
    /\ UNCHANGED <<handler, handlerGeneration, pendingWakes, running, batch, wakeHistory>>

TimerFindsNothing ==
    /\ handler # 0 /\ ~running /\ Pending = {}
    /\ timer' = NoTimer /\ scheduled' = FALSE
    /\ UNCHANGED <<handler, handlerGeneration, pendingWakes, running, batch, wakeHistory>>

(* Mutant: the flag is not set when the batch starts.                      *)
TimerStartsBatch_NotMarked(b) ==
    /\ handler # 0 /\ ~running /\ Pending # {}
    /\ Free(b)
    /\ timer' = NoTimer /\ scheduled' = FALSE
    /\ batch' = [batch EXCEPT ![b] = [gen |-> handler, item |-> pendingWakes, rest |-> Pending,
                                      delay |-> timer.delay, owed |-> owed]]
    /\ pendingWakes' = [t \in Target |-> NoReason]
    /\ owed' = [t \in Target |-> NoReason]
    /\ UNCHANGED <<handler, handlerGeneration, running, pause, excused, outlived>>

TimerStartsBatch(b) ==
    /\ handler # 0 /\ ~running /\ Pending # {}
    /\ Free(b)
    /\ timer' = NoTimer /\ scheduled' = FALSE
    /\ running' = TRUE
    /\ batch' = [batch EXCEPT ![b] = [gen |-> handler, item |-> pendingWakes, rest |-> Pending,
                                      delay |-> timer.delay, owed |-> owed]]
    /\ pendingWakes' = [t \in Target |-> NoReason]
    /\ owed' = [t \in Target |-> NoReason]
    /\ UNCHANGED <<handler, handlerGeneration, pause, excused, outlived>>

TimerFires ==
    /\ timer # NoTimer /\ timer.left = 0
    /\ \/ TimerFindsNoHandler \/ TimerFindsBatch \/ TimerFindsNothing
       \/ \E b \in Batch : TimerStartsBatch(b)

(* One tick of the clock.                                                  *)
Tick ==
    /\ timer.left > 0 \/ pause > 0
    /\ timer' = [timer EXCEPT !.left = IF @ > 0 THEN @ - 1 ELSE 0]
    /\ pause' = IF pause > 0 THEN pause - 1 ELSE 0
    /\ excused' = (excused /\ pause' > 0)
    /\ UNCHANGED <<handler, handlerGeneration, pendingWakes, scheduled, running, batch,
                   owed, outlived>>

-----------------------------------------------------------------------------
(* The end of a call.                                                      *)

(* What a batch puts back, the timer that follows, and the finally block   *)
(* when the batch is over: it clears the flag whichever batch set it.      *)
BatchContinues(b, rest, back, retry) ==
    LET over == rest = {}
        pending == queuePendingWakeReason(back, batch[b].item)
        armed == IF retry THEN schedule(timer, DefaultRetry, "retry") ELSE timer
        more == scheduled \/ \E t \in Target : pending[t] # NoReason
    IN  /\ pendingWakes' = pending
        /\ running' = (running /\ ~over)
        /\ timer' = IF over /\ more THEN schedule(armed, batch[b].delay, "normal") ELSE armed
        /\ batch' = [batch EXCEPT ![b] = IF over THEN NoBatch ELSE [@ EXCEPT !.rest = rest]]
        /\ owed' = [t \in Target |-> IF retry /\ t \in batch[b].rest \ rest
                                      THEN Stronger(owed[t], batch[b].owed[t]) ELSE owed[t]]
        /\ pause' = IF retry /\ pause = 0 THEN DefaultRetry ELSE pause
        /\ excused' = IF retry /\ pause = 0 THEN timer # NoTimer ELSE excused
        /\ outlived' = (outlived \/ (over /\ batch[b].gen # handler /\ running))
        /\ UNCHANGED <<handler, handlerGeneration, scheduled>>

(* ran, failed, or skipped for another reason than a busy lane.            *)
HandlerDone(b, t) == BatchContinues(b, batch[b].rest \ {t}, {}, FALSE)

(* Mutant: a target whose lane is busy is not queued again.                *)
HandlerBusy_Forgotten(b, t) == BatchContinues(b, batch[b].rest \ {t}, {}, TRUE)

(* skipped: requests-in-flight.                                            *)
HandlerBusy(b, t) == BatchContinues(b, batch[b].rest \ {t}, {t}, TRUE)

(* The handler rejects: the whole batch is queued again, what it has       *)
(* already done included.                                                  *)
HandlerThrows(b) ==
    BatchContinues(b, {}, {t \in Target : batch[b].item[t] # NoReason}, TRUE)

-----------------------------------------------------------------------------
(* Correctness.                                                            *)

(* No request is lost or weakened on its way to the handler: a reason that *)
(* was asked for is waiting under its target, or rides in a batch that     *)
(* has not answered that target yet, with at least its priority.           *)
WakeKept ==
    \A t \in Target :
        /\ AtLeast(pendingWakes[t], owed[t])
        /\ \A b \in Batch : InFlight(b) => AtLeast(batch[b].item[t], batch[b].owed[t])

(* Nothing waits for a timer that is not armed, nor behind a batch that    *)
(* has ended, across busy lanes, throwing handlers, polling timers and     *)
(* replaced handlers.                                                      *)
NoWakeStuck ==
    /\ handler # 0 /\ Pending # {} => timer # NoTimer
    /\ running => \E b \in Batch : InFlight(b)

(* One handler works on two batches at a time only after a batch of an     *)
(* earlier handler has ended late and cleared the flag of its successor.   *)
OverlapHasCause ==
    \A b, c \in Batch :
        b # c /\ InFlight(b) /\ InFlight(c) /\ batch[b].gen = batch[c].gen => outlived

(* "Keep retry cooldown as a hard minimum delay": no batch starts within   *)
(* the pause a busy target asked for, unless a timer was already armed     *)
(* when it asked, or a new handler came in between.                        *)
RetryCooldownKept ==
    [][\A b \in Batch : ~InFlight(b) /\ InFlight(b)' => pause = 0 \/ excused]_wVars

=============================================================================

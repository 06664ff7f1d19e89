--------------------------- MODULE GatewayRunLoop ---------------------------
(***************************************************************************)
(* The life of a gateway process: src/brain/src/cli/gateway-cli/           *)
(* run-loop.ts with the iteration hook of src/brain/src/process/           *)
(* restart-recovery.ts.                                                    *)
(*                                                                         *)
(* Two activities interleave at their awaits: the loop (reset the lanes,   *)
(* start the server, wait for a restart) and the handler of a signal       *)
(* (refuse work, drain, close, release the lock, respawn or go round       *)
(* again).  They meet in restartResolver, server, lock and shuttingDown.   *)
(***************************************************************************)
EXTENDS Naturals

CONSTANT MaxRequests   \* bound: how many stop or restart signals are acted on

ASSUME BoundAssumption == MaxRequests \in Nat

(* What may go wrong: params.start fails after a restart, server.close     *)
(* throws before it stops listening, a restart is requested while the loop *)
(* is between two waits.                                                   *)
Mishap == {"startFailed", "closeFailed", "startInterrupted"}

VARIABLES
    loop,             \* "iterating", "starting", "releasing" or "waiting"
    isFirstStart,
    restartResolver,  \* "none", "live" (of the promise awaited) or "stale"
    request,          \* signal handler: "none", "draining", "closing", "noServer",
                      \* "releasing" (hadLock), "unlocked" or "reacquiring"
    action,           \* what the handler was asked for last
    shuttingDown,
    forceExitTimer,   \* armed
    server,           \* the variable server is not null
    listening,        \* a started server has not been closed
    lock,             \* the variable lock is not null
    gatewayDraining,  \* flag of the command queue
    exited,           \* the process is gone
    requests,         \* signals acted on so far
    mishaps           \* history: the mishaps of this process

vars == <<loop, isFirstStart, restartResolver, request, action, shuttingDown,
          forceExitTimer, server, listening, lock, gatewayDraining, exited, requests, mishaps>>

(* The watchdog is armed only while a handler drains or closes.            *)
TypeOK ==
    /\ loop \in {"iterating", "starting", "releasing", "waiting"}
    /\ restartResolver \in {"none", "live", "stale"}
    /\ request \in {"none", "draining", "closing", "noServer", "releasing", "unlocked",
                   "reacquiring"}
    /\ action \in {"none", "stop", "restart"}
    /\ requests \in 0..MaxRequests
    /\ mishaps \subseteq Mishap
    /\ isFirstStart \in BOOLEAN /\ shuttingDown \in BOOLEAN /\ forceExitTimer \in BOOLEAN
    /\ server \in BOOLEAN /\ listening \in BOOLEAN /\ lock \in BOOLEAN
    /\ gatewayDraining \in BOOLEAN /\ exited \in BOOLEAN
    /\ forceExitTimer => request \in {"draining", "closing", "noServer"}

(* The signal handlers are installed after the lock has been acquired.     *)
Init ==
    /\ loop = "iterating" /\ isFirstStart = TRUE /\ restartResolver = "none"
    /\ request = "none" /\ action = "none" /\ shuttingDown = FALSE
    /\ forceExitTimer = FALSE /\ server = FALSE /\ listening = FALSE /\ lock = TRUE
    /\ gatewayDraining = FALSE /\ exited = FALSE /\ requests = 0
    /\ mishaps = {}

-----------------------------------------------------------------------------
(* The loop.                                                               *)

(* createRestartIterationHook counts its first call as the startup.        *)
isFirstIteration == restartResolver = "none"

(* Mutant: the hook does not reset the lanes.                              *)
OnIteration_NoReset ==
    /\ ~exited /\ loop = "iterating"
    /\ loop' = "starting"
    /\ UNCHANGED <<isFirstStart, restartResolver, request, action, shuttingDown,
                   forceExitTimer, server, listening, lock, gatewayDraining, exited, requests, mishaps>>

(* onIteration(): a restart runs resetAllLanes, which lets the queue       *)
(* accept work again.  Then params.start is called.                        *)
OnIteration ==
    /\ ~exited /\ loop = "iterating"
    /\ gatewayDraining' = IF isFirstIteration THEN gatewayDraining ELSE FALSE
    /\ loop' = "starting"
    /\ UNCHANGED <<isFirstStart, restartResolver, request, action, shuttingDown,
                   forceExitTimer, server, listening, lock, exited, requests, mishaps>>

(* The port must be free.                                                  *)
StartSucceeds ==
    /\ ~exited /\ loop = "starting" /\ ~listening
    /\ server' = TRUE /\ listening' = TRUE /\ isFirstStart' = FALSE
    /\ loop' = "waiting" /\ restartResolver' = "live"
    /\ UNCHANGED <<request, action, shuttingDown, forceExitTimer, lock, gatewayDraining,
                   exited, requests, mishaps>>

(* The first failure ends the process; a later one leaves it alive without *)
(* a server and releases the lock.                                         *)
StartFails ==
    /\ ~exited /\ loop = "starting"
    /\ IF isFirstStart
       THEN exited' = TRUE /\ UNCHANGED <<loop, restartResolver, server, mishaps>>
       ELSE /\ server' = FALSE
            /\ mishaps' = mishaps \cup {"startFailed"}
            /\ IF lock THEN loop' = "releasing" /\ UNCHANGED restartResolver
                       ELSE loop' = "waiting" /\ restartResolver' = "live"
            /\ UNCHANGED exited
    /\ UNCHANGED <<isFirstStart, request, action, shuttingDown, forceExitTimer, listening,
                   lock, gatewayDraining, requests>>

LockReleasedAfterFailure ==
    /\ ~exited /\ loop = "releasing"
    /\ lock' = FALSE
    /\ loop' = "waiting" /\ restartResolver' = "live"
    /\ UNCHANGED <<isFirstStart, request, action, shuttingDown, forceExitTimer, server,
                   listening, gatewayDraining, exited, requests, mishaps>>

-----------------------------------------------------------------------------
(* The signal handler.                                                     *)

(* The finally block disarms the timer, forgets the server and calls       *)
(* releaseLockIfHeld.                                                      *)
Finally ==
    /\ forceExitTimer' = FALSE
    /\ server' = FALSE
    /\ request' = IF lock THEN "releasing" ELSE "unlocked"

(* server?.close in the turn of the signal: without a server the handler   *)
(* goes on before anything else runs.                                      *)
BeginClose ==
    IF server THEN request' = "closing" /\ forceExitTimer' = TRUE /\ UNCHANGED server
              ELSE Finally

(* request(): ignored while shutting down.  A restart first refuses work   *)
(* and waits for what is active, if anything is.                           *)
Request(a) ==
    /\ ~exited /\ ~shuttingDown /\ requests < MaxRequests
    /\ requests' = requests + 1
    /\ shuttingDown' = TRUE
    /\ action' = a
    /\ gatewayDraining' = (gatewayDraining \/ a = "restart")
    /\ \/ BeginClose
       \/ /\ a = "restart"
          /\ request' = "draining" /\ forceExitTimer' = TRUE /\ UNCHANGED server
    /\ mishaps' = IF a = "restart" /\ loop # "waiting"
                  THEN mishaps \cup {"startInterrupted"} ELSE mishaps
    /\ UNCHANGED <<loop, isFirstStart, restartResolver, listening, lock, exited>>

(* Everything drained, or the drain timed out.  Awaiting server?.close     *)
(* yields once even without a server.                                      *)
DrainEnds ==
    /\ ~exited /\ request = "draining"
    /\ request' = IF server THEN "closing" ELSE "noServer"
    /\ UNCHANGED <<loop, isFirstStart, restartResolver, action, shuttingDown, forceExitTimer,
                   server, listening, lock, gatewayDraining, exited, requests, mishaps>>

NothingToClose ==
    /\ ~exited /\ request = "noServer"
    /\ Finally
    /\ UNCHANGED <<loop, isFirstStart, restartResolver, action, shuttingDown, listening, lock,
                   gatewayDraining, exited, requests, mishaps>>

(* Mutant: the handle is dropped although the close was not awaited.       *)
ServerClosed_NotAwaited ==
    /\ ~exited /\ request = "closing"
    /\ Finally
    /\ UNCHANGED <<loop, isFirstStart, restartResolver, action, shuttingDown, listening, lock,
                   gatewayDraining, exited, requests, mishaps>>

ServerClosed ==
    /\ ~exited /\ request = "closing"
    /\ listening' = FALSE
    /\ Finally
    /\ UNCHANGED <<loop, isFirstStart, restartResolver, action, shuttingDown, lock,
                   gatewayDraining, exited, requests, mishaps>>

(* close() stops channels and helpers before it stops listening, and an    *)
(* error there is logged and swallowed.                                    *)
ServerCloseFails ==
    /\ ~exited /\ request = "closing"
    /\ Finally
    /\ mishaps' = mishaps \cup {"closeFailed"}
    /\ UNCHANGED <<loop, isFirstStart, restartResolver, action, shuttingDown, listening, lock,
                   gatewayDraining, exited, requests>>

(* The watchdog: exit without full cleanup.                                *)
ForceExit ==
    /\ ~exited /\ forceExitTimer
    /\ exited' = TRUE
    /\ UNCHANGED <<loop, isFirstStart, restartResolver, request, action, shuttingDown,
                   forceExitTimer, server, listening, lock, gatewayDraining, requests, mishaps>>

(* Mutant: later signals stay ignored.                                     *)
RestartInProcess_StaysDown ==
    /\ request' = "none"
    /\ UNCHANGED shuttingDown
    /\ IF restartResolver = "live"
       THEN restartResolver' = "stale" /\ loop' = "iterating"
       ELSE UNCHANGED <<restartResolver, loop>>

(* Mutant: the waiting loop is not woken.                                  *)
RestartInProcess_NotWoken ==
    /\ request' = "none"
    /\ shuttingDown' = FALSE
    /\ UNCHANGED <<restartResolver, loop>>

(* shuttingDown = false; restartResolver?.().  A resolver left over from   *)
(* an earlier round, or none yet, wakes nobody.                            *)
RestartInProcess ==
    /\ request' = "none"
    /\ shuttingDown' = FALSE
    /\ IF restartResolver = "live"
       THEN restartResolver' = "stale" /\ loop' = "iterating"
       ELSE UNCHANGED <<restartResolver, loop>>

(* Without the lock to give back: a stop exits; a restart exits if a new   *)
(* process was spawned or a supervisor takes over, and otherwise stays in  *)
(* the process.                                                            *)
Unlocked ==
    /\ ~exited /\ request = "unlocked"
    /\ \/ exited' = TRUE
          /\ UNCHANGED <<request, shuttingDown, restartResolver, loop>>
       \/ action = "restart" /\ RestartInProcess /\ UNCHANGED exited
    /\ UNCHANGED <<isFirstStart, action, forceExitTimer, server, listening, lock,
                   gatewayDraining, requests, mishaps>>

(* The lock has been given back: the same, but a restart in the process    *)
(* takes it again first.                                                   *)
LockReleased ==
    /\ ~exited /\ request = "releasing"
    /\ lock' = FALSE
    /\ \/ exited' = TRUE /\ UNCHANGED request
       \/ action = "restart" /\ request' = "reacquiring" /\ UNCHANGED exited
    /\ UNCHANGED <<loop, isFirstStart, restartResolver, action, shuttingDown, forceExitTimer,
                   server, listening, gatewayDraining, requests, mishaps>>

(* Mutant: the restart goes on without the lock.                           *)
LockReacquired_Skipped ==
    /\ ~exited /\ request = "reacquiring"
    /\ RestartInProcess
    /\ UNCHANGED <<isFirstStart, action, forceExitTimer, server, listening, lock,
                   gatewayDraining, exited, requests, mishaps>>

LockReacquired ==
    /\ ~exited /\ request = "reacquiring"
    /\ lock' = TRUE
    /\ RestartInProcess
    /\ UNCHANGED <<isFirstStart, action, forceExitTimer, server, listening, gatewayDraining,
                   exited, requests, mishaps>>

LockLost ==
    /\ ~exited /\ request = "reacquiring"
    /\ exited' = TRUE
    /\ UNCHANGED <<loop, isFirstStart, restartResolver, request, action, shuttingDown,
                   forceExitTimer, server, listening, lock, gatewayDraining, requests, mishaps>>

-----------------------------------------------------------------------------

LoopStep == OnIteration \/ StartSucceeds \/ StartFails \/ LockReleasedAfterFailure
HandlerStep ==
    \/ DrainEnds \/ NothingToClose \/ ServerClosed \/ ServerCloseFails
    \/ Unlocked \/ LockReleased \/ LockReacquired \/ LockLost

Next ==
    \/ LoopStep \/ HandlerStep \/ ForceExit
    \/ \E a \in {"stop", "restart"} : Request(a)

(* start, close, drain and the lock calls all have time limits; if a drain *)
(* or close hangs, the armed timer fires.                                  *)
Fairness == WF_vars(LoopStep) /\ WF_vars(HandlerStep)

Spec == Init /\ [][Next]_vars /\ Fairness

-----------------------------------------------------------------------------
(* Properties.                                                             *)

(* A server that is listening can still be closed: the loop holds its      *)
(* handle or its close is under way.  Otherwise the next start would find  *)
(* the port taken by this very process.  Only a close that throws or a     *)
(* restart in the middle of a start can drop the handle.                   *)
ListeningServerIsHeld ==
    (listening /\ ~exited) =>
        \/ server \/ request = "closing"
        \/ mishaps \cap {"closeFailed", "startInterrupted"} # {}

(* Outside a shutdown, a serving gateway holds the gateway lock, unless a  *)
(* failed start has released it: the next restart then has no lock and     *)
(* does not ask for one.                                                   *)
ServesUnderLock ==
    (server /\ ~shuttingDown /\ ~exited) => lock \/ "startFailed" \in mishaps

(* A shutdown or restart never hangs: the handler ends, ready for the next *)
(* signal, or the process exits.                                           *)
ShutdownEnds == shuttingDown ~> (exited \/ ~shuttingDown)

(* A restart comes round, in spite of failing closes and starts: it ends   *)
(* in a new wait for signals with a queue that accepts work, or in an      *)
(* exit.  A restart in the middle of a start may wake nobody.              *)
RestartComesRound ==
    (request = "draining" \/ loop = "iterating") ~>
        \/ exited \/ "startInterrupted" \in mishaps
        \/ loop = "waiting" /\ ~gatewayDraining

(* run-loop.ts:158 - new enqueues are rejected during the drain window of  *)
(* a restart: a gateway that is not restarting does not refuse work, as    *)
(* long as no restart was requested in the middle of a start.              *)
RefusesOnlyWhileRestarting ==
    (gatewayDraining /\ ~exited) =>
        shuttingDown \/ loop = "iterating" \/ "startInterrupted" \in mishaps

=============================================================================

------------------------ MODULE GatewayRunLoopProofs ------------------------
(***************************************************************************)
(* Safety of the gateway process loop for any number of signals.           *)
(*                                                                         *)
(* The properties need to know how far the two activities can drift apart. *)
(* Unless a restart was requested in the middle of a start, a restart      *)
(* handler and the loop are never busy at once: the handler works while    *)
(* the loop waits, with a resolver that will wake it.                      *)
(***************************************************************************)
EXTENDS GatewayRunLoop, TLAPS

Interrupted == "startInterrupted" \in mishaps

(* The loop waits exactly when it has a live resolver.                     *)
ResolverInv == loop = "waiting" <=> restartResolver = "live"

(* What the handler's position says about its flags.                       *)
HandlerInv ==
    /\ shuttingDown <=> request # "none"
    /\ request \in {"draining", "noServer", "reacquiring"} => action = "restart"

(* An undisturbed restart finds the loop waiting, and past its close no    *)
(* server; outside its wait the loop has no server.                        *)
HandoverInv ==
    ~Interrupted =>
        /\ (request # "none" /\ action = "restart") => loop = "waiting"
        /\ (action = "restart" /\ request \in {"noServer", "releasing", "unlocked", "reacquiring"})
              => ~server
        /\ loop # "waiting" => ~server
        /\ restartResolver = "none" => ~gatewayDraining

(* Until a start fails, only a restart about to take the lock again is     *)
(* without it.                                                             *)
LockInv ==
    (~exited /\ "startFailed" \notin mishaps) =>
        /\ lock \/ request = "reacquiring"
        /\ request # "unlocked"
        /\ loop # "releasing"

IInv ==
    /\ TypeOK /\ ResolverInv /\ HandlerInv /\ HandoverInv /\ LockInv
    /\ ListeningServerIsHeld /\ RefusesOnlyWhileRestarting

USE DEF isFirstIteration, Interrupted

LEMMA InitInv == Init => IInv
<1> SUFFICES ASSUME Init PROVE IInv
  OBVIOUS
<1>1. TypeOK
  <2>1. requests \in 0..MaxRequests
    BY BoundAssumption DEF Init
  <2> QED
    BY <2>1 DEF Init, TypeOK
<1>2. ResolverInv /\ HandlerInv /\ LockInv
  BY DEF Init, ResolverInv, HandlerInv, LockInv
<1>3. HandoverInv
  BY DEF Init, HandoverInv
<1>4. ListeningServerIsHeld /\ RefusesOnlyWhileRestarting
  BY DEF Init, ListeningServerIsHeld, RefusesOnlyWhileRestarting
<1> QED
  BY <1>1, <1>2, <1>3, <1>4 DEF IInv

(* The steps of the loop.                                                  *)
LEMMA LoopInv == IInv /\ LoopStep => IInv'
<1> SUFFICES ASSUME IInv, LoopStep PROVE IInv'
  OBVIOUS
<1> USE DEF IInv, TypeOK, ResolverInv, HandlerInv, HandoverInv, LockInv, ListeningServerIsHeld,
            RefusesOnlyWhileRestarting, Mishap
<1>1. CASE OnIteration
  BY <1>1, ZenonT(60) DEF OnIteration
<1>2. CASE StartSucceeds
  BY <1>2, ZenonT(60) DEF StartSucceeds
<1>3. CASE StartFails
  BY <1>3, ZenonT(60) DEF StartFails
<1>4. CASE LockReleasedAfterFailure
  BY <1>4, ZenonT(60) DEF LockReleasedAfterFailure
<1> QED
  BY <1>1, <1>2, <1>3, <1>4 DEF LoopStep

(* The steps of the signal handler.                                        *)
LEMMA HandlerStepInv == IInv /\ (HandlerStep \/ ForceExit) => IInv'
<1> SUFFICES ASSUME IInv, HandlerStep \/ ForceExit PROVE IInv'
  OBVIOUS
<1> USE DEF IInv, TypeOK, ResolverInv, HandlerInv, HandoverInv, LockInv, ListeningServerIsHeld,
            RefusesOnlyWhileRestarting, Mishap
<1>1. CASE DrainEnds
  BY <1>1, ZenonT(60) DEF DrainEnds
<1>2. CASE NothingToClose
  BY <1>2, ZenonT(60) DEF NothingToClose, Finally
<1>3. CASE ServerClosed
  BY <1>3, ZenonT(60) DEF ServerClosed, Finally
<1>4. CASE ServerCloseFails
  BY <1>4, ZenonT(60) DEF ServerCloseFails, Finally
<1>5. CASE Unlocked
  <2>1. CASE exited' = TRUE /\ UNCHANGED <<request, shuttingDown, restartResolver, loop>>
    BY <1>5, <2>1 DEF Unlocked
  <2>2. CASE action = "restart" /\ RestartInProcess /\ UNCHANGED exited
    BY <1>5, <2>2 DEF Unlocked, RestartInProcess
  <2> QED
    BY <1>5, <2>1, <2>2 DEF Unlocked
<1>6. CASE LockReleased
  BY <1>6, ZenonT(60) DEF LockReleased
<1>7. CASE LockReacquired
  BY <1>7, ZenonT(60) DEF LockReacquired, RestartInProcess
<1>8. CASE LockLost
  BY <1>8, ZenonT(60) DEF LockLost
<1>9. CASE ForceExit
  BY <1>9, ZenonT(60) DEF ForceExit
<1> QED
  BY <1>1, <1>2, <1>3, <1>4, <1>5, <1>6, <1>7, <1>8, <1>9 DEF HandlerStep

(* A signal.                                                               *)
LEMMA RequestInv == ASSUME IInv, NEW a \in {"stop", "restart"}, Request(a) PROVE IInv'
<1> USE BoundAssumption DEF IInv, TypeOK, ResolverInv, HandlerInv, HandoverInv, LockInv,
            ListeningServerIsHeld, RefusesOnlyWhileRestarting, Mishap
<1>1. CASE BeginClose
  <2>1. CASE server
    BY <1>1, <2>1 DEF Request, BeginClose
  <2>2. CASE ~server
    <3>1. request' \in {"releasing", "unlocked"} /\ (request' = "unlocked" <=> ~lock)
      BY <1>1, <2>2 DEF BeginClose, Finally
    <3>2. forceExitTimer' = FALSE /\ server' = FALSE
      BY <1>1, <2>2 DEF BeginClose, Finally
    <3>3. TypeOK'
      <4>1. requests' \in 0..MaxRequests /\ mishaps' \subseteq Mishap
        BY DEF Request
      <4>2. gatewayDraining' \in BOOLEAN /\ shuttingDown' \in BOOLEAN
        BY DEF Request
      <4> QED
        BY <3>1, <3>2, <4>1, <4>2 DEF Request
    <3>4. ResolverInv' /\ HandlerInv' /\ LockInv'
      BY <3>1, <3>2 DEF Request
    <3>5. HandoverInv'
      BY <3>1, <3>2 DEF Request
    <3>6. ListeningServerIsHeld' /\ RefusesOnlyWhileRestarting'
      BY <2>2, <3>1, <3>2 DEF Request
    <3> QED
      BY <3>3, <3>4, <3>5, <3>6
  <2> QED
    BY <2>1, <2>2
<1>2. CASE a = "restart" /\ request' = "draining" /\ forceExitTimer' = TRUE /\ UNCHANGED server
  BY <1>2 DEF Request
<1> QED
  BY <1>1, <1>2 DEF Request

(* IInv is an invariant of the run loop.                                   *)
THEOREM Invariance == Spec => []IInv
<1>1. Init => IInv
  BY InitInv
<1>2. IInv /\ [Next]_vars => IInv'
  <2> SUFFICES ASSUME IInv, [Next]_vars PROVE IInv'
    OBVIOUS
  <2>1. CASE UNCHANGED vars
    BY <2>1 DEF vars, IInv, TypeOK, ResolverInv, HandlerInv, HandoverInv, LockInv,
       ListeningServerIsHeld, RefusesOnlyWhileRestarting
  <2> QED
    BY <2>1, LoopInv, HandlerStepInv, RequestInv DEF Next
<1> QED
  BY <1>1, <1>2, PTL DEF Spec

(* The watchdog is armed only while a handler drains or closes.            *)
THEOREM TypeCorrect == Spec => []TypeOK
<1>1. IInv => TypeOK
  BY DEF IInv
<1> QED
  BY <1>1, Invariance, PTL

(* Only a close that throws or a restart in the middle of a start can cost *)
(* the process the handle of its listening server, after any signals.      *)
THEOREM ListeningServerIsHeldHolds == Spec => []ListeningServerIsHeld
<1>1. IInv => ListeningServerIsHeld
  BY DEF IInv
<1> QED
  BY <1>1, Invariance, PTL

(* Only a failed start can make the gateway serve without its lock.        *)
THEOREM ServesUnderLockHolds == Spec => []ServesUnderLock
<1>1. IInv => ServesUnderLock
  BY DEF IInv, LockInv, HandlerInv, ServesUnderLock
<1> QED
  BY <1>1, Invariance, PTL

(* Only a restart in the middle of a start can leave the queue closed      *)
(* outside a restart.                                                      *)
THEOREM RefusesOnlyWhileRestartingHolds == Spec => []RefusesOnlyWhileRestarting
<1>1. IInv => RefusesOnlyWhileRestarting
  BY DEF IInv
<1> QED
  BY <1>1, Invariance, PTL

=============================================================================

---------------------------- MODULE SessionLock -----------------------------
(***************************************************************************)
(* What the session write lock promises its callers: those that are        *)
(* between acquire and release at the same time share one hold, and so     *)
(* belong to one process.  The promise ends with a fault the lock does not *)
(* rule out; which ones those are, SessionWriteLock says.                  *)
(*                                                                         *)
(* Stated from how src/brain/src/agents/pi-embedded-runner uses the lock:  *)
(* it writes the transcript of a session between acquire and release.      *)
(***************************************************************************)
CONSTANTS Caller, NoCaller

VARIABLES
    using,    \* the hold a caller uses, named by the caller that made it
    excused   \* a fault has happened

Init == using = [c \in Caller |-> NoCaller] /\ excused = FALSE

Users == {c \in Caller : using[c] # NoCaller}

Acquire(c) ==
    /\ using[c] = NoCaller
    /\ Users = {} \/ excused
    /\ using' = [using EXCEPT ![c] = c]
    /\ UNCHANGED excused

Share(c) ==
    /\ using[c] = NoCaller
    /\ \E u \in Users : using' = [using EXCEPT ![c] = using[u]]
    /\ UNCHANGED excused

(* One caller releases, or all callers of a process are gone with it.      *)
Leave ==
    /\ \E gone \in SUBSET Users :
          using' = [c \in Caller |-> IF c \in gone THEN NoCaller ELSE using[c]]
    /\ UNCHANGED excused

Fault == excused' = TRUE /\ UNCHANGED using

Next == Fault \/ (\E c \in Caller : Acquire(c) \/ Share(c)) \/ Leave

Spec == Init /\ [][Next]_<<using, excused>>

=============================================================================

------------------------ MODULE MCSessionWriteLock --------------------------
(* Constants of the session write lock run.                                *)
EXTENDS SessionWriteLock

CONSTANTS p1, p2, p3, c1, c2, c3

(* A gateway, a command line process, and the gateway restarted with a pid *)
(* that was in use before.                                                 *)
ThreeProcesses == [p \in Proc |-> IF p = p2 THEN 2 ELSE 1]
Callers == [c \in Caller |-> IF c = c1 THEN p1 ELSE p2]

=============================================================================

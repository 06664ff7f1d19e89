--------------------------- MODULE MCEngineBridge ---------------------------
(* Constants of the engine bridge run.                                     *)
EXTENDS EngineBridge

CONSTANTS r1, r2, r3

(* Two requests of the same kind and one of another.                       *)
Kinds == [r \in Request |-> IF r = r3 THEN "FileContent" ELSE "BashResult"]

=============================================================================

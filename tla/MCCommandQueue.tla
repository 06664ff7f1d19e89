--------------------------- MODULE MCCommandQueue ---------------------------
(* Small instances of CommandQueue for TLC. *)
EXTENDS CommandQueue, TLC

(* Entries are interchangeable, waiters too; lanes are not, since one of   *)
(* them is serial.                                                         *)
Symmetry == Permutations(Entry) \cup Permutations(Waiter)

=============================================================================

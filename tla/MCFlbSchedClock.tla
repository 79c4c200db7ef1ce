--------------------------- MODULE MCFlbSchedClock ---------------------------
(* Instances of FlbSchedClock for TLC. *)
EXTENDS FlbSchedClock, TLC

CONSTANTS r1, r2

RequestSymmetry == Permutations(Requests)
=============================================================================

------------------------------ MODULE MCFlbInput ------------------------------
(* Instances of FlbInput for TLC: one tag that is matched, one that is not. *)
EXTENDS FlbInput, TLC

CONSTANTS a, b, d1, d2, d3
===============================================================================

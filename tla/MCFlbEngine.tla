----------------------------- MODULE MCFlbEngine -----------------------------
(***************************************************************************)
(* Instances of FlbEngine for TLC: two outputs with different retry_limits *)
(* (1 is the default of src/flb_output.c, -1 stands for no limit).         *)
(***************************************************************************)
EXTENDS FlbEngine, TLC

CONSTANTS p1, p2, in1, o1, o2

\* One input whose records go to both outputs.
MCRoutesFork == in1 :> <<o1, o2>>

\* One input, one output.
MCRoutesSingle == in1 :> <<o2>>

MCLimitFork   == o1 :> 0 @@ o2 :> 1
MCLimitSingle == o2 :> 1
MCUnlimited   == o1 :> -1 @@ o2 :> 0

TaskSymmetry == Permutations(Tasks)
=============================================================================

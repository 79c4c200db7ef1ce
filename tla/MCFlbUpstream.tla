---------------------------- MODULE MCFlbUpstream ----------------------------
(***************************************************************************)
(* Instances of FlbUpstream for TLC.                                       *)
(***************************************************************************)
EXTENDS FlbUpstream

CONSTANTS t1, t2

\* The rare outcomes happen to plain TCP connections, or to none.
TcpRare == {FALSE}
NoneRare == {}
=============================================================================

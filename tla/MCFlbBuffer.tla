----------------------------- MODULE MCFlbBuffer -----------------------------
(***************************************************************************)
(* Instances of FlbBuffer for TLC: chunk c1 is for both outputs and the    *)
(* others for one of them.                                                 *)
(***************************************************************************)
EXTENDS FlbBuffer, TLC

CONSTANTS c1, c2, c3, c4, o1, o2

MCOutputs == <<o1, o2>>
MCRoutes  == [c \in Chunks |-> IF c = c1 THEN {o1, o2} ELSE {o2}]

\* A process has stored and promoted every chunk and ended before any of them
\* was delivered: what the next one finds.
AllStored ==
  /\ incoming = {} /\ outgoing = {[chunk |-> c, routes |-> Routes[c], w |-> 0] : c \in Chunks}
  /\ tasks = [o \in OutputSet |-> {n \in outgoing : o \in n.routes}]
  /\ life = "down" /\ starts = 1
  /\ task = [c \in Chunks |-> "gone"] /\ ref_id = [c \in Chunks |-> 0]
  /\ pend = [c \in Chunks |-> {}] /\ worker_id = [c \in Chunks |-> 0]
  /\ worker_lru = -1 /\ ch_manager = <<>> /\ walk = NoWalk
  /\ ch_add = [w \in Workers |-> <<>>] /\ ch_mov = [w \in Workers |-> <<>>]
  /\ ch_del = [w \in Workers |-> <<>>] /\ ch_del_ref = [w \in Workers |-> <<>>]
  /\ ch_mng = [w \in Workers |-> FALSE]
  /\ batch = [w \in Workers |-> {}] /\ moving = [w \in Workers |-> {}]
  /\ run = [w \in Workers |-> FALSE]
  /\ queue = <<>> /\ qch = <<>> /\ qrun = FALSE
  /\ promoted = Chunks /\ popped = {} /\ refused = {}

RestartSpec == AllStored /\ [][Next]_vars
=============================================================================

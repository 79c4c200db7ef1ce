--------------------------- MODULE FlbUpstream_proofs ---------------------------
(***************************************************************************)
(* Proofs about FlbUpstream, for any number of co-routines, descriptors,   *)
(* I/O calls and waits.  Descriptors and connections: OwnInv, for every    *)
(* outcome of connect() and epoll_ctl().  Registrations: ArmInv, provided  *)
(* no TLS connection meets one of the rare outcomes.                       *)
(***************************************************************************)
EXTENDS FlbUpstream, FiniteSetTheorems, TLAPS

Masks  == SUBSET {"R", "W"}
Events == [fd : Fds \union {0}, mask : Masks, registered : BOOLEAN]
Places == {"new", "shake", "idle", "failed", "ended"} \union DOMAIN Waits

-------------------------------------------------------------------------------
(* The operators of the model.                                             *)

LEMMA WaitsValues ==
  /\ DOMAIN Waits = {"connect", "handshake R", "handshake W", "write again",
                     "write more", "read", "tls R", "tls W"}
  /\ Waits["connect"] = {"W"} /\ Waits["handshake R"] = {"R"}
  /\ Waits["handshake W"] = {"W"} /\ Waits["write again"] = {"W"}
  /\ Waits["write more"] = {"W"} /\ Waits["read"] = {"R"}
  /\ Waits["tls R"] = {"R"} /\ Waits["tls W"] = {"W"}
BY DEF Waits, WaitsR, WaitsW

LEMMA UsingValues ==
  Using = {"idle", "failed", "write again", "write more", "read", "tls R", "tls W"}
BY WaitsValues DEF Using, Establishing

LEMMA FdsFacts == /\ \A f \in Fds : f \in Nat /\ f > 0
                  /\ -1 \notin Fds /\ 0 \notin Fds
BY UpstreamAssumption DEF Fds, UpstreamAssumption

\* mk_event_add() and mk_event_del() keep events well formed.
LEMMA EventTypes ==
  ASSUME NEW e \in Events
  PROVE  /\ MK_EVENT_NEW(e) \in Events /\ MK_EVENT_NEW(e).fd = e.fd
         /\ MK_EVENT_NEW(e).mask = {} /\ MK_EVENT_NEW(e).registered = FALSE
         /\ DelEvent(e) \in Events /\ DelEvent(e).fd = e.fd
         /\ \A f \in Fds, m \in Masks, ok \in BOOLEAN :
              /\ Added(e, f, m, ok) \in Events
              /\ Added(e, f, m, ok).fd \in {e.fd, f}
<1>1. /\ MK_EVENT_NEW(e) \in Events /\ MK_EVENT_NEW(e).fd = e.fd
      /\ MK_EVENT_NEW(e).mask = {} /\ MK_EVENT_NEW(e).registered = FALSE
  BY DEF MK_EVENT_NEW, Events, Masks
<1>2. DelEvent(e) \in Events /\ DelEvent(e).fd = e.fd
  BY <1>1 DEF DelEvent
<1>3. ASSUME NEW f \in Fds, NEW m \in Masks, NEW ok \in BOOLEAN
      PROVE  /\ Added(e, f, m, ok) \in Events
             /\ Added(e, f, m, ok).fd \in {e.fd, f}
  <2>1. (e.registered \/ e.mask = {}) \in BOOLEAN
    OBVIOUS
  <2> QED
    BY <2>1 DEF Added, Events
<1> QED
  BY <1>1, <1>2, <1>3

LEMMA NewEventType == NewEvent \in Events /\ NewEvent.fd = 0
BY DEF NewEvent, Events, Masks

\* What is left of the interest list.
LEMMA DelInterestParts ==
  ASSUME NEW e
  PROVE  /\ DOMAIN DelInterest(e) \subseteq DOMAIN interest
         /\ \A g \in DOMAIN DelInterest(e) : DelInterest(e)[g] = interest[g]
         /\ DOMAIN interest \ {e.fd} \subseteq DOMAIN DelInterest(e)
         /\ e.registered => e.fd \notin DOMAIN DelInterest(e)
         /\ ~e.registered => DelInterest(e) = interest
BY DEF DelInterest, Without
-------------------------------------------------------------------------------
(* Descriptors and connections.                                            *)

(***************************************************************************)
(* What a step of co-routine t that takes it to `where' does, whatever the *)
(* call: it keeps its descriptor, gives it up, or (a read that could not   *)
(* register) closes it and keeps its number; it is queued when its         *)
(* connection is established and taken off when it is released.            *)
(***************************************************************************)
Shape(t, where) ==
  /\ pc' = [pc EXCEPT ![t] = where] /\ UNCHANGED <<tls, live>>
  /\ where \in Places \ {"new"}
  /\ current' = IF where \in {"shake", "idle", "failed"} THEN t ELSE NoThread
  /\ \/ /\ UNCHANGED <<fd, open, broken>>
        /\ where # "ended" /\ fd[t] \in open
     \/ /\ open' = open \ {fd[t]} /\ broken' = broken \ {fd[t]}
        /\ \/ fd' = [fd EXCEPT ![t] = -1] /\ where \in {"failed", "ended"}
           \/ fd' = fd /\ where = "failed"
  /\ \/ UNCHANGED upstream /\ (pc[t] \in Using <=> where \in Using)
     \/ Count(t) /\ pc[t] \notin Using /\ where \in Using
     \/ /\ busy_queue' = busy_queue \ {t} /\ n_connections' = n_connections - 1
        /\ pc[t] \in Using /\ where \notin Using
  /\ DOMAIN interest' \subseteq open'
  /\ \A f \in DOMAIN interest' :
       \/ f \in DOMAIN interest /\ interest'[f] = interest[f]
       \/ /\ f = fd[t] /\ interest'[f] \in [conn : Threads, mask : Masks]
          /\ interest'[f].conn = t
  /\ \E e \in Events : /\ event' = [event EXCEPT ![t] = e]
                       /\ where \notin {"failed", "ended"} => e.fd \in {0, fd[t]}
  /\ has_read' \in [Threads -> BOOLEAN]
  /\ calls' \in [Threads -> 0..MaxCalls] /\ waits' \in [Threads -> 0..MaxWaits]

LEMMA ShapeType ==
  ASSUME OwnInv, NEW t \in Threads, current = t, NEW where, Shape(t, where)
  PROVE  TypeOK'
<1> USE DEF OwnInv
<1>1. current' \in Threads \union {NoThread} /\ tls' \in BOOLEAN /\ live' \in BOOLEAN
  BY DEF Shape, TypeOK
<1>2. pc' \in [Threads -> Places]
  BY DEF Shape, TypeOK, Places
<1>3. fd' \in [Threads -> Fds \union {-1}]
  BY DEF Shape, TypeOK
<1>4. event' \in [Threads -> Events]
  BY DEF Shape, TypeOK, Events, Masks
<1>5. open' \subseteq Fds /\ broken' \subseteq open'
  BY DEF Shape, TypeOK
<1>6. \A f \in DOMAIN interest' : interest'[f] \in [conn : Threads, mask : Masks]
  BY DEF Shape, TypeOK, Masks
<1>7. busy_queue' \subseteq Threads
  BY DEF Shape, TypeOK, Count, upstream
<1>8. n_connections' \in Nat
  <2>1. CASE busy_queue' = busy_queue \ {t} /\ n_connections' = n_connections - 1
             /\ pc[t] \in Using
    <3>1. live
      BY UpstreamAssumption DEF FdInv, UpstreamAssumption
    <3>2. t \in busy_queue
      BY <2>1, <3>1 DEF QueueInv
    <3>3. n_connections # 0
      BY <3>2, FS_EmptySet DEF QueueInv
    <3>4. n_connections \in Nat
      BY DEF TypeOK
    <3>5. n_connections - 1 \in Nat
      BY <3>3, <3>4
    <3> QED
      BY <2>1, <3>5
  <2>2. CASE UNCHANGED upstream \/ Count(t)
    BY <2>2 DEF TypeOK, Count, upstream
  <2> QED
    BY <2>1, <2>2 DEF Shape
<1>9. /\ has_read' \in [Threads -> BOOLEAN]
      /\ calls' \in [Threads -> 0..MaxCalls] /\ waits' \in [Threads -> 0..MaxWaits]
      /\ DOMAIN interest' \subseteq open'
  BY DEF Shape
<1> QED
  BY <1>1, <1>2, <1>3, <1>4, <1>5, <1>6, <1>7, <1>8, <1>9
     DEF TypeOK, Events, Masks, Places

LEMMA ShapeFd ==
  ASSUME OwnInv, NEW t \in Threads, current = t, NEW where, Shape(t, where)
  PROVE  FdInv'
<1> USE DEF OwnInv
<1>1. /\ live /\ live' /\ pc[t] \notin {"new", "ended"} /\ t # NoThread
  BY UpstreamAssumption DEF FdInv, Shape, UpstreamAssumption
<1>2. /\ pc'[t] = where /\ where \in Places \ {"new"}
      /\ \A u \in Threads \ {t} : pc'[u] = pc[u] /\ fd'[u] = fd[u]
  BY DEF Shape, TypeOK
<1>3. \A u \in Threads \ {t} : pc[u] \notin {"shake", "idle", "failed"}
  BY DEF FdInv
<1>4. /\ fd'[t] \in {fd[t], -1} /\ open' \subseteq open
      /\ \A u \in Threads \ {t} : fd[u] \in open => fd[u] \in open'
  <2>1. fd'[t] \in {fd[t], -1} /\ open \ {fd[t]} \subseteq open' /\ open' \subseteq open
    BY DEF Shape, TypeOK
  <2>2. \A u \in Threads \ {t} : fd[u] \in open => fd[u] # fd[t]
    <3>1. \A f \in open : f > 0
      BY FdsFacts DEF TypeOK
    <3> QED
      BY <3>1 DEF FdInv
  <2> QED
    BY <2>1, <2>2
<1>5. current' = IF where \in {"shake", "idle", "failed"} THEN t ELSE NoThread
  BY DEF Shape
<1>6. ASSUME NEW u \in Threads, u # t
      PROVE  /\ pc'[u] \in {"new", "ended"} => fd'[u] = -1
             /\ pc'[u] \in {"shake", "idle", "failed"} => current' = u
             /\ pc'[u] \in {"shake", "idle"} \union Establishing => fd'[u] \in open'
             /\ live' /\ pc'[u] \in DOMAIN Waits => fd'[u] \in open'
             /\ fd'[u] > 0 /\ fd'[u] \notin open' => pc'[u] = "failed"
  BY <1>1, <1>2, <1>3, <1>4, <1>6 DEF FdInv
<1>7. /\ pc'[t] \in {"new", "ended"} => fd'[t] = -1
      /\ pc'[t] \in {"shake", "idle", "failed"} => current' = t
      /\ pc'[t] \notin {"failed", "ended"} => fd'[t] \in open'
      /\ fd'[t] > 0 /\ fd'[t] \notin open' => pc'[t] = "failed"
  <2>1. CASE UNCHANGED <<fd, open, broken>> /\ where # "ended" /\ fd[t] \in open
    BY <1>2, <1>5, <2>1 DEF TypeOK
  <2>2. CASE fd' = [fd EXCEPT ![t] = -1] /\ where \in {"failed", "ended"}
    BY <1>2, <1>5, <2>2 DEF TypeOK
  <2>3. CASE fd' = fd /\ where = "failed"
    BY <1>2, <1>5, <2>3
  <2> QED
    BY <2>1, <2>2, <2>3 DEF Shape
<1>8. pc'[t] \in {"shake", "idle"} \union Establishing \union DOMAIN Waits =>
        fd'[t] \in open'
  BY <1>7, WaitsValues DEF Establishing
<1>9. current' # NoThread => live' /\ pc'[current'] \notin {"new", "ended"}
  BY <1>1, <1>2, <1>5
<1>10. \A f \in open' : \E u \in Threads : fd'[u] = f
  <2> SUFFICES ASSUME NEW f \in open' PROVE \E u \in Threads : fd'[u] = f
    OBVIOUS
  <2>1. PICK u \in Threads : fd[u] = f
    BY <1>4 DEF FdInv
  <2>2. u = t => fd'[t] = fd[t]
    BY <2>1 DEF Shape
  <2> QED
    BY <1>2, <2>1, <2>2
<1>11. \A u, v \in Threads : fd'[u] = fd'[v] /\ fd'[u] > 0 => u = v
  BY <1>2, <1>4 DEF FdInv
<1> QED
  BY <1>6, <1>7, <1>8, <1>9, <1>10, <1>11 DEF FdInv

LEMMA ShapeQueue ==
  ASSUME OwnInv, NEW t \in Threads, current = t, NEW where, Shape(t, where)
  PROVE  QueueInv'
<1> USE DEF OwnInv
<1>1. live /\ live'
  BY UpstreamAssumption DEF FdInv, Shape, UpstreamAssumption
<1>2. pc'[t] = where /\ \A u \in Threads \ {t} : pc'[u] = pc[u]
  BY DEF Shape, TypeOK
<1>3. busy_queue = {u \in Threads : pc[u] \in Using}
  BY <1>1 DEF QueueInv
<1>4. CASE UNCHANGED upstream /\ (pc[t] \in Using <=> where \in Using)
  BY <1>1, <1>2, <1>3, <1>4 DEF QueueInv, upstream
<1>5. CASE Count(t) /\ pc[t] \notin Using /\ where \in Using
  <2>1. busy_queue' = {u \in Threads : pc'[u] \in Using} /\ t \notin busy_queue
    BY <1>2, <1>3, <1>5 DEF Count
  <2>2. IsFiniteSet(busy_queue') /\ n_connections' = Cardinality(busy_queue')
    <3>1. IsFiniteSet(busy_queue) /\ n_connections = Cardinality(busy_queue)
      BY <1>1 DEF QueueInv
    <3>2. busy_queue' = busy_queue \union {t} /\ n_connections' = n_connections + 1
      BY <1>5 DEF Count
    <3>3. /\ IsFiniteSet(busy_queue \union {t})
          /\ Cardinality(busy_queue \union {t}) = Cardinality(busy_queue) + 1
      BY <2>1, <3>1, FS_AddElement
    <3> QED
      BY <3>1, <3>2, <3>3
  <2> QED
    BY <1>1, <2>1, <2>2 DEF QueueInv
<1>6. CASE /\ busy_queue' = busy_queue \ {t} /\ n_connections' = n_connections - 1
           /\ pc[t] \in Using /\ where \notin Using
  <2>1. busy_queue' = {u \in Threads : pc'[u] \in Using} /\ t \in busy_queue
    BY <1>2, <1>3, <1>6
  <2>2. IsFiniteSet(busy_queue') /\ n_connections' = Cardinality(busy_queue')
    BY <1>6, <2>1, FS_RemoveElement DEF QueueInv
  <2> QED
    BY <1>1, <2>1, <2>2 DEF QueueInv
<1> QED
  BY <1>4, <1>5, <1>6 DEF Shape

LEMMA ShapeEpoll ==
  ASSUME OwnInv, NEW t \in Threads, current = t, NEW where, Shape(t, where)
  PROVE  EpollInv'
<1> USE DEF OwnInv
<1>1. /\ pc'[t] = where
      /\ \A u \in Threads \ {t} : pc'[u] = pc[u] /\ fd'[u] = fd[u] /\ event'[u] = event[u]
  BY DEF Shape, TypeOK
<1>2. ASSUME NEW f \in DOMAIN interest' PROVE fd'[interest'[f].conn] = f
  <2>1. f \in open' /\ f \in open
    BY DEF Shape
  <2>2. fd[interest'[f].conn] = f /\ interest'[f].conn \in Threads
    BY DEF Shape, EpollInv, TypeOK
  <2>3. interest'[f].conn = t => fd'[t] = fd[t]
    BY <2>1, <2>2 DEF Shape
  <2> QED
    BY <1>1, <2>2, <2>3
<1>3. ASSUME NEW u \in Threads, pc'[u] \notin {"failed", "ended"}
      PROVE  event'[u].fd \in {0, fd'[u]}
  <2>1. CASE u = t
    <3>1. fd' = fd
      BY <1>1, <1>3, <2>1 DEF Shape
    <3> QED
      BY <1>1, <1>3, <2>1, <3>1 DEF Shape, TypeOK
  <2>2. CASE u # t
    BY <1>1, <1>3, <2>2 DEF EpollInv
  <2> QED
    BY <2>1, <2>2
<1> QED
  BY <1>2, <1>3 DEF EpollInv

\* So a step of that shape keeps the whole invariant.
LEMMA ShapeOwn ==
  ASSUME OwnInv, NEW t \in Threads, current = t, NEW where, Shape(t, where)
  PROVE  OwnInv'
<1>1. TypeOK' /\ FdInv'
  BY ShapeType, ShapeFd
<1>2. QueueInv' /\ EpollInv'
  BY ShapeQueue, ShapeEpoll
<1> QED
  BY <1>1, <1>2 DEF OwnInv

\* The step of an I/O call as it appears in the event and the interest list:
\* adding, deleting and closing only concern the descriptor of t.
LEMMA Parts ==
  ASSUME OwnInv, NEW t \in Threads, current = t
  PROVE  /\ live /\ t # NoThread /\ event[t] \in Events
         /\ DOMAIN interest \subseteq open /\ open \subseteq Fds
         /\ pc[t] # "failed" => fd[t] \in open /\ event[t].fd \in {0, fd[t]}
<1>1. live /\ t # NoThread /\ event[t] \in Events
      /\ DOMAIN interest \subseteq open /\ open \subseteq Fds
      /\ pc[t] \notin {"new", "ended"} /\ pc[t] \in Places
  BY UpstreamAssumption
     DEF OwnInv, FdInv, TypeOK, Events, Masks, Places, UpstreamAssumption
<1>2. ASSUME pc[t] # "failed" PROVE fd[t] \in open /\ event[t].fd \in {0, fd[t]}
  BY <1>1, <1>2 DEF OwnInv, FdInv, EpollInv, Places
<1> QED
  BY <1>1, <1>2

\* The counters and flags of the calls have their types.
Counted ==
  /\ has_read' \in [Threads -> BOOLEAN]
  /\ calls' \in [Threads -> 0..MaxCalls] /\ waits' \in [Threads -> 0..MaxWaits]

LEMMA CountedStep ==
  ASSUME TypeOK, NEW t \in Threads
  PROVE  /\ UNCHANGED <<has_read, calls, waits>> => Counted
         /\ has_read' = [has_read EXCEPT ![t] = TRUE] =>
              has_read' \in [Threads -> BOOLEAN]
         /\ calls[t] < MaxCalls /\ calls' = [calls EXCEPT ![t] = @ + 1] =>
              calls' \in [Threads -> 0..MaxCalls]
         /\ waits[t] < MaxWaits /\ waits' = [waits EXCEPT ![t] = @ + 1] =>
              waits' \in [Threads -> 0..MaxWaits]
<1>1. UNCHANGED <<has_read, calls, waits>> => Counted
  BY DEF Counted, TypeOK
<1>2. has_read' = [has_read EXCEPT ![t] = TRUE] => has_read' \in [Threads -> BOOLEAN]
  BY DEF TypeOK
<1>3. calls[t] < MaxCalls /\ calls' = [calls EXCEPT ![t] = @ + 1] =>
        calls' \in [Threads -> 0..MaxCalls]
  <2>1. calls[t] < MaxCalls => calls[t] + 1 \in 0..MaxCalls
    BY UpstreamAssumption DEF TypeOK, UpstreamAssumption
  <2> QED
    BY <2>1 DEF TypeOK
<1>4. waits[t] < MaxWaits /\ waits' = [waits EXCEPT ![t] = @ + 1] =>
        waits' \in [Threads -> 0..MaxWaits]
  <2>1. waits[t] < MaxWaits => waits[t] + 1 \in 0..MaxWaits
    BY UpstreamAssumption DEF TypeOK, UpstreamAssumption
  <2> QED
    BY <2>1 DEF TypeOK
<1> QED
  BY <1>1, <1>2, <1>3, <1>4

\* A connection is given up before it is established.
LEMMA AbandonOwn ==
  ASSUME OwnInv, NEW t \in Threads, current = t, pc[t] \notin Using,
         Abandon(t, DelEvent(event[t]), DelInterest(event[t])),
         UNCHANGED <<tls, live>>, Counted
  PROVE  OwnInv'
<1>1. /\ event[t] \in Events /\ DOMAIN interest \subseteq open
  BY Parts
<1>2. /\ DelEvent(event[t]) \in Events
      /\ DOMAIN DelInterest(event[t]) \subseteq DOMAIN interest
      /\ \A g \in DOMAIN DelInterest(event[t]) : DelInterest(event[t])[g] = interest[g]
  BY <1>1, EventTypes, DelInterestParts
<1>3. Shape(t, "ended")
  BY <1>1, <1>2, UsingValues DEF Shape, Abandon, Close, End, Places, Counted
<1> QED
  BY <1>3, ShapeOwn

\* A write fails.
LEMMA WriteFailsOwn ==
  ASSUME OwnInv, NEW t \in Threads, current = t, pc[t] \in Using,
         NEW e \in Events, NEW reg, DOMAIN reg \subseteq DOMAIN interest,
         \A g \in DOMAIN reg : reg[g] = interest[g],
         WriteFails(t, e, reg), UNCHANGED <<tls, live, upstream>>, Counted
  PROVE  OwnInv'
<1>1. DOMAIN interest \subseteq open
  BY Parts
<1>2. Shape(t, "failed")
  BY <1>1, UsingValues DEF Shape, WriteFails, Close, Go, Places, Counted
<1> QED
  BY <1>2, ShapeOwn

\* The co-routine goes on or yields, and keeps its descriptor.
LEMMA KeepsOwn ==
  ASSUME OwnInv, NEW t \in Threads, current = t, pc[t] # "failed",
         NEW where \in Places \ {"new", "ended"},
         pc' = [pc EXCEPT ![t] = where],
         current' = IF where \in {"shake", "idle", "failed"} THEN t ELSE NoThread,
         \/ UNCHANGED upstream /\ (pc[t] \in Using <=> where \in Using)
         \/ Count(t) /\ pc[t] \notin Using /\ where \in Using,
         UNCHANGED <<tls, live, fd, open, broken>>, Counted,
         \/ UNCHANGED <<event, interest>>
         \/ /\ event' = [event EXCEPT ![t] = DelEvent(@)]
            /\ interest' = DelInterest(event[t])
         \/ \E e \in {event[t], MK_EVENT_NEW(event[t])}, f \in open, m \in {"R", "W"} :
              f \in {fd[t], event[t].fd} /\ mk_event_add(t, e, f, {m}, TRUE)
         \/ \E f \in {fd[t], event[t].fd}, m \in {"R", "W"} :
              mk_event_add(t, event[t], f, {m}, FALSE)
  PROVE  OwnInv'
<1>1. /\ event[t] \in Events /\ DOMAIN interest \subseteq open /\ open \subseteq Fds
      /\ fd[t] \in open /\ event[t].fd \in {0, fd[t]}
  BY Parts
<1>2. event \in [Threads -> Events]
  BY DEF OwnInv, TypeOK, Events, Masks
<1>3. ASSUME NEW e \in Events, event' = [event EXCEPT ![t] = e],
             e.fd \in {0, fd[t]}, DOMAIN interest' \subseteq open,
             \A f \in DOMAIN interest' :
               \/ f \in DOMAIN interest /\ interest'[f] = interest[f]
               \/ /\ f = fd[t] /\ interest'[f] \in [conn : Threads, mask : Masks]
                  /\ interest'[f].conn = t
      PROVE  OwnInv'
  <2>1. Shape(t, where)
    BY <1>1, <1>3 DEF Shape, Counted
  <2> QED
    BY <2>1, ShapeOwn
<1>4. CASE UNCHANGED <<event, interest>>
  <2>1. event' = [event EXCEPT ![t] = event[t]]
    BY <1>2, <1>4
  <2> QED
    BY <1>1, <1>3, <1>4, <2>1
<1>5. CASE /\ event' = [event EXCEPT ![t] = DelEvent(@)]
           /\ interest' = DelInterest(event[t])
  <2>1. /\ event' = [event EXCEPT ![t] = DelEvent(event[t])]
        /\ DelEvent(event[t]) \in Events /\ DelEvent(event[t]).fd = event[t].fd
    BY <1>1, <1>2, <1>5, EventTypes
  <2>2. /\ DOMAIN interest' \subseteq open
        /\ \A f \in DOMAIN interest' : f \in DOMAIN interest /\ interest'[f] = interest[f]
    BY <1>1, <1>5, DelInterestParts
  <2> QED
    BY <1>1, <1>3, <2>1, <2>2
<1>6. ASSUME NEW e \in {event[t], MK_EVENT_NEW(event[t])}, NEW f \in open,
             NEW m \in {"R", "W"}, f \in {fd[t], event[t].fd},
             mk_event_add(t, e, f, {m}, TRUE)
      PROVE  OwnInv'
  <2>1. f = fd[t] /\ f \in Fds
    BY <1>1, <1>6, FdsFacts
  <2>2. e \in Events /\ e.fd \in {0, fd[t]} /\ {m} \in Masks
    BY <1>1, <1>6, EventTypes DEF Masks
  <2>3. Added(e, f, {m}, TRUE) \in Events /\ Added(e, f, {m}, TRUE).fd \in {0, fd[t]}
    BY <2>1, <2>2, EventTypes
  <2>4. /\ event' = [event EXCEPT ![t] = Added(e, f, {m}, TRUE)]
        /\ interest' = With(f, [conn |-> t, mask |-> {m}])
    BY <1>6 DEF mk_event_add
  <2>5. /\ DOMAIN interest' \subseteq open
        /\ \A g \in DOMAIN interest' :
             \/ g \in DOMAIN interest /\ interest'[g] = interest[g]
             \/ /\ g = fd[t] /\ interest'[g] \in [conn : Threads, mask : Masks]
                /\ interest'[g].conn = t
    <3> DEFINE r == [conn |-> t, mask |-> {m}]
    <3>1. r \in [conn : Threads, mask : Masks] /\ r.conn = t
      BY <2>2
    <3>2. /\ DOMAIN interest' = DOMAIN interest \union {f} /\ interest'[f] = r
          /\ \A g \in DOMAIN interest \ {f} : interest'[g] = interest[g]
      BY <2>4 DEF With
    <3> HIDE DEF r
    <3> QED
      BY <1>1, <2>1, <3>1, <3>2
  <2> QED
    BY <1>3, <2>3, <2>4, <2>5
<1>7. ASSUME NEW f \in {fd[t], event[t].fd}, NEW m \in {"R", "W"},
             mk_event_add(t, event[t], f, {m}, FALSE)
      PROVE  OwnInv'
  <2>1. Added(event[t], f, {m}, FALSE) \in Events
        /\ Added(event[t], f, {m}, FALSE).fd \in {0, fd[t]}
    <3>1. (event[t].registered \/ event[t].mask = {}) \in BOOLEAN
      OBVIOUS
    <3> QED
      BY <1>1, <3>1 DEF Added, Events
  <2>2. /\ event' = [event EXCEPT ![t] = Added(event[t], f, {m}, FALSE)]
        /\ interest' = interest
    BY <1>7 DEF mk_event_add
  <2> QED
    BY <1>1, <1>3, <2>1, <2>2
<1> QED
  BY <1>4, <1>5, <1>6, <1>7

(* Each of the calls.                                                      *)

LEMMA ConnectDoneOwn ==
  ASSUME OwnInv, NEW t \in Threads, ConnectDone(t)
  PROVE  OwnInv'
<1>1. /\ current = t /\ pc[t] = "connect" /\ UNCHANGED <<tls, live>> /\ Counted
  BY CountedStep DEF ConnectDone, counts, OwnInv
<1>2. CASE fd[t] \in broken
  BY <1>1, <1>2, AbandonOwn, UsingValues DEF ConnectDone
<1>3. CASE fd[t] \notin broken
  <2>1. /\ event' = [event EXCEPT ![t] = DelEvent(@)]
        /\ interest' = DelInterest(event[t])
        /\ Connected(t) /\ UNCHANGED <<current, fd, open, broken>>
    BY <1>3 DEF ConnectDone
  <2>2. CASE tls
    <3> DEFINE where == "shake"
    <3>1. /\ pc' = [pc EXCEPT ![t] = where] /\ UNCHANGED upstream
          /\ pc[t] \notin Using /\ where \notin Using /\ current' = t
          /\ where \in Places \ {"new", "ended"}
      BY <1>1, <2>1, <2>2, UsingValues DEF Connected, Places
    <3> QED
      BY <1>1, <2>1, <3>1, KeepsOwn
  <2>3. CASE ~tls
    <3> DEFINE where == "idle"
    <3>1. /\ pc' = [pc EXCEPT ![t] = where] /\ Count(t)
          /\ pc[t] \notin Using /\ where \in Using /\ current' = t
          /\ where \in Places \ {"new", "ended"}
      BY <1>1, <2>1, <2>3, UsingValues DEF Connected, Places
    <3> QED
      BY <1>1, <2>1, <3>1, KeepsOwn
  <2> QED
    BY <2>2, <2>3
<1> QED
  BY <1>2, <1>3

LEMMA HandshakeOwn ==
  ASSUME OwnInv, NEW t \in Threads, Handshake(t)
  PROVE  OwnInv'
<1>1. /\ current = t /\ pc[t] \in {"shake", "handshake R", "handshake W"}
      /\ UNCHANGED <<tls, live, has_read, calls>> /\ pc[t] \notin Using
  BY UsingValues DEF Handshake
<1>2. CASE /\ fd[t] \notin broken
           /\ event' = [event EXCEPT ![t] = DelEvent(@)]
           /\ interest' = DelInterest(event[t])
           /\ Go(t, "idle") /\ Count(t)
           /\ UNCHANGED <<fd, waits, open, broken>>
  <2> DEFINE where == "idle"
  <2>1. /\ pc' = [pc EXCEPT ![t] = where] /\ current' = t /\ where \in Using
        /\ where \in Places \ {"new", "ended"} /\ Counted
    BY <1>1, <1>2, UsingValues, CountedStep DEF Go, Places, OwnInv
  <2> QED
    BY <1>1, <1>2, <2>1, KeepsOwn
<1>3. CASE /\ fd[t] \notin broken /\ waits[t] < MaxWaits
           /\ waits' = [waits EXCEPT ![t] = @ + 1]
           /\ \E want \in {"R", "W"}, ok \in Outcomes(event[t].mask = {}, event[t].fd) :
                IF ok
                THEN /\ mk_event_add(t, event[t], event[t].fd, {want}, TRUE)
                     /\ Yield(t, IF want = "R" THEN "handshake R" ELSE "handshake W")
                     /\ UNCHANGED <<fd, open, broken, upstream>>
                ELSE Abandon(t, DelEvent(event[t]), DelInterest(event[t]))
  <2>1. Counted
    BY <1>1, <1>3, CountedStep DEF Counted, OwnInv, TypeOK
  <2>2. PICK want \in {"R", "W"}, ok \in Outcomes(event[t].mask = {}, event[t].fd) :
                IF ok
                THEN /\ mk_event_add(t, event[t], event[t].fd, {want}, TRUE)
                     /\ Yield(t, IF want = "R" THEN "handshake R" ELSE "handshake W")
                     /\ UNCHANGED <<fd, open, broken, upstream>>
                ELSE Abandon(t, DelEvent(event[t]), DelInterest(event[t]))
    BY <1>3
  <2>3. CASE ok
    <3> DEFINE where == IF want = "R" THEN "handshake R" ELSE "handshake W"
    <3>1. /\ pc' = [pc EXCEPT ![t] = where] /\ current' = NoThread
          /\ where \notin Using /\ where \in Places \ {"new", "ended"}
          /\ where \notin {"shake", "idle", "failed"}
      BY <2>2, <2>3, UsingValues, WaitsValues DEF Yield, Places
    <3>2. event[t].fd \in open
      BY <2>2, <2>3 DEF Outcomes
    <3>3. mk_event_add(t, event[t], event[t].fd, {want}, TRUE)
          /\ UNCHANGED <<fd, open, broken, upstream>>
      BY <2>2, <2>3
    <3> HIDE DEF where
    <3> QED
      BY <1>1, <2>1, <3>1, <3>2, <3>3, KeepsOwn
  <2>4. CASE ~ok
    BY <1>1, <2>1, <2>2, <2>4, AbandonOwn
  <2> QED
    BY <2>3, <2>4
<1>4. CASE /\ fd[t] \in broken
           /\ Abandon(t, DelEvent(event[t]), DelInterest(event[t]))
           /\ UNCHANGED waits
  <2>1. Counted
    BY <1>1, <1>4, CountedStep DEF OwnInv
  <2> QED
    BY <1>1, <1>4, <2>1, AbandonOwn
<1> QED
  BY <1>2, <1>3, <1>4 DEF Handshake

\* The calls that write to a plain TCP connection.
WriteCall(t) == \/ Sent(t) \/ SentPart(t) \/ WouldBlock(t)
                \/ WriteAgain(t) \/ SendError(t)

LEMMA WriteOwn ==
  ASSUME OwnInv, NEW t \in Threads, WriteCall(t)
  PROVE  OwnInv'
<1>1. /\ current = t /\ pc[t] \in {"idle", "write more", "write again"}
      /\ UNCHANGED <<tls, live, has_read, upstream>>
      /\ calls' \in [Threads -> 0..MaxCalls] /\ has_read' \in [Threads -> BOOLEAN]
  <2>1. CASE WriteAgain(t)
    BY <2>1 DEF WriteAgain, counts, OwnInv, TypeOK
  <2>2. CASE ~WriteAgain(t)
    <3>1. Writing(t)
      BY <2>2 DEF WriteCall, Sent, SentPart, WouldBlock, SendError
    <3> QED
      BY <3>1, CountedStep DEF Writing, OwnInv, TypeOK
  <2> QED
    BY <2>1, <2>2
<1>2. /\ pc[t] \in Using /\ pc[t] # "failed" /\ {"idle", "write more", "write again"} \subseteq Using
      /\ {"idle", "write more", "write again"} \subseteq Places \ {"new", "ended"}
  BY <1>1, UsingValues, WaitsValues DEF Places
<1>3. /\ event[t] \in Events /\ event[t].fd \in {0, fd[t]} /\ fd[t] \in open
      /\ fd[t] \in Fds
  BY <1>1, <1>2, Parts
<1>4. waits' \in [Threads -> 0..MaxWaits]
  <2>1. CASE waits[t] < MaxWaits /\ waits' = [waits EXCEPT ![t] = @ + 1]
    BY <2>1, CountedStep DEF OwnInv
  <2>2. CASE UNCHANGED waits
    BY <2>2 DEF OwnInv, TypeOK
  <2> QED
    BY <2>1, <2>2 DEF WriteCall, Sent, SentPart, WouldBlock, WriteAgain, SendError, counts
<1>5. Counted
  BY <1>1, <1>4 DEF Counted
<1>6. NotAdded(t) \in Events
  <2>1. MK_EVENT_NEW(event[t]) \in Events /\ {"W"} \in Masks
    BY <1>3, EventTypes DEF Masks
  <2> QED
    BY <1>3, <2>1, EventTypes DEF NotAdded
<1>7. ASSUME \E ok \in Outcomes(TRUE, fd[t]), where \in {"write more", "write again"} :
               IF ok THEN /\ mk_event_add(t, MK_EVENT_NEW(event[t]), fd[t], {"W"}, TRUE)
                          /\ Yield(t, where) /\ UNCHANGED <<fd, open, broken>>
                     ELSE WriteFails(t, NotAdded(t), interest)
      PROVE  OwnInv'
  <2>1. PICK where \in {"write more", "write again"} :
          \/ /\ mk_event_add(t, MK_EVENT_NEW(event[t]), fd[t], {"W"}, TRUE)
             /\ Yield(t, where) /\ UNCHANGED <<fd, open, broken>>
          \/ WriteFails(t, NotAdded(t), interest)
    BY <1>7
  <2>2. CASE /\ mk_event_add(t, MK_EVENT_NEW(event[t]), fd[t], {"W"}, TRUE)
             /\ Yield(t, where) /\ UNCHANGED <<fd, open, broken>>
    <3>1. /\ where \in Using /\ where \in Places \ {"new", "ended"}
          /\ where \notin {"shake", "idle", "failed"}
          /\ pc' = [pc EXCEPT ![t] = where] /\ current' = NoThread
      BY <1>2, <2>2 DEF Yield
    <3> QED
      BY <1>1, <1>2, <1>3, <1>5, <2>2, <3>1, KeepsOwn
  <2>3. CASE WriteFails(t, NotAdded(t), interest)
    BY <1>1, <1>2, <1>5, <1>6, <2>3, WriteFailsOwn
  <2> QED
    BY <2>1, <2>2, <2>3
<1>8. CASE Sent(t)
  <2>1. /\ event' = [event EXCEPT ![t] = DelEvent(@)]
        /\ interest' = DelInterest(event[t])
        /\ pc' = [pc EXCEPT ![t] = "idle"] /\ current' = t
        /\ UNCHANGED <<fd, open, broken>>
    BY <1>1, <1>8 DEF Sent, Go
  <2> QED
    BY <1>1, <1>2, <1>5, <2>1, KeepsOwn
<1>9. CASE SentPart(t)
  <2>1. CASE event[t].registered
    <3>1. /\ pc' = [pc EXCEPT ![t] = "write more"] /\ current' = NoThread
          /\ UNCHANGED <<event, interest, fd, open, broken>>
      BY <1>9, <2>1 DEF SentPart, Yield
    <3> QED
      BY <1>1, <1>2, <1>5, <3>1, KeepsOwn
  <2>2. CASE ~event[t].registered
    BY <1>7, <1>9, <2>2 DEF SentPart
  <2> QED
    BY <2>1, <2>2
<1>10. CASE WouldBlock(t)
  BY <1>7, <1>10 DEF WouldBlock
<1>11. CASE WriteAgain(t)
  <2> DEFINE e == DelEvent(event[t])
  <2>1. ~(Deletes(event[t]) /\ "W" \in e.mask)
    BY <1>3, EventTypes DEF DelEvent
  <2>2. WriteFails(t, e, DelInterest(event[t]))
    BY <1>11, <2>1 DEF WriteAgain
  <2>3. e \in Events
    BY <1>3, EventTypes
  <2> HIDE DEF e
  <2>4. /\ DOMAIN DelInterest(event[t]) \subseteq DOMAIN interest
        /\ \A g \in DOMAIN DelInterest(event[t]) : DelInterest(event[t])[g] = interest[g]
    BY DelInterestParts
  <2> QED
    BY <1>1, <1>2, <1>5, <2>2, <2>3, <2>4, WriteFailsOwn
<1>12. CASE SendError(t)
  <2>1. WriteFails(t, event[t], interest)
    BY <1>12 DEF SendError
  <2> QED
    BY <1>1, <1>2, <1>3, <1>5, <2>1, WriteFailsOwn
<1> QED
  BY <1>8, <1>9, <1>10, <1>11, <1>12 DEF WriteCall

\* The calls that read from a plain TCP connection.
ReadCall(t) == Received(t) \/ ReadBlocks(t) \/ ReadError(t)

LEMMA ReadOwn ==
  ASSUME OwnInv, NEW t \in Threads, ReadCall(t)
  PROVE  OwnInv'
<1>1. /\ Reading(t) /\ current = t /\ pc[t] \in {"idle", "read"}
      /\ UNCHANGED <<tls, live, upstream>>
      /\ calls' \in [Threads -> 0..MaxCalls] /\ has_read' \in [Threads -> BOOLEAN]
  <2>1. Reading(t)
    BY DEF ReadCall, Received, ReadBlocks, ReadError
  <2> QED
    BY <2>1, CountedStep DEF Reading, OwnInv, TypeOK
<1>2. /\ pc[t] \in Using /\ pc[t] # "failed" /\ {"idle", "read", "failed"} \subseteq Using
      /\ {"idle", "read", "failed"} \subseteq Places \ {"new", "ended"}
  BY <1>1, UsingValues, WaitsValues DEF Places
<1>3. /\ event[t] \in Events /\ event[t].fd \in {0, fd[t]} /\ fd[t] \in open
      /\ fd[t] \in Fds /\ DOMAIN interest \subseteq open
  BY <1>1, <1>2, Parts
<1>4. waits' \in [Threads -> 0..MaxWaits]
  <2>1. CASE waits[t] < MaxWaits /\ waits' = [waits EXCEPT ![t] = @ + 1]
    BY <2>1, CountedStep DEF OwnInv
  <2>2. CASE UNCHANGED waits
    BY <2>2 DEF OwnInv, TypeOK
  <2> QED
    BY <2>1, <2>2 DEF ReadCall, Received, ReadBlocks, ReadError
<1>5. Counted
  BY <1>1, <1>4 DEF Counted
<1>6. CASE Received(t) \/ ReadError(t)
  <2>1. PICK where \in {"idle", "failed"} :
          /\ pc' = [pc EXCEPT ![t] = where] /\ current' = t
          /\ UNCHANGED <<fd, event, open, broken, interest>>
    BY <1>1, <1>6 DEF Received, ReadError, Go, conn, kernel
  <2> QED
    BY <1>1, <1>2, <1>5, <2>1, KeepsOwn
<1>7. CASE ReadBlocks(t)
  <2>1. PICK ok \in Outcomes(event[t].mask = {}, fd[t]) :
       IF ok THEN /\ mk_event_add(t, event[t], fd[t], {"R"}, TRUE)
                  /\ Yield(t, "read") /\ UNCHANGED <<fd, open, broken>>
             ELSE /\ Close(fd[t], interest)
                  /\ event' = [event EXCEPT ![t] = Added(@, fd[t], {"R"}, FALSE)]
                  /\ Go(t, "failed") /\ UNCHANGED fd
    BY <1>7 DEF ReadBlocks
  <2>2. CASE ok
    <3>1. /\ pc' = [pc EXCEPT ![t] = "read"] /\ current' = NoThread
          /\ mk_event_add(t, event[t], fd[t], {"R"}, TRUE)
          /\ UNCHANGED <<fd, open, broken>>
      BY <2>1, <2>2 DEF Yield
    <3> QED
      BY <1>1, <1>2, <1>3, <1>5, <3>1, KeepsOwn
  <2>3. CASE ~ok
    <3> DEFINE e == Added(event[t], fd[t], {"R"}, FALSE)
    <3>1. /\ Close(fd[t], interest) /\ Go(t, "failed") /\ UNCHANGED fd
          /\ event' = [event EXCEPT ![t] = e]
      BY <2>1, <2>3
    <3>2. e \in Events
      <4>1. {"R"} \in Masks
        BY DEF Masks
      <4> QED
        BY <1>3, <4>1, EventTypes
    <3> HIDE DEF e
    <3>3. Shape(t, "failed")
      BY <1>1, <1>2, <1>3, <1>5, <3>1, <3>2 DEF Shape, Close, Go, Counted
    <3> QED
      BY <1>1, <3>3, ShapeOwn
  <2> QED
    BY <2>2, <2>3
<1> QED
  BY <1>6, <1>7 DEF ReadCall

\* The calls of a TLS session.
SessionCall(t) == SessionWaits(t) \/ SessionDone(t) \/ SessionError(t)

LEMMA SessionOwn ==
  ASSUME OwnInv, NEW t \in Threads, SessionCall(t)
  PROVE  OwnInv'
<1>1. /\ InSession(t) /\ current = t /\ pc[t] \in {"idle", "tls R", "tls W"}
      /\ UNCHANGED <<tls, live, upstream>>
      /\ calls' \in [Threads -> 0..MaxCalls] /\ has_read' \in [Threads -> BOOLEAN]
  <2>1. InSession(t)
    BY DEF SessionCall, SessionWaits, SessionDone, SessionError
  <2> QED
    BY <2>1, CountedStep DEF InSession, OwnInv, TypeOK
<1>2. /\ pc[t] \in Using /\ pc[t] # "failed"
      /\ {"idle", "tls R", "tls W", "failed"} \subseteq Using
      /\ {"idle", "tls R", "tls W", "failed"} \subseteq Places \ {"new", "ended"}
  BY <1>1, UsingValues, WaitsValues DEF Places
<1>3. /\ event[t] \in Events /\ fd[t] \in open
  BY <1>1, <1>2, Parts
<1>4. waits' \in [Threads -> 0..MaxWaits]
  <2>1. CASE waits[t] < MaxWaits /\ waits' = [waits EXCEPT ![t] = @ + 1]
    BY <2>1, CountedStep DEF OwnInv
  <2>2. CASE UNCHANGED waits
    BY <2>2 DEF OwnInv, TypeOK
  <2> QED
    BY <2>1, <2>2 DEF SessionCall, SessionWaits, SessionDone, SessionError
<1>5. Counted
  BY <1>1, <1>4 DEF Counted
<1>6. CASE SessionWaits(t)
  <2>1. PICK m \in {"R", "W"}, ok \in Outcomes(event[t].mask = {}, event[t].fd) :
          /\ io_tls_event_switch(t, m, ok)
          /\ Yield(t, IF m = "R" THEN "tls R" ELSE "tls W")
    BY <1>6 DEF SessionWaits
  <2> DEFINE where == IF m = "R" THEN "tls R" ELSE "tls W"
  <2>2. /\ pc' = [pc EXCEPT ![t] = where] /\ current' = NoThread
        /\ where \in {"tls R", "tls W"} /\ UNCHANGED <<fd, open, broken>>
    BY <1>6, <2>1 DEF Yield, SessionWaits
  <2> HIDE DEF where
  <2>3. CASE UNCHANGED <<event, interest>>
    BY <1>1, <1>2, <1>5, <2>2, <2>3, KeepsOwn
  <2>4. CASE mk_event_add(t, event[t], event[t].fd, {m}, ok)
    <3>1. (ok = TRUE /\ event[t].fd \in open) \/ ok = FALSE
      BY <2>1 DEF Outcomes
    <3> QED
      BY <1>1, <1>2, <1>5, <2>2, <2>4, <3>1, KeepsOwn
  <2> QED
    BY <2>1, <2>3, <2>4 DEF io_tls_event_switch
<1>7. CASE SessionDone(t)
  <2>1. /\ pc' = [pc EXCEPT ![t] = "idle"] /\ current' = t
        /\ UNCHANGED <<fd, open, broken>>
        /\ \/ /\ event' = [event EXCEPT ![t] = DelEvent(@)]
              /\ interest' = DelInterest(event[t])
           \/ UNCHANGED <<event, interest>>
    BY <1>1, <1>7 DEF SessionDone, Go
  <2> QED
    BY <1>1, <1>2, <1>5, <2>1, KeepsOwn
<1>8. CASE SessionError(t)
  <2>1. CASE WriteFails(t, DelEvent(event[t]), DelInterest(event[t]))
    <3>1. /\ DelEvent(event[t]) \in Events
          /\ DOMAIN DelInterest(event[t]) \subseteq DOMAIN interest
          /\ \A g \in DOMAIN DelInterest(event[t]) : DelInterest(event[t])[g] = interest[g]
      BY <1>3, EventTypes, DelInterestParts
    <3> QED
      BY <1>1, <1>2, <1>5, <2>1, <3>1, WriteFailsOwn
  <2>2. CASE /\ event' = [event EXCEPT ![t] = DelEvent(@)]
             /\ interest' = DelInterest(event[t])
             /\ Go(t, "failed") /\ UNCHANGED <<fd, open, broken>>
    <3>1. pc' = [pc EXCEPT ![t] = "failed"] /\ current' = t
      BY <1>1, <2>2 DEF Go
    <3> QED
      BY <1>1, <1>2, <1>5, <2>2, <3>1, KeepsOwn
  <2> QED
    BY <1>8, <2>1, <2>2 DEF SessionError
<1> QED
  BY <1>6, <1>7, <1>8 DEF SessionCall

LEMMA ReleaseOwn ==
  ASSUME OwnInv, NEW t \in Threads, flb_upstream_conn_release(t)
  PROVE  OwnInv'
<1>1. /\ current = t /\ pc[t] \in {"idle", "failed"} /\ pc[t] \in Using
      /\ "ended" \notin Using /\ "ended" \in Places
      /\ UNCHANGED <<tls, live, has_read, calls, waits>>
  BY UsingValues DEF flb_upstream_conn_release, counts, Places
<1>2. Counted
  BY <1>1, CountedStep DEF OwnInv
<1>3. /\ DOMAIN interest \subseteq open /\ open \subseteq Fds /\ event[t] \in Events
  BY <1>1, Parts
<1>4. /\ DOMAIN DelInterest(event[t]) \subseteq DOMAIN interest
      /\ \A g \in DOMAIN DelInterest(event[t]) : DelInterest(event[t])[g] = interest[g]
  BY DelInterestParts
<1>5. /\ open' = open \ {fd[t]} /\ broken' = broken \ {fd[t]}
      /\ DOMAIN interest' \subseteq DOMAIN interest \ {fd[t]}
      /\ \A f \in DOMAIN interest' : interest'[f] = interest[f]
  <2>1. CASE fd[t] > 0
    BY <1>4, <2>1 DEF flb_upstream_conn_release, Close
  <2>2. CASE ~(fd[t] > 0)
    <3>1. fd[t] \notin open /\ fd[t] \notin broken
      <4>1. open \subseteq Fds /\ broken \subseteq Fds /\ \A f \in Fds : f > 0
        BY FdsFacts DEF OwnInv, TypeOK
      <4> QED
        BY <2>2, <4>1
    <3>2. interest' = DelInterest(event[t]) /\ UNCHANGED <<open, broken>>
      BY <2>2 DEF flb_upstream_conn_release
    <3> QED
      BY <1>3, <1>4, <3>1, <3>2
  <2> QED
    BY <2>1, <2>2
<1>6. Shape(t, "ended")
  <2>1. /\ pc' = [pc EXCEPT ![t] = "ended"] /\ current' = NoThread
        /\ fd' = [fd EXCEPT ![t] = -1] /\ event' = [event EXCEPT ![t] = NewEvent]
        /\ busy_queue' = busy_queue \ {t} /\ n_connections' = n_connections - 1
    BY DEF flb_upstream_conn_release, End
  <2> QED
    BY <1>1, <1>2, <1>3, <1>5, <2>1, NewEventType DEF Shape, Counted
<1> QED
  BY <1>1, <1>6, ShapeOwn

\* Steps of the event loop: a new connection, ...
LEMMA GetOwn ==
  ASSUME OwnInv, NEW t \in Threads, flb_upstream_conn_get(t)
  PROVE  OwnInv'
<1> USE DEF OwnInv
<1>1. /\ live /\ current = NoThread /\ pc[t] = "new" /\ t # NoThread
      /\ UNCHANGED <<tls, live, has_read, calls, waits, broken>>
  BY UpstreamAssumption DEF flb_upstream_conn_get, counts, UpstreamAssumption
<1>2. fd[t] = -1 /\ t \notin busy_queue /\ pc[t] \notin Using
  BY <1>1, UsingValues DEF FdInv, QueueInv
<1>3. PICK f \in Fds :
        /\ Free(f)
        /\ \/ /\ tls \in Rare
              /\ fd' = [fd EXCEPT ![t] = f] /\ open' = open \union {f}
              /\ current' = t /\ Connected(t) /\ UNCHANGED <<event, interest>>
           \/ /\ fd' = [fd EXCEPT ![t] = f] /\ open' = open \union {f}
              /\ mk_event_add(t, NewEvent, f, {"W"}, TRUE)
              /\ Yield(t, "connect") /\ UNCHANGED upstream
           \/ End(t) /\ UNCHANGED <<conn, upstream, open, interest>>
  BY DEF flb_upstream_conn_get
<1>4. f \notin open /\ f > 0
  BY <1>3, FdsFacts DEF Free
<1>5. \A u \in Threads : fd[u] # f
  BY <1>1, <1>4, UpstreamAssumption DEF FdInv, UpstreamAssumption
<1>6. ASSUME NEW where \in {"shake", "idle", "connect"},
             fd' = [fd EXCEPT ![t] = f], open' = open \union {f},
             pc' = [pc EXCEPT ![t] = where],
             current' = IF where = "connect" THEN NoThread ELSE t,
             IF where = "idle" THEN Count(t) ELSE UNCHANGED upstream,
             NEW e \in Events, event' = [event EXCEPT ![t] = e],
             e.fd \in {0, f}, DOMAIN interest' \subseteq DOMAIN interest \union {f},
             \A g \in DOMAIN interest' :
               \/ g \in DOMAIN interest /\ interest'[g] = interest[g]
               \/ g = f /\ interest'[g] = [conn |-> t, mask |-> {"W"}]
      PROVE  OwnInv'
  <2>1. /\ pc'[t] = where /\ fd'[t] = f /\ event'[t] = e
        /\ \A u \in Threads \ {t} : pc'[u] = pc[u] /\ fd'[u] = fd[u] /\ event'[u] = event[u]
    BY <1>6 DEF TypeOK
  <2>2. where \in Places /\ (where \in Using <=> where = "idle")
    BY <1>6, UsingValues, WaitsValues DEF Places
  <2>3. TypeOK'
    <3>1. pc' \in [Threads -> Places] /\ fd' \in [Threads -> Fds \union {-1}]
      BY <1>6, <2>2 DEF TypeOK, Places
    <3>2. event' \in [Threads -> Events]
      BY <1>6 DEF TypeOK, Events, Masks
    <3>3. /\ open' \subseteq Fds /\ broken' \subseteq open' /\ DOMAIN interest' \subseteq open'
      BY <1>1, <1>6 DEF TypeOK
    <3>4. [conn |-> t, mask |-> {"W"}] \in [conn : Threads, mask : Masks]
      BY DEF Masks
    <3>5. \A g \in DOMAIN interest' : interest'[g] \in [conn : Threads, mask : Masks]
      BY <1>6, <3>4 DEF TypeOK, Masks
    <3>6. busy_queue' \subseteq Threads /\ n_connections' \in Nat
      BY <1>6 DEF TypeOK, Count, upstream
    <3> QED
      BY <1>1, <1>6, <3>1, <3>2, <3>3, <3>5, <3>6 DEF TypeOK, Events, Masks, Places
  <2>4. FdInv'
    <3>1. \A u \in Threads \ {t} :
            /\ pc'[u] \in {"new", "ended"} => fd'[u] = -1
            /\ pc'[u] \notin {"shake", "idle", "failed"}
            /\ pc'[u] \in {"shake", "idle"} \union Establishing => fd'[u] \in open'
            /\ live' /\ pc'[u] \in DOMAIN Waits => fd'[u] \in open'
            /\ fd'[u] > 0 /\ fd'[u] \notin open' => pc'[u] = "failed"
      BY <1>1, <1>6, <2>1, UpstreamAssumption DEF FdInv, UpstreamAssumption
    <3>2. /\ pc'[t] \notin {"new", "ended", "failed"} /\ fd'[t] \in open'
          /\ pc'[t] \in {"shake", "idle"} => current' = t
      BY <1>6, <2>1
    <3>3. current' # NoThread => live' /\ pc'[current'] \notin {"new", "ended"}
      BY <1>1, <1>6, <3>2
    <3>4. \A g \in open' : \E u \in Threads : fd'[u] = g
      <4> SUFFICES ASSUME NEW g \in open, g # f PROVE \E u \in Threads : fd'[u] = g
        BY <1>6, <2>1
      <4>1. PICK u \in Threads : fd[u] = g
        BY DEF FdInv
      <4>2. u # t
        BY <1>2, <4>1, FdsFacts DEF TypeOK
      <4> QED
        BY <2>1, <4>1, <4>2
    <3>5. \A u, v \in Threads : fd'[u] = fd'[v] /\ fd'[u] > 0 => u = v
      BY <1>5, <2>1 DEF FdInv
    <3> QED
      BY <3>1, <3>2, <3>3, <3>4, <3>5 DEF FdInv
  <2>5. QueueInv'
    <3>1. busy_queue = {u \in Threads : pc[u] \in Using}
      BY <1>1 DEF QueueInv
    <3>2. CASE where = "idle"
      <4>1. /\ busy_queue' = busy_queue \union {t} /\ n_connections' = n_connections + 1
        BY <1>6, <3>2 DEF Count
      <4>2. busy_queue' = {u \in Threads : pc'[u] \in Using}
        BY <2>1, <2>2, <3>1, <3>2, <4>1
      <4>3. IsFiniteSet(busy_queue') /\ n_connections' = Cardinality(busy_queue')
        BY <1>2, <4>1, FS_AddElement DEF QueueInv
      <4> QED
        BY <1>1, <4>2, <4>3 DEF QueueInv
    <3>3. CASE where # "idle"
      <4>1. UNCHANGED <<busy_queue, n_connections>>
        BY <1>6, <3>3 DEF upstream
      <4>2. busy_queue' = {u \in Threads : pc'[u] \in Using}
        BY <1>2, <2>1, <2>2, <3>1, <3>3, <4>1
      <4> QED
        BY <1>1, <4>1, <4>2 DEF QueueInv
    <3> QED
      BY <3>2, <3>3
  <2>6. EpollInv'
    <3>1. ASSUME NEW g \in DOMAIN interest' PROVE fd'[interest'[g].conn] = g
      <4>1. CASE g \in DOMAIN interest /\ interest'[g] = interest[g]
        <5>1. fd[interest[g].conn] = g /\ interest[g].conn \in Threads /\ g \in Fds
          BY <4>1 DEF EpollInv, TypeOK
        <5>2. interest[g].conn # t
          BY <1>2, <5>1, FdsFacts
        <5> QED
          BY <2>1, <4>1, <5>1, <5>2
      <4>2. CASE g = f /\ interest'[g] = [conn |-> t, mask |-> {"W"}]
        BY <2>1, <4>2
      <4> QED
        BY <1>6, <4>1, <4>2
    <3>2. \A u \in Threads : pc'[u] \notin {"failed", "ended"} => event'[u].fd \in {0, fd'[u]}
      BY <1>6, <2>1 DEF EpollInv
    <3> QED
      BY <3>1, <3>2 DEF EpollInv
  <2> QED
    BY <2>3, <2>4, <2>5, <2>6
<1>7. CASE /\ fd' = [fd EXCEPT ![t] = f] /\ open' = open \union {f}
           /\ current' = t /\ Connected(t) /\ UNCHANGED <<event, interest>>
  <2>1. event[t] \in Events /\ event[t].fd = 0 /\ event' = [event EXCEPT ![t] = event[t]]
    BY <1>1, <1>2, <1>7, FdsFacts DEF TypeOK, Events, Masks, EpollInv
  <2>2. CASE tls
    <3>1. pc' = [pc EXCEPT ![t] = "shake"] /\ UNCHANGED upstream
      BY <1>7, <2>2 DEF Connected
    <3> QED
      BY <1>6, <1>7, <2>1, <3>1
  <2>3. CASE ~tls
    <3>1. pc' = [pc EXCEPT ![t] = "idle"] /\ Count(t)
      BY <1>7, <2>3 DEF Connected
    <3> QED
      BY <1>6, <1>7, <2>1, <3>1
  <2> QED
    BY <2>2, <2>3
<1>8. CASE /\ fd' = [fd EXCEPT ![t] = f] /\ open' = open \union {f}
           /\ mk_event_add(t, NewEvent, f, {"W"}, TRUE)
           /\ Yield(t, "connect") /\ UNCHANGED upstream
  <2> DEFINE e == Added(NewEvent, f, {"W"}, TRUE)
  <2>1. e \in Events /\ e.fd \in {0, f}
    <3>1. {"W"} \in Masks
      BY DEF Masks
    <3> QED
      BY <3>1, NewEventType, EventTypes
  <2>2. /\ event' = [event EXCEPT ![t] = e]
        /\ interest' = With(f, [conn |-> t, mask |-> {"W"}])
        /\ pc' = [pc EXCEPT ![t] = "connect"] /\ current' = NoThread
    BY <1>8 DEF mk_event_add, Yield
  <2>3. /\ DOMAIN interest' \subseteq DOMAIN interest \union {f}
        /\ \A g \in DOMAIN interest' :
             \/ g \in DOMAIN interest /\ interest'[g] = interest[g]
             \/ g = f /\ interest'[g] = [conn |-> t, mask |-> {"W"}]
    BY <2>2 DEF With
  <2> HIDE DEF e
  <2> QED
    BY <1>6, <1>8, <2>1, <2>2, <2>3
<1>9. CASE End(t) /\ UNCHANGED <<conn, upstream, open, interest>>
  <2>1. /\ pc' = [pc EXCEPT ![t] = "ended"] /\ current' = NoThread
        /\ UNCHANGED <<fd, event, busy_queue, n_connections, open, interest>>
    BY <1>9 DEF End, conn, upstream
  <2>2. pc'[t] = "ended" /\ \A u \in Threads \ {t} : pc'[u] = pc[u]
    BY <2>1 DEF TypeOK
  <2>3. TypeOK'
    BY <1>1, <2>1 DEF TypeOK
  <2>4. FdInv'
    BY <1>1, <1>2, <2>1, <2>2, WaitsValues, ZenonT(30) DEF FdInv, Establishing
  <2>5. QueueInv'
    <3>1. busy_queue' = {u \in Threads : pc'[u] \in Using}
      <4>1. "ended" \notin Using
        BY UsingValues
      <4>2. busy_queue = {u \in Threads : pc[u] \in Using}
        BY <1>1 DEF QueueInv
      <4> QED
        BY <1>2, <2>1, <2>2, <4>1, <4>2
    <3> QED
      BY <1>1, <2>1, <3>1 DEF QueueInv
  <2>6. EpollInv'
    BY <2>1, <2>2 DEF EpollInv
  <2> QED
    BY <2>3, <2>4, <2>5, <2>6
<1> QED
  BY <1>3, <1>7, <1>8, <1>9

\* ... an event, ...
LEMMA ResumeOwn ==
  ASSUME OwnInv, NEW f \in Fds, Resume(f)
  PROVE  OwnInv'
<1> USE DEF OwnInv
<1> DEFINE t == interest[f].conn
<1>1. /\ live /\ current = NoThread /\ f \in DOMAIN interest /\ current' = t
      /\ UNCHANGED <<tls, live, pc, fd, event, has_read, calls, waits, busy_queue,
                     n_connections, open, broken, interest>>
  BY DEF Resume, conn, counts, upstream, kernel
<1>2. t \in Threads /\ fd[t] = f
  BY <1>1 DEF TypeOK, EpollInv
<1>3. pc[t] \notin {"new", "ended"}
  BY <1>2, FdsFacts DEF FdInv
<1> HIDE DEF t
<1>4. TypeOK'
  BY <1>1, <1>2 DEF TypeOK
<1>5. FdInv'
  BY <1>1, <1>2, <1>3, UpstreamAssumption DEF FdInv, UpstreamAssumption
<1>6. QueueInv' /\ EpollInv'
  BY <1>1 DEF QueueInv, EpollInv
<1> QED
  BY <1>4, <1>5, <1>6

\* ... a connection that fails, ...
LEMMA BreakOwn ==
  ASSUME OwnInv, Break
  PROVE  OwnInv'
<1>1. /\ UNCHANGED <<tls, live, current, pc, fd, event, has_read, calls, waits,
                     busy_queue, n_connections, open, interest>>
      /\ \E f \in open : broken' = broken \union {f}
  BY DEF Break, conn, counts, upstream
<1>2. TypeOK'
  BY <1>1 DEF OwnInv, TypeOK
<1> QED
  BY <1>1, <1>2 DEF OwnInv, FdInv, QueueInv, EpollInv

\* ... and the end of the context, which closes what is queued and no other
\* descriptor.
LEMMA DestroyOwn ==
  ASSUME OwnInv, flb_upstream_destroy
  PROVE  OwnInv'
<1> USE DEF OwnInv
<1> DEFINE closed == {fd[t] : t \in busy_queue}
<1>1. /\ live /\ current = NoThread /\ live' = FALSE /\ busy_queue' = {}
      /\ open' = open \ closed /\ broken' = broken \ closed
      /\ interest' = [f \in DOMAIN interest \ closed |-> interest[f]]
      /\ fd' = [t \in Threads |-> IF t \in busy_queue THEN -1 ELSE fd[t]]
      /\ event' = [t \in Threads |-> IF t \in busy_queue THEN NewEvent ELSE event[t]]
      /\ n_connections' = n_connections - Cardinality(busy_queue)
      /\ UNCHANGED <<tls, current, pc, has_read, calls, waits>>
  BY DEF flb_upstream_destroy, counts
<1>2. n_connections' = 0
  BY <1>1 DEF QueueInv, TypeOK
<1>3. busy_queue = {t \in Threads : pc[t] \in Using}
  BY <1>1 DEF QueueInv
<1>4. \A t \in Threads : pc[t] \in {"new", "ended"} \union DOMAIN Waits
  BY <1>1, UpstreamAssumption DEF FdInv, TypeOK, UpstreamAssumption
<1>5. \A t \in Threads : t \notin busy_queue => pc[t] \in {"new", "ended"} \union Establishing
  BY <1>3, <1>4, UsingValues, WaitsValues DEF Establishing
<1>6. \A t \in Threads : t \notin busy_queue =>
        fd[t] = -1 \/ (pc[t] \in Establishing /\ fd[t] \in open /\ fd[t] \notin closed)
  <2> SUFFICES ASSUME NEW t \in Threads, t \notin busy_queue, fd[t] # -1
               PROVE  pc[t] \in Establishing /\ fd[t] \in open /\ fd[t] \notin closed
    OBVIOUS
  <2>1. pc[t] \in Establishing /\ fd[t] \in open /\ fd[t] > 0
    BY <1>5, FdsFacts DEF FdInv, TypeOK
  <2>2. \A u \in busy_queue : fd[u] # fd[t]
    BY <1>3, <2>1 DEF FdInv
  <2> QED
    BY <2>1, <2>2
<1>7. TypeOK'
  <2>1. fd' \in [Threads -> Fds \union {-1}]
    BY <1>1 DEF TypeOK
  <2>2. event' \in [Threads -> Events]
    BY <1>1, NewEventType DEF TypeOK, Events, Masks
  <2>3. /\ open' \subseteq Fds /\ broken' \subseteq open' /\ DOMAIN interest' \subseteq open'
        /\ \A f \in DOMAIN interest' : interest'[f] \in [conn : Threads, mask : Masks]
    BY <1>1 DEF TypeOK, Masks
  <2>4. /\ tls' \in BOOLEAN /\ current' \in Threads \union {NoThread}
        /\ pc' \in [Threads -> Places] /\ has_read' \in [Threads -> BOOLEAN]
        /\ calls' \in [Threads -> 0..MaxCalls] /\ waits' \in [Threads -> 0..MaxWaits]
    <3>1. UNCHANGED <<tls, current, pc, has_read, calls, waits>>
      BY <1>1
    <3> QED
      BY <3>1 DEF TypeOK, Places
  <2>5. live' \in BOOLEAN /\ busy_queue' \subseteq Threads /\ n_connections' \in Nat
    <3>1. live' = FALSE /\ busy_queue' = {}
      BY <1>1
    <3> QED
      BY <1>2, <3>1
  <2> QED
    BY <2>1, <2>2, <2>3, <2>4, <2>5 DEF TypeOK, Events, Masks, Places
<1>8. FdInv'
  <2>1. \A t \in Threads : /\ pc'[t] \in {"new", "ended"} => fd'[t] = -1
                           /\ pc'[t] \notin {"shake", "idle", "failed"}
                           /\ pc'[t] \in Establishing => fd'[t] \in open'
                           /\ fd'[t] > 0 => fd'[t] \in open'
    <3> SUFFICES ASSUME NEW t \in Threads
                 PROVE  /\ pc[t] \in {"new", "ended"} => fd'[t] = -1
                        /\ pc[t] \notin {"shake", "idle", "failed"}
                        /\ pc[t] \in Establishing => fd'[t] \in open'
                        /\ fd'[t] > 0 => fd'[t] \in open'
      BY <1>1
    <3>1. CASE t \in busy_queue
      <4>1. fd'[t] = -1 /\ pc[t] \in Using
        BY <1>1, <1>3, <3>1
      <4>2. pc[t] \notin Establishing
        BY <4>1, UsingValues DEF Establishing
      <4>3. pc[t] \notin {"shake", "idle", "failed"}
        BY <1>4, WaitsValues
      <4> QED
        BY <4>1, <4>2, <4>3
    <3>2. CASE t \notin busy_queue
      <4>1. fd'[t] = fd[t]
        BY <1>1, <3>2
      <4>2. pc[t] \notin {"shake", "idle", "failed"}
        BY <1>4, WaitsValues
      <4>3. pc[t] \in {"new", "ended"} => fd[t] = -1
        BY DEF FdInv
      <4>4. pc[t] \in Establishing => fd[t] \in open /\ fd[t] # -1
        BY FdsFacts DEF FdInv, TypeOK
      <4> QED
        BY <1>1, <1>6, <3>2, <4>1, <4>2, <4>3, <4>4
    <3> QED
      BY <3>1, <3>2
  <2>2. \A f \in open' : \E t \in Threads : fd'[t] = f
    BY <1>1 DEF FdInv
  <2>3. \A t, u \in Threads : fd'[t] = fd'[u] /\ fd'[t] > 0 => t = u
    BY <1>1 DEF FdInv
  <2> QED
    BY <1>1, <2>1, <2>2, <2>3 DEF FdInv
<1>9. QueueInv'
  <2>1. IsFiniteSet({}) /\ Cardinality({}) = 0
    BY FS_EmptySet
  <2>2. \A t \in Threads : fd'[t] > 0 => pc'[t] \in Establishing
    BY <1>1, <1>6
  <2> QED
    BY <1>1, <1>2, <2>1, <2>2 DEF QueueInv
<1>10. EpollInv'
  <2>1. ASSUME NEW f \in DOMAIN interest' PROVE fd'[interest'[f].conn] = f
    <3>1. /\ f \notin closed /\ interest'[f] = interest[f]
          /\ fd[interest[f].conn] = f /\ interest[f].conn \in Threads
      BY <1>1 DEF EpollInv, TypeOK
    <3>2. interest[f].conn \notin busy_queue
      BY <3>1
    <3> QED
      BY <1>1, <3>1, <3>2
  <2>2. \A t \in Threads : pc'[t] \notin {"failed", "ended"} => event'[t].fd \in {0, fd'[t]}
    BY <1>1, NewEventType DEF EpollInv
  <2> QED
    BY <2>1, <2>2 DEF EpollInv
<1> QED
  BY <1>7, <1>8, <1>9, <1>10

LEMMA OwnInit == Init => OwnInv
<1> SUFFICES ASSUME Init PROVE OwnInv
  OBVIOUS
<1>1. TypeOK
  <2>1. pc \in [Threads -> Places] /\ fd \in [Threads -> Fds \union {-1}]
    BY DEF Init, Places
  <2>2. event \in [Threads -> Events] /\ has_read \in [Threads -> BOOLEAN]
    BY NewEventType DEF Init
  <2>3. calls \in [Threads -> 0..MaxCalls] /\ waits \in [Threads -> 0..MaxWaits]
    BY UpstreamAssumption DEF Init, UpstreamAssumption
  <2> QED
    BY <2>1, <2>2, <2>3 DEF Init, TypeOK, Events, Masks, Places
<1>2. FdInv
  <2>1. "new" \notin DOMAIN Waits /\ "new" \notin Establishing
    BY WaitsValues DEF Establishing
  <2>2. \A t \in Threads : pc[t] = "new" /\ fd[t] = -1 /\ ~(fd[t] > 0)
    BY DEF Init
  <2>3. open = {} /\ current = NoThread
    BY DEF Init
  <2> QED
    BY <2>1, <2>2, <2>3 DEF FdInv
<1>3. QueueInv
  <2>1. IsFiniteSet({}) /\ Cardinality({}) = 0 /\ "new" \notin Using
    BY FS_EmptySet, UsingValues
  <2> QED
    BY <2>1 DEF Init, QueueInv
<1>4. EpollInv
  BY NewEventType DEF Init, EpollInv
<1> QED
  BY <1>1, <1>2, <1>3, <1>4 DEF OwnInv

LEMMA OwnNext ==
  ASSUME OwnInv, [Next]_vars
  PROVE  OwnInv'
<1>1. ASSUME NEW t \in Threads, flb_upstream_conn_get(t) \/ Step(t)
      PROVE  OwnInv'
  <2>1. CASE flb_upstream_conn_get(t)
    BY <2>1, GetOwn
  <2>2. CASE ConnectDone(t) \/ Handshake(t) \/ flb_upstream_conn_release(t)
    BY <2>2, ConnectDoneOwn, HandshakeOwn, ReleaseOwn
  <2>3. CASE WriteCall(t)
    BY <2>3, WriteOwn
  <2>4. CASE ReadCall(t)
    BY <2>4, ReadOwn
  <2>5. CASE SessionCall(t)
    BY <2>5, SessionOwn
  <2> QED
    BY <1>1, <2>1, <2>2, <2>3, <2>4, <2>5 DEF Step, WriteCall, ReadCall, SessionCall
<1>2. CASE Break \/ flb_upstream_destroy \/ \E f \in Fds : Resume(f)
  BY <1>2, BreakOwn, DestroyOwn, ResumeOwn
<1>3. CASE UNCHANGED vars
  <2>1. UNCHANGED <<tls, live, current, pc, fd, event, has_read, calls, waits,
                    busy_queue, n_connections, open, broken, interest>>
    BY <1>3 DEF vars, conn, counts, upstream, kernel
  <2> QED
    BY <2>1 DEF OwnInv, TypeOK, FdInv, QueueInv, EpollInv
<1> QED
  BY <1>1, <1>2, <1>3 DEF Next

(***************************************************************************)
(* The inductive invariant about descriptors, the busy queue and epoll     *)
(* holds in every behaviour.                                               *)
(***************************************************************************)
THEOREM OwnCorrect == Spec => []OwnInv
BY OwnInit, OwnNext, PTL DEF Spec

(***************************************************************************)
(* Type correctness of connections, queue and interest list; that          *)
(* n_connections never becomes negative is part of it.                     *)
(***************************************************************************)
THEOREM TypeCorrect == Spec => []TypeOK
<1>1. OwnInv => TypeOK
  BY DEF OwnInv
<1> QED
  BY <1>1, OwnCorrect, PTL

(***************************************************************************)
(* No descriptor is leaked or shared, a number that is closed already is   *)
(* kept only by the co-routine that runs, and the queue and the counter    *)
(* agree with the connections in use, for any number of co-routines and    *)
(* every outcome of their calls.                                           *)
(***************************************************************************)
THEOREM OwnedCorrect == Spec => []ConnectionsOwned
<1>1. ASSUME OwnInv
      PROVE  /\ \A f \in open : \E t \in Threads : fd[t] = f
             /\ \A t \in Threads :
                  fd[t] > 0 /\ fd[t] \notin open => pc[t] = "failed" /\ current = t
             /\ \A t, u \in Threads : fd[t] = fd[u] /\ fd[t] > 0 => t = u
  BY <1>1 DEF OwnInv, FdInv
<1>2. ASSUME OwnInv, current = NoThread
      PROVE  /\ n_connections = Cardinality(busy_queue)
             /\ busy_queue = {t \in Threads : fd[t] > 0 /\ pc[t] \notin Establishing}
  <2> USE <1>2 DEF OwnInv
  <2>1. \A t \in Threads : pc[t] \in {"new", "ended"} \union DOMAIN Waits
    BY UpstreamAssumption DEF FdInv, TypeOK, UpstreamAssumption
  <2>2. busy_queue = {t \in Threads : fd[t] > 0 /\ pc[t] \notin Establishing}
    <3>1. CASE ~live
      BY <3>1 DEF QueueInv
    <3>2. CASE live
      <4>1. busy_queue = {t \in Threads : pc[t] \in Using}
        BY <3>2 DEF QueueInv
      <4>2. ASSUME NEW t \in Threads
            PROVE  pc[t] \in Using <=> fd[t] > 0 /\ pc[t] \notin Establishing
        <5>1. pc[t] \in DOMAIN Waits => fd[t] \in open
          BY <3>2 DEF FdInv
        <5>2. fd[t] \in open => fd[t] > 0
          BY FdsFacts DEF TypeOK
        <5>3. pc[t] \in {"new", "ended"} => ~(fd[t] > 0)
          <6>1. pc[t] \in {"new", "ended"} => fd[t] = -1
            BY DEF FdInv
          <6> QED
            BY <6>1
        <5> QED
          BY <2>1, <5>1, <5>2, <5>3, UsingValues, WaitsValues DEF Establishing
      <4> QED
        BY <4>1, <4>2
    <3> QED
      BY <3>1, <3>2
  <2> QED
    BY <2>2 DEF QueueInv
<1>3. OwnInv => ConnectionsOwned
  BY <1>1, <1>2 DEF ConnectionsOwned
<1> QED
  BY <1>3, OwnCorrect, PTL
-------------------------------------------------------------------------------
(* Registrations.                                                          *)

\* The entries of the other connections stay as they are.
OthersKept(t) ==
  /\ \A u \in Threads \ {t} : pc'[u] = pc[u] /\ fd'[u] = fd[u] /\ event'[u] = event[u]
  /\ \A f \in open \ {fd[t]} :
       /\ f \in DOMAIN interest' <=> f \in DOMAIN interest
       /\ f \in DOMAIN interest => interest'[f] = interest[f]

\* Then only the connection of t has to be looked at: the other co-routines
\* have yielded, and the entry they wait for is still there.
LEMMA OthersArmed ==
  ASSUME OwnInv, ArmInv, NEW t \in Threads, current \in {t, NoThread},
         UNCHANGED <<tls, live>>, OthersKept(t), live => ArmedAt(t)'
  PROVE  ArmInv'
<1> SUFFICES ASSUME live, NEW u \in Threads, u # t PROVE ArmedAt(u)'
  BY DEF ArmInv
<1>1. ArmedAt(u)
  BY DEF ArmInv
<1>2. pc[u] \notin {"shake", "idle", "failed"}
  BY UpstreamAssumption DEF OwnInv, FdInv, UpstreamAssumption
<1>3. pc'[u] = pc[u] /\ fd'[u] = fd[u] /\ event'[u] = event[u]
  BY DEF OthersKept
<1>4. pc[u] \in DOMAIN Waits => Armed(u)'
  <2> SUFFICES ASSUME pc[u] \in DOMAIN Waits PROVE Armed(u)'
    OBVIOUS
  <2>1. Armed(u) /\ fd[u] \in open /\ fd[u] > 0
    BY <1>1, FdsFacts DEF OwnInv, FdInv, TypeOK, ArmedAt
  <2>2. fd[u] # fd[t]
    BY <2>1 DEF OwnInv, FdInv
  <2>3. fd[u] \in DOMAIN interest' /\ interest'[fd[u]] = interest[fd[u]]
    BY <2>1, <2>2 DEF OthersKept, Armed
  <2> QED
    BY <1>3, <2>1, <2>3 DEF Armed
<1> QED
  BY <1>1, <1>2, <1>3, <1>4 DEF ArmedAt

\* mk_event_del() of an event that agrees with the kernel.
LEMMA DelArm ==
  ASSUME NEW t \in Threads, Armed(t) \/ Disarmed(t), event[t] \in Events
  PROVE  /\ DelEvent(event[t]).registered = FALSE /\ DelEvent(event[t]).mask = {}
         /\ DelEvent(event[t]).fd = event[t].fd
         /\ DOMAIN DelInterest(event[t]) = DOMAIN interest \ {fd[t]}
         /\ \A f \in DOMAIN interest \ {fd[t]} : DelInterest(event[t])[f] = interest[f]
<1>1. CASE Armed(t)
  <2>1. Deletes(event[t]) /\ event[t].registered /\ event[t].fd = fd[t]
    BY <1>1 DEF Armed, Deletes
  <2>2. DelEvent(event[t]) = MK_EVENT_NEW(event[t])
    BY <2>1 DEF DelEvent
  <2>3. DelInterest(event[t]) = Without(fd[t])
    BY <2>1 DEF DelInterest
  <2> QED
    BY <2>2, <2>3, EventTypes DEF Without
<1>2. CASE Disarmed(t)
  <2>1. DelEvent(event[t]) = event[t] /\ DelInterest(event[t]) = interest
    BY <1>2 DEF Disarmed, DelEvent, DelInterest, Deletes
  <2> QED
    BY <1>2, <2>1 DEF Disarmed, Events
<1> QED
  BY <1>1, <1>2

\* mk_event_add() that succeeds, of an event that agrees with the kernel or was
\* made anew.
LEMMA AddArm ==
  ASSUME NEW t \in Threads, event \in [Threads -> Events], NEW e \in Events,
         NEW m \in {"R", "W"}, fd'[t] \in Fds,
         e.mask = {} \/ (e.registered /\ e.fd = fd'[t]),
         mk_event_add(t, e, fd'[t], {m}, TRUE)
  PROVE  /\ Armed(t)' /\ event'[t].mask = {m} /\ event'[t].fd = fd'[t]
         /\ \A u \in Threads \ {t} : event'[u] = event[u]
         /\ DOMAIN interest' = DOMAIN interest \union {fd'[t]}
         /\ \A f \in DOMAIN interest \ {fd'[t]} : interest'[f] = interest[f]
<1> DEFINE a == Added(e, fd'[t], {m}, TRUE)
           r == [conn |-> t, mask |-> {m}]
<1>1. event' = [event EXCEPT ![t] = a] /\ interest' = With(fd'[t], r)
  BY DEF mk_event_add
<1>2. a.registered /\ a.fd = fd'[t] /\ a.mask = {m}
  BY DEF Added
<1>3. event'[t] = a /\ \A u \in Threads \ {t} : event'[u] = event[u]
  BY <1>1
<1>4. /\ DOMAIN interest' = DOMAIN interest \union {fd'[t]} /\ interest'[fd'[t]] = r
      /\ \A f \in DOMAIN interest \ {fd'[t]} : interest'[f] = interest[f]
  BY <1>1 DEF With
<1>5. {m} \in {{"R"}, {"W"}}
  OBVIOUS
<1> HIDE DEF a
<1> QED
  BY <1>2, <1>3, <1>4, <1>5 DEF Armed

LEMMA ArmParts ==
  ASSUME OwnInv, ArmInv, NEW t \in Threads, current = t
  PROVE  /\ live /\ t # NoThread /\ ArmedAt(t) /\ DOMAIN interest \subseteq open
         /\ event \in [Threads -> Events] /\ fd \in [Threads -> Fds \union {-1}]
         /\ pc \in [Threads -> Places] /\ event[t] \in Events
         /\ pc[t] # "failed" => fd[t] \in open /\ fd[t] \in Fds
<1>1. /\ live /\ t # NoThread /\ DOMAIN interest \subseteq open /\ event[t] \in Events
      /\ open \subseteq Fds /\ (pc[t] # "failed" => fd[t] \in open)
  BY Parts
<1> QED
  BY <1>1 DEF ArmInv, OwnInv, TypeOK, Events, Masks, Places

\* The co-routine loses its descriptor, or ends.
LEMMA GoneArm ==
  ASSUME OwnInv, ArmInv, NEW t \in Threads, current = t,
         NEW where \in {"failed", "ended"}, pc' = [pc EXCEPT ![t] = where],
         fd' = fd \/ fd' = [fd EXCEPT ![t] = -1],
         NEW e, event' = [event EXCEPT ![t] = e], UNCHANGED <<tls, live>>,
         where = "failed" /\ e.registered /\ e.fd \in DOMAIN interest' =>
           interest'[e.fd].conn = t,
         \A f \in open \ {fd[t]} :
           /\ f \in DOMAIN interest' <=> f \in DOMAIN interest
           /\ f \in DOMAIN interest => interest'[f] = interest[f]
  PROVE  ArmInv'
<1>1. /\ event \in [Threads -> Events] /\ fd \in [Threads -> Fds \union {-1}]
      /\ pc \in [Threads -> Places]
  BY ArmParts
<1>2. OthersKept(t)
  BY <1>1 DEF OthersKept
<1>3. pc'[t] = where /\ event'[t] = e
  BY <1>1
<1>4. ArmedAt(t)'
  BY <1>3, WaitsValues DEF ArmedAt
<1> QED
  BY <1>2, <1>4, OthersArmed

\* It keeps it, and its event agrees with the kernel.
LEMMA KeptArm ==
  ASSUME OwnInv, ArmInv, NEW t \in Threads, current = t,
         NEW where, pc' = [pc EXCEPT ![t] = where],
         UNCHANGED <<tls, live, fd>>,
         \A u \in Threads \ {t} : event'[u] = event[u],
         \A f \in open \ {fd[t]} :
           /\ f \in DOMAIN interest' <=> f \in DOMAIN interest
           /\ f \in DOMAIN interest => interest'[f] = interest[f],
         \/ /\ where \in DOMAIN Waits /\ Armed(t)'
            /\ event'[t].mask = Waits[where]
         \/ /\ where \in {"shake", "idle"} /\ Disarmed(t)'
            /\ where = "shake" \/ tls => event'[t].fd = fd[t]
         \/ /\ where = "idle" /\ Armed(t)' /\ (tls \/ has_read'[t])
  PROVE  ArmInv'
<1>1. pc \in [Threads -> Places]
  BY ArmParts
<1>2. OthersKept(t)
  BY <1>1 DEF OthersKept
<1>3. pc'[t] = where /\ tls' = tls /\ fd' = fd
  BY <1>1
<1>4. ArmedAt(t)'
  <2>1. CASE where \in DOMAIN Waits /\ Armed(t)' /\ event'[t].mask = Waits[where]
    BY <1>3, <2>1, WaitsValues DEF ArmedAt
  <2>2. CASE /\ where \in {"shake", "idle"} /\ Disarmed(t)'
             /\ where = "shake" \/ tls => event'[t].fd = fd[t]
    <3>1. pc'[t] \notin {"new", "failed"} /\ pc'[t] \notin DOMAIN Waits
      BY <1>3, <2>2, WaitsValues
    <3>2. pc'[t] = "shake" \/ (pc'[t] = "idle" /\ tls') => event'[t].fd = fd'[t]
      BY <1>3, <2>2
    <3> QED
      BY <2>2, <3>1, <3>2 DEF ArmedAt
  <2>3. CASE where = "idle" /\ Armed(t)' /\ (tls \/ has_read'[t])
    <3>1. event'[t].fd = fd'[t]
      BY <2>3 DEF Armed
    <3>2. pc'[t] = "idle" /\ pc'[t] \notin DOMAIN Waits
      BY <1>3, <2>3, WaitsValues
    <3>3. ~(~tls' /\ ~has_read'[t])
      BY <1>3, <2>3
    <3> QED
      BY <2>3, <3>1, <3>2, <3>3 DEF ArmedAt
  <2> QED
    BY <2>1, <2>2, <2>3
<1> QED
  BY <1>2, <1>4, OthersArmed

\* An event is deleted and the co-routine goes on.
LEMMA DeletedArm ==
  ASSUME OwnInv, ArmInv, NEW t \in Threads, current = t, pc[t] # "failed",
         Armed(t) \/ Disarmed(t), NEW where \in {"shake", "idle"},
         where = "shake" \/ tls => event[t].fd = fd[t],
         pc' = [pc EXCEPT ![t] = where], UNCHANGED <<tls, live, fd>>,
         event' = [event EXCEPT ![t] = DelEvent(@)], interest' = DelInterest(event[t])
  PROVE  ArmInv'
<1>1. /\ event \in [Threads -> Events] /\ event[t] \in Events
  BY ArmParts
<1>2. /\ DelEvent(event[t]).registered = FALSE /\ DelEvent(event[t]).mask = {}
      /\ DelEvent(event[t]).fd = event[t].fd
      /\ DOMAIN DelInterest(event[t]) = DOMAIN interest \ {fd[t]}
      /\ \A f \in DOMAIN interest \ {fd[t]} : DelInterest(event[t])[f] = interest[f]
  BY <1>1, DelArm
<1>3. event'[t] = DelEvent(event[t]) /\ \A u \in Threads \ {t} : event'[u] = event[u]
  BY <1>1
<1>4. Disarmed(t)'
  BY <1>2, <1>3 DEF Disarmed
<1> QED
  BY <1>2, <1>3, <1>4, KeptArm

\* An event is added and the co-routine yields.
LEMMA AddedArm ==
  ASSUME OwnInv, ArmInv, NEW t \in Threads, current = t, pc[t] # "failed",
         Armed(t) \/ Disarmed(t), NEW m \in {"R", "W"},
         NEW where \in DOMAIN Waits, Waits[where] = {m},
         pc' = [pc EXCEPT ![t] = where], UNCHANGED <<tls, live, fd>>,
         NEW e \in {event[t], MK_EVENT_NEW(event[t])},
         mk_event_add(t, e, fd[t], {m}, TRUE)
  PROVE  ArmInv'
<1>1. /\ event \in [Threads -> Events] /\ event[t] \in Events
      /\ fd[t] \in Fds /\ fd' = fd
  BY ArmParts
<1>2. e \in Events /\ (e.mask = {} \/ (e.registered /\ e.fd = fd'[t]))
  BY <1>1, EventTypes DEF Armed, Disarmed
<1>3. mk_event_add(t, e, fd'[t], {m}, TRUE)
  BY <1>1
<1>4. /\ Armed(t)' /\ event'[t].mask = {m}
      /\ \A u \in Threads \ {t} : event'[u] = event[u]
      /\ DOMAIN interest' = DOMAIN interest \union {fd[t]}
      /\ \A f \in DOMAIN interest \ {fd[t]} : interest'[f] = interest[f]
  BY <1>1, <1>2, <1>3, AddArm
<1> QED
  BY <1>4, KeptArm

\* The descriptor is closed; entry and event of t go with it.
LEMMA ClosedArm ==
  ASSUME OwnInv, ArmInv, NEW t \in Threads, current = t, pc[t] # "failed",
         Armed(t) \/ Disarmed(t), UNCHANGED <<tls, live>>,
         \/ Abandon(t, DelEvent(event[t]), DelInterest(event[t]))
         \/ WriteFails(t, DelEvent(event[t]), DelInterest(event[t]))
         \/ WriteFails(t, event[t], interest)
         \/ WriteFails(t, NotAdded(t), interest)
  PROVE  ArmInv'
<1>1. /\ event \in [Threads -> Events] /\ event[t] \in Events
  BY ArmParts
<1>2. /\ DelEvent(event[t]).registered = FALSE
      /\ DOMAIN DelInterest(event[t]) = DOMAIN interest \ {fd[t]}
      /\ \A f \in DOMAIN interest \ {fd[t]} : DelInterest(event[t])[f] = interest[f]
  BY <1>1, DelArm
<1>3. NotAdded(t).fd = fd[t]
  <2>1. MK_EVENT_NEW(event[t]).mask = {}
    BY <1>1, EventTypes
  <2> QED
    BY <2>1 DEF NotAdded, Added
<1>4. event[t].registered => event[t].fd = fd[t]
  BY DEF Armed, Disarmed
<1>5. ASSUME NEW e, NEW reg, e.registered => e.fd = fd[t],
             DOMAIN reg \ {fd[t]} = DOMAIN interest \ {fd[t]},
             \A f \in DOMAIN reg \ {fd[t]} : reg[f] = interest[f],
             Abandon(t, e, reg) \/ WriteFails(t, e, reg)
      PROVE  ArmInv'
  <2>1. PICK where \in {"failed", "ended"} : pc' = [pc EXCEPT ![t] = where]
    BY <1>5 DEF Abandon, WriteFails, End, Go
  <2>2. /\ fd' = [fd EXCEPT ![t] = -1] /\ event' = [event EXCEPT ![t] = e]
        /\ interest' = [g \in DOMAIN reg \ {fd[t]} |-> reg[g]]
    BY <1>5 DEF Abandon, WriteFails, Close
  <2>3. /\ DOMAIN interest' = DOMAIN interest \ {fd[t]}
        /\ \A f \in DOMAIN interest' : interest'[f] = interest[f]
    BY <1>5, <2>2
  <2>4. e.registered => e.fd \notin DOMAIN interest'
    BY <1>5, <2>3
  <2>5. \A f \in open \ {fd[t]} :
          /\ f \in DOMAIN interest' <=> f \in DOMAIN interest
          /\ f \in DOMAIN interest => interest'[f] = interest[f]
    BY <2>3
  <2> QED
    BY <2>1, <2>2, <2>4, <2>5, GoneArm
<1>6. CASE \/ Abandon(t, DelEvent(event[t]), DelInterest(event[t]))
           \/ WriteFails(t, DelEvent(event[t]), DelInterest(event[t]))
  BY <1>2, <1>5, <1>6
<1>7. CASE WriteFails(t, event[t], interest)
  BY <1>4, <1>5, <1>7
<1>8. CASE WriteFails(t, NotAdded(t), interest)
  BY <1>3, <1>5, <1>8
<1> QED
  BY <1>6, <1>7, <1>8

LEMMA EstablishArm ==
  ASSUME OwnInv, ArmInv, NEW t \in Threads, ConnectDone(t) \/ Handshake(t)
  PROVE  ArmInv'
<1>1. /\ current = t /\ UNCHANGED <<tls, live>>
      /\ pc[t] \in {"connect", "shake", "handshake R", "handshake W"}
  BY DEF ConnectDone, Handshake
<1>2. ArmedAt(t) /\ fd[t] \in Fds /\ pc[t] # "failed"
  BY <1>1, ArmParts
<1>3. (Armed(t) \/ Disarmed(t)) /\ event[t].fd = fd[t]
  <2>1. pc[t] \in DOMAIN Waits \/ pc[t] = "shake"
    BY <1>1, WaitsValues
  <2> QED
    BY <1>2, <2>1 DEF ArmedAt, Armed
<1>4. CASE Abandon(t, DelEvent(event[t]), DelInterest(event[t]))
  BY <1>1, <1>2, <1>3, <1>4, ClosedArm
<1>5. ASSUME NEW where \in {"shake", "idle"}, pc' = [pc EXCEPT ![t] = where],
             fd' = fd, event' = [event EXCEPT ![t] = DelEvent(@)],
             interest' = DelInterest(event[t])
      PROVE  ArmInv'
  BY <1>1, <1>2, <1>3, <1>5, DeletedArm
<1>6. CASE ConnectDone(t)
  <2>1. CASE fd[t] \in broken
    BY <1>4, <1>6, <2>1 DEF ConnectDone
  <2>2. CASE fd[t] \notin broken
    <3>1. /\ fd' = fd /\ event' = [event EXCEPT ![t] = DelEvent(@)]
          /\ interest' = DelInterest(event[t]) /\ Connected(t)
      BY <1>6, <2>2 DEF ConnectDone
    <3>2. PICK where \in {"shake", "idle"} : pc' = [pc EXCEPT ![t] = where]
      BY <3>1 DEF Connected
    <3> QED
      BY <1>5, <3>1, <3>2
  <2> QED
    BY <2>1, <2>2
<1>7. CASE Handshake(t)
  <2>1. CASE /\ fd' = fd /\ event' = [event EXCEPT ![t] = DelEvent(@)]
             /\ interest' = DelInterest(event[t]) /\ Go(t, "idle")
    BY <1>5, <2>1 DEF Go
  <2>2. ASSUME NEW want \in {"R", "W"}, fd' = fd,
               mk_event_add(t, event[t], event[t].fd, {want}, TRUE),
               Yield(t, IF want = "R" THEN "handshake R" ELSE "handshake W")
        PROVE  ArmInv'
    <3> DEFINE where == IF want = "R" THEN "handshake R" ELSE "handshake W"
    <3>1. where \in DOMAIN Waits /\ Waits[where] = {want}
      BY WaitsValues
    <3>2. pc' = [pc EXCEPT ![t] = where]
      BY <2>2 DEF Yield
    <3>3. mk_event_add(t, event[t], fd[t], {want}, TRUE)
      BY <1>3, <2>2
    <3> HIDE DEF where
    <3> QED
      BY <1>1, <1>2, <1>3, <2>2, <3>1, <3>2, <3>3, AddedArm
  <2> QED
    BY <1>4, <1>7, <2>1, <2>2 DEF Handshake
<1> QED
  BY <1>6, <1>7

LEMMA WriteArm ==
  ASSUME OwnInv, ArmInv, NEW t \in Threads, WriteCall(t)
  PROVE  ArmInv'
<1>1. /\ current = t /\ pc[t] \in {"idle", "write more", "write again"}
      /\ UNCHANGED <<tls, live>>
  BY DEF WriteCall, Sent, SentPart, WouldBlock, SendError, WriteAgain, Writing
<1>2. ArmedAt(t) /\ fd[t] \in Fds /\ pc[t] # "failed" /\ event[t] \in Events
  BY <1>1, ArmParts
<1>3. /\ pc[t] \in {"write more", "write again"} => Armed(t) /\ event[t].mask = {"W"}
      /\ Armed(t) \/ Disarmed(t)
  BY <1>1, <1>2, WaitsValues DEF ArmedAt
<1>4. ASSUME NEW ok \in Outcomes(TRUE, fd[t]), NEW where \in {"write more", "write again"},
             IF ok THEN /\ mk_event_add(t, MK_EVENT_NEW(event[t]), fd[t], {"W"}, TRUE)
                        /\ Yield(t, where) /\ UNCHANGED <<fd, open, broken>>
                   ELSE WriteFails(t, NotAdded(t), interest)
      PROVE  ArmInv'
  <2>1. CASE ok
    <3>1. /\ where \in DOMAIN Waits /\ Waits[where] = {"W"}
          /\ pc' = [pc EXCEPT ![t] = where] /\ fd' = fd
          /\ mk_event_add(t, MK_EVENT_NEW(event[t]), fd[t], {"W"}, TRUE)
      BY <1>4, <2>1, WaitsValues DEF Yield
    <3> QED
      BY <1>1, <1>2, <1>3, <3>1, AddedArm
  <2>2. CASE ~ok
    BY <1>1, <1>2, <1>3, <1>4, <2>2, ClosedArm
  <2> QED
    BY <2>1, <2>2
<1>5. CASE Sent(t)
  <2>1. /\ ~tls /\ fd' = fd /\ event' = [event EXCEPT ![t] = DelEvent(@)]
        /\ interest' = DelInterest(event[t]) /\ pc' = [pc EXCEPT ![t] = "idle"]
    BY <1>5 DEF Sent, Go
  <2> QED
    BY <1>1, <1>2, <1>3, <2>1, DeletedArm
<1>6. CASE SentPart(t)
  <2>1. CASE event[t].registered
    <3>1. pc[t] # "idle"
      <4>1. pc[t] = "idle" => ~tls /\ ~has_read[t]
        BY <1>6 DEF SentPart, Writing
      <4> QED
        BY <1>2, <2>1, <4>1 DEF ArmedAt, Disarmed
    <3>2. Armed(t) /\ event[t].mask = {"W"}
      BY <1>1, <1>3, <3>1
    <3>3. /\ UNCHANGED <<event, interest, fd>> /\ pc' = [pc EXCEPT ![t] = "write more"]
      BY <1>6, <2>1 DEF SentPart, Yield
    <3>4. Armed(t)' /\ event'[t].mask = {"W"}
      BY <3>2, <3>3 DEF Armed
    <3>5. "write more" \in DOMAIN Waits /\ Waits["write more"] = {"W"}
      BY WaitsValues
    <3> QED
      BY <1>1, <3>3, <3>4, <3>5, KeptArm
  <2>2. CASE ~event[t].registered
    BY <1>4, <1>6, <2>2 DEF SentPart
  <2> QED
    BY <2>1, <2>2
<1>7. CASE WouldBlock(t)
  BY <1>4, <1>7 DEF WouldBlock
<1>8. CASE WriteAgain(t)
  <2>1. ~(Deletes(event[t]) /\ "W" \in DelEvent(event[t]).mask)
    BY <1>2, EventTypes DEF DelEvent
  <2>2. WriteFails(t, DelEvent(event[t]), DelInterest(event[t]))
    BY <1>8, <2>1 DEF WriteAgain
  <2> QED
    BY <1>1, <1>2, <1>3, <2>2, ClosedArm
<1>9. CASE SendError(t)
  <2>1. WriteFails(t, event[t], interest)
    BY <1>9 DEF SendError
  <2> QED
    BY <1>1, <1>2, <1>3, <2>1, ClosedArm
<1> QED
  BY <1>5, <1>6, <1>7, <1>8, <1>9 DEF WriteCall

LEMMA ReadArm ==
  ASSUME OwnInv, ArmInv, NEW t \in Threads, ReadCall(t)
  PROVE  ArmInv'
<1>1. /\ current = t /\ pc[t] \in {"idle", "read"} /\ ~tls
      /\ UNCHANGED <<tls, live>> /\ has_read' = [has_read EXCEPT ![t] = TRUE]
  BY DEF ReadCall, Received, ReadBlocks, ReadError, Reading
<1>2. /\ ArmedAt(t) /\ fd[t] \in Fds /\ pc[t] # "failed" /\ event[t] \in Events
      /\ event \in [Threads -> Events]
  BY <1>1, ArmParts
<1>3. Armed(t) \/ Disarmed(t)
  BY <1>1, <1>2, WaitsValues DEF ArmedAt
<1>4. CASE Received(t)
  <2>1. UNCHANGED <<fd, event, interest>> /\ pc' = [pc EXCEPT ![t] = "idle"]
    BY <1>4 DEF Received, Go, conn, kernel
  <2>2. has_read'[t]
    BY <1>1 DEF OwnInv, TypeOK
  <2>3. Armed(t)' \/ Disarmed(t)'
    BY <1>3, <2>1 DEF Armed, Disarmed
  <2> QED
    BY <1>1, <2>1, <2>2, <2>3, KeptArm
<1>5. CASE ReadError(t)
  <2>1. UNCHANGED <<fd, event, interest>> /\ pc' = [pc EXCEPT ![t] = "failed"]
    BY <1>5 DEF ReadError, Go, conn, kernel
  <2>2. event' = [event EXCEPT ![t] = event[t]]
    BY <1>2, <2>1
  <2>3. event[t].registered => interest[event[t].fd].conn = t
    BY <1>3 DEF Armed, Disarmed
  <2> QED
    BY <1>1, <2>1, <2>2, <2>3, GoneArm
<1>6. CASE ReadBlocks(t)
  <2>1. PICK ok \in Outcomes(event[t].mask = {}, fd[t]) :
       IF ok THEN /\ mk_event_add(t, event[t], fd[t], {"R"}, TRUE)
                  /\ Yield(t, "read") /\ UNCHANGED <<fd, open, broken>>
             ELSE /\ Close(fd[t], interest)
                  /\ event' = [event EXCEPT ![t] = Added(@, fd[t], {"R"}, FALSE)]
                  /\ Go(t, "failed") /\ UNCHANGED fd
    BY <1>6 DEF ReadBlocks
  <2>2. CASE ok
    <3>1. /\ mk_event_add(t, event[t], fd[t], {"R"}, TRUE) /\ fd' = fd
          /\ pc' = [pc EXCEPT ![t] = "read"]
          /\ "read" \in DOMAIN Waits /\ Waits["read"] = {"R"}
      BY <2>1, <2>2, WaitsValues DEF Yield
    <3> QED
      BY <1>1, <1>2, <1>3, <3>1, AddedArm
  <2>3. CASE ~ok
    <3> DEFINE e == Added(event[t], fd[t], {"R"}, FALSE)
    <3>1. /\ event' = [event EXCEPT ![t] = e] /\ fd' = fd
          /\ pc' = [pc EXCEPT ![t] = "failed"]
          /\ interest' = [g \in DOMAIN interest \ {fd[t]} |-> interest[g]]
      BY <2>1, <2>3 DEF Close, Go
    <3>2. e.fd = fd[t]
      BY <1>3 DEF Added, Armed, Disarmed
    <3> HIDE DEF e
    <3>3. \A f \in open \ {fd[t]} :
            /\ f \in DOMAIN interest' <=> f \in DOMAIN interest
            /\ f \in DOMAIN interest => interest'[f] = interest[f]
      BY <3>1
    <3>4. e.fd \notin DOMAIN interest'
      BY <3>1, <3>2
    <3> QED
      BY <1>1, <3>1, <3>3, <3>4, GoneArm
  <2> QED
    BY <2>2, <2>3
<1> QED
  BY <1>4, <1>5, <1>6 DEF ReadCall

\* A TLS session does not ask whether its event could be changed: here it
\* matters that adding it does not fail.
LEMMA SessionArm ==
  ASSUME OwnInv, ArmInv, TRUE \notin Rare, NEW t \in Threads, SessionCall(t)
  PROVE  ArmInv'
<1>1. /\ current = t /\ pc[t] \in {"idle", "tls R", "tls W"} /\ tls
      /\ UNCHANGED <<tls, live>>
  BY DEF SessionCall, SessionWaits, SessionDone, SessionError, InSession
<1>2. /\ ArmedAt(t) /\ fd[t] \in open /\ pc[t] # "failed" /\ event[t] \in Events
      /\ event \in [Threads -> Events]
  BY <1>1, ArmParts
<1>3. (Armed(t) \/ Disarmed(t)) /\ event[t].fd = fd[t]
  BY <1>1, <1>2, WaitsValues DEF ArmedAt, Armed
<1>4. CASE SessionWaits(t)
  <2>1. PICK m \in {"R", "W"}, ok \in Outcomes(event[t].mask = {}, event[t].fd) :
          /\ io_tls_event_switch(t, m, ok)
          /\ Yield(t, IF m = "R" THEN "tls R" ELSE "tls W")
    BY <1>4 DEF SessionWaits
  <2> DEFINE where == IF m = "R" THEN "tls R" ELSE "tls W"
  <2>2. where \in DOMAIN Waits /\ Waits[where] = {m}
    BY WaitsValues
  <2>3. pc' = [pc EXCEPT ![t] = where] /\ fd' = fd
    BY <1>4, <2>1 DEF Yield, SessionWaits
  <2> HIDE DEF where
  <2>4. CASE m \notin event[t].mask
    <3>1. (event[t].mask = {}) <=> fd[t] \notin DOMAIN interest
      BY <1>3 DEF Armed, Disarmed
    <3>2. tls \notin Rare
      <4>1. tls = TRUE
        BY <1>1 DEF OwnInv, TypeOK
      <4> QED
        BY <4>1
    <3>3. ok = TRUE
      BY <1>2, <1>3, <2>1, <3>1, <3>2 DEF Outcomes
    <3>4. mk_event_add(t, event[t], fd[t], {m}, TRUE)
      BY <1>3, <2>1, <2>4, <3>3 DEF io_tls_event_switch
    <3> QED
      BY <1>1, <1>2, <1>3, <2>2, <2>3, <3>4, AddedArm
  <2>5. CASE m \in event[t].mask
    <3>1. UNCHANGED <<event, interest>>
      BY <2>1, <2>5 DEF io_tls_event_switch
    <3>2. Armed(t) /\ event[t].mask = {m}
      BY <1>3, <2>5 DEF Armed, Disarmed
    <3>3. Armed(t)' /\ event'[t].mask = {m}
      BY <2>3, <3>1, <3>2 DEF Armed
    <3> QED
      BY <1>1, <2>2, <2>3, <3>1, <3>3, KeptArm
  <2> QED
    BY <2>4, <2>5
<1>5. CASE SessionDone(t)
  <2>1. fd' = fd /\ pc' = [pc EXCEPT ![t] = "idle"]
    BY <1>5 DEF SessionDone, Go
  <2>2. CASE /\ event' = [event EXCEPT ![t] = DelEvent(@)]
             /\ interest' = DelInterest(event[t])
    BY <1>1, <1>2, <1>3, <2>1, <2>2, DeletedArm
  <2>3. CASE UNCHANGED <<event, interest>>
    <3>1. (Armed(t)' \/ Disarmed(t)') /\ event'[t].fd = fd[t]
      BY <1>3, <2>1, <2>3 DEF Armed, Disarmed
    <3> QED
      BY <1>1, <2>1, <2>3, <3>1, KeptArm
  <2> QED
    BY <1>5, <2>2, <2>3 DEF SessionDone
<1>6. CASE SessionError(t)
  <2>1. CASE WriteFails(t, DelEvent(event[t]), DelInterest(event[t]))
    BY <1>1, <1>2, <1>3, <2>1, ClosedArm
  <2>2. CASE /\ event' = [event EXCEPT ![t] = DelEvent(@)]
             /\ interest' = DelInterest(event[t])
             /\ Go(t, "failed") /\ UNCHANGED <<fd, open, broken>>
    <3> DEFINE e == DelEvent(event[t])
    <3>1. /\ e.registered = FALSE
          /\ DOMAIN interest' = DOMAIN interest \ {fd[t]}
          /\ \A f \in DOMAIN interest \ {fd[t]} : interest'[f] = interest[f]
      BY <1>2, <1>3, <2>2, DelArm
    <3>2. event' = [event EXCEPT ![t] = e] /\ pc' = [pc EXCEPT ![t] = "failed"]
      BY <1>2, <2>2 DEF Go
    <3> HIDE DEF e
    <3>3. \A f \in open \ {fd[t]} :
            /\ f \in DOMAIN interest' <=> f \in DOMAIN interest
            /\ f \in DOMAIN interest => interest'[f] = interest[f]
      BY <3>1
    <3> QED
      BY <1>1, <2>2, <3>1, <3>2, <3>3, GoneArm
  <2> QED
    BY <1>6, <2>1, <2>2 DEF SessionError
<1> QED
  BY <1>4, <1>5, <1>6 DEF SessionCall

LEMMA ReleaseArm ==
  ASSUME OwnInv, ArmInv, NEW t \in Threads, flb_upstream_conn_release(t)
  PROVE  ArmInv'
<1>1. /\ current = t /\ pc[t] \in {"idle", "failed"} /\ UNCHANGED <<tls, live>>
      /\ pc' = [pc EXCEPT ![t] = "ended"] /\ fd' = [fd EXCEPT ![t] = -1]
      /\ event' = [event EXCEPT ![t] = NewEvent]
  BY DEF flb_upstream_conn_release, End
<1>2. ArmedAt(t) /\ DOMAIN interest \subseteq open
  BY <1>1, ArmParts
<1>3. event[t].registered /\ event[t].fd \in DOMAIN interest => event[t].fd = fd[t]
  <2>1. event[t].registered /\ event[t].fd \in DOMAIN interest =>
          interest[event[t].fd].conn = t
    BY <1>1, <1>2 DEF ArmedAt, Armed, Disarmed
  <2> QED
    BY <2>1 DEF OwnInv, EpollInv
<1>4. /\ DOMAIN DelInterest(event[t]) \ {fd[t]} = DOMAIN interest \ {fd[t]}
      /\ \A f \in DOMAIN DelInterest(event[t]) : DelInterest(event[t])[f] = interest[f]
  <2>1. /\ DOMAIN DelInterest(event[t]) \subseteq DOMAIN interest
        /\ \A f \in DOMAIN DelInterest(event[t]) : DelInterest(event[t])[f] = interest[f]
        /\ DOMAIN interest \ {event[t].fd} \subseteq DOMAIN DelInterest(event[t])
        /\ ~event[t].registered => DelInterest(event[t]) = interest
    BY DelInterestParts
  <2> QED
    BY <1>3, <2>1
<1>5. \A f \in open \ {fd[t]} :
        /\ f \in DOMAIN interest' <=> f \in DOMAIN interest
        /\ f \in DOMAIN interest => interest'[f] = interest[f]
  <2>1. CASE fd[t] > 0
    <3>1. interest' = [g \in DOMAIN DelInterest(event[t]) \ {fd[t]} |-> DelInterest(event[t])[g]]
      BY <2>1 DEF flb_upstream_conn_release, Close
    <3> QED
      BY <1>4, <3>1
  <2>2. CASE ~(fd[t] > 0)
    <3>1. interest' = DelInterest(event[t])
      BY <2>2 DEF flb_upstream_conn_release
    <3> QED
      BY <1>4, <3>1
  <2> QED
    BY <2>1, <2>2
<1> QED
  BY <1>1, <1>5, GoneArm

LEMMA GetArm ==
  ASSUME OwnInv, ArmInv, TRUE \notin Rare, NEW t \in Threads, flb_upstream_conn_get(t)
  PROVE  ArmInv'
<1>1. /\ live /\ current = NoThread /\ pc[t] = "new" /\ UNCHANGED <<tls, live>>
  BY DEF flb_upstream_conn_get
<1>2. /\ event[t] = NewEvent /\ event \in [Threads -> Events]
      /\ pc \in [Threads -> Places] /\ fd \in [Threads -> Fds \union {-1}]
      /\ DOMAIN interest \subseteq open
  BY <1>1 DEF ArmInv, ArmedAt, OwnInv, TypeOK, Events, Masks, Places
<1>3. PICK f \in Fds :
        /\ Free(f)
        /\ \/ /\ tls \in Rare
              /\ fd' = [fd EXCEPT ![t] = f] /\ open' = open \union {f}
              /\ current' = t /\ Connected(t) /\ UNCHANGED <<event, interest>>
           \/ /\ fd' = [fd EXCEPT ![t] = f] /\ open' = open \union {f}
              /\ mk_event_add(t, NewEvent, f, {"W"}, TRUE)
              /\ Yield(t, "connect") /\ UNCHANGED upstream
           \/ End(t) /\ UNCHANGED <<conn, upstream, open, interest>>
  BY DEF flb_upstream_conn_get
<1>4. f \notin open
  BY <1>3 DEF Free
<1>5. CASE /\ tls \in Rare
           /\ fd' = [fd EXCEPT ![t] = f] /\ open' = open \union {f}
           /\ current' = t /\ Connected(t) /\ UNCHANGED <<event, interest>>
  <2>1. tls = FALSE
    BY <1>5 DEF OwnInv, TypeOK
  <2>2. pc' = [pc EXCEPT ![t] = "idle"]
    BY <1>5, <2>1 DEF Connected
  <2>3. pc'[t] = "idle" /\ fd'[t] = f /\ event'[t] = NewEvent /\ ~tls'
    BY <1>1, <1>2, <1>5, <2>1, <2>2
  <2>4. Disarmed(t)'
    BY <1>2, <1>4, <1>5, <2>3 DEF Disarmed, NewEvent
  <2>5. ArmedAt(t)'
    BY <2>3, <2>4, WaitsValues DEF ArmedAt
  <2>6. OthersKept(t)
    BY <1>2, <1>5, <2>2 DEF OthersKept
  <2> QED
    BY <1>1, <2>5, <2>6, OthersArmed
<1>6. CASE /\ fd' = [fd EXCEPT ![t] = f] /\ open' = open \union {f}
           /\ mk_event_add(t, NewEvent, f, {"W"}, TRUE)
           /\ Yield(t, "connect") /\ UNCHANGED upstream
  <2>1. pc' = [pc EXCEPT ![t] = "connect"] /\ fd'[t] = f
    BY <1>2, <1>6 DEF Yield
  <2>2. NewEvent \in Events /\ NewEvent.mask = {}
    BY NewEventType DEF NewEvent
  <2>3. /\ Armed(t)' /\ event'[t].mask = {"W"}
        /\ \A u \in Threads \ {t} : event'[u] = event[u]
        /\ DOMAIN interest' = DOMAIN interest \union {f}
        /\ \A g \in DOMAIN interest \ {f} : interest'[g] = interest[g]
    BY <1>2, <1>6, <2>1, <2>2, AddArm
  <2>4. pc'[t] = "connect" /\ Waits["connect"] = {"W"}
    BY <1>2, <2>1, WaitsValues
  <2>5. ArmedAt(t)'
    BY <2>3, <2>4 DEF ArmedAt
  <2>6. OthersKept(t)
    <3>1. \A g \in open : g # f
      BY <1>4
    <3> QED
      BY <1>2, <1>6, <2>1, <2>3, <3>1 DEF OthersKept
  <2> QED
    BY <1>1, <2>5, <2>6, OthersArmed
<1>7. CASE End(t) /\ UNCHANGED <<conn, upstream, open, interest>>
  <2>1. pc' = [pc EXCEPT ![t] = "ended"] /\ UNCHANGED <<fd, event, interest>>
    BY <1>7 DEF End, conn
  <2>2. pc'[t] = "ended"
    BY <1>2, <2>1
  <2>3. ArmedAt(t)'
    BY <2>2, WaitsValues DEF ArmedAt
  <2>4. OthersKept(t)
    BY <1>2, <2>1 DEF OthersKept
  <2> QED
    BY <1>1, <2>3, <2>4, OthersArmed
<1> QED
  BY <1>3, <1>5, <1>6, <1>7

LEMMA ArmInit == Init => ArmInv
<1> SUFFICES ASSUME Init, NEW t \in Threads PROVE ArmedAt(t)
  BY DEF ArmInv
<1>1. pc[t] = "new" /\ event[t] = NewEvent
  BY DEF Init
<1> QED
  BY <1>1, WaitsValues DEF ArmedAt

LEMMA ArmNext ==
  ASSUME OwnInv, ArmInv, TRUE \notin Rare, [Next]_vars
  PROVE  ArmInv'
<1>1. ASSUME NEW t \in Threads, flb_upstream_conn_get(t) \/ Step(t)
      PROVE  ArmInv'
  <2>1. CASE flb_upstream_conn_get(t)
    BY <2>1, GetArm
  <2>2. CASE ConnectDone(t) \/ Handshake(t) \/ flb_upstream_conn_release(t)
    BY <2>2, EstablishArm, ReleaseArm
  <2>3. CASE WriteCall(t) \/ ReadCall(t) \/ SessionCall(t)
    BY <2>3, WriteArm, ReadArm, SessionArm
  <2> QED
    BY <1>1, <2>1, <2>2, <2>3 DEF Step, WriteCall, ReadCall, SessionCall
<1>2. CASE flb_upstream_destroy
  <2>1. live' = FALSE
    BY <1>2 DEF flb_upstream_destroy
  <2> QED
    BY <2>1 DEF ArmInv
<1>3. CASE Break \/ (\E f \in Fds : Resume(f)) \/ UNCHANGED vars
  <2>1. UNCHANGED <<tls, live, pc, fd, event, has_read, interest>>
    BY <1>3 DEF Break, Resume, vars, conn, counts, kernel
  <2> QED
    BY <2>1 DEF ArmInv, ArmedAt, Armed, Disarmed
<1> QED
  BY <1>1, <1>2, <1>3 DEF Next

(***************************************************************************)
(* No wake-up is lost and none goes astray: at the event loop, the         *)
(* registered sockets are those a co-routine waits for, with the interest  *)
(* it waits for.  This is for any number of connections and every failure  *)
(* of a plain TCP connection; for TLS it needs that connect() does not     *)
(* succeed at once and that epoll_ctl() ADD does not run out of memory,    *)
(* because neither case is handled there.                                  *)
(***************************************************************************)
THEOREM ArmedCorrect == TRUE \notin Rare => (Spec => []ArmedIffSuspended)
<1> SUFFICES ASSUME TRUE \notin Rare PROVE Spec => []ArmedIffSuspended
  OBVIOUS
<1>1. Init => OwnInv /\ ArmInv
  BY OwnInit, ArmInit
<1>2. OwnInv /\ ArmInv /\ [Next]_vars => (OwnInv /\ ArmInv)'
  BY OwnNext, ArmNext
<1>3. OwnInv /\ ArmInv => ArmedIffSuspended
  <2> SUFFICES ASSUME OwnInv, ArmInv, current = NoThread, live PROVE ArmedIffSuspended
    BY DEF ArmedIffSuspended
  <2>1. \A t \in Threads : pc[t] \in DOMAIN Waits =>
          /\ fd[t] \in DOMAIN interest
          /\ interest[fd[t]] = [conn |-> t, mask |-> Waits[pc[t]]]
    BY DEF ArmInv, ArmedAt, Armed
  <2>2. ASSUME NEW f \in DOMAIN interest
        PROVE  pc[interest[f].conn] \in DOMAIN Waits /\ fd[interest[f].conn] = f
    <3> DEFINE t == interest[f].conn
    <3>1. t \in Threads /\ fd[t] = f /\ f \in Fds
      BY DEF OwnInv, TypeOK, EpollInv
    <3> HIDE DEF t
    <3>2. pc[t] \notin {"new", "ended"}
      BY <3>1, FdsFacts DEF OwnInv, FdInv
    <3>3. pc[t] \notin {"shake", "idle", "failed"}
      BY <3>1, UpstreamAssumption DEF OwnInv, FdInv, UpstreamAssumption
    <3>4. pc[t] \in DOMAIN Waits
      BY <3>1, <3>2, <3>3 DEF OwnInv, TypeOK
    <3> QED
      BY <3>1, <3>4 DEF t
  <2> QED
    BY <2>1, <2>2 DEF ArmedIffSuspended
<1> QED
  BY <1>1, <1>2, <1>3, PTL DEF Spec
===============================================================================

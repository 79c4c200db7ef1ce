------------------------------ MODULE FlbUpstream ------------------------------
(***************************************************************************)
(* Connections to a server (src/flb_upstream.c) and the I/O of co-routines *)
(* on them (src/flb_io.c, src/flb_io_tls.c).                               *)
(*                                                                         *)
(* A flush callback runs in a co-routine: it gets a connection, makes I/O  *)
(* calls on it and releases it.  A call that cannot go on registers the    *)
(* socket in the engine's event loop and yields; the loop resumes the      *)
(* co-routine of the connection when the socket is ready.  Only one        *)
(* co-routine runs at a time, and it runs until it yields or ends.         *)
(*                                                                         *)
(* The structures of the library (u_conn->fd, u_conn->event) and those of  *)
(* the kernel (descriptors, the interest list of epoll) are kept apart:    *)
(* what can go wrong is that they disagree.  Data is left out: a call ends *)
(* at once, makes some progress, would block, or fails.                    *)
(***************************************************************************)
EXTENDS Integers, FiniteSets

CONSTANTS
  Threads,       \* co-routines; each has at most one connection
  NoThread,
  MaxFd,         \* bound: descriptors
  MaxCalls,      \* bound: I/O calls of a co-routine
  MaxWaits,      \* bound: times a co-routine yields on a connected socket
  Rare           \* values of tls for which the rare outcomes happen: connect()
                 \* succeeds at once, epoll_ctl() ADD fails for want of memory

VARIABLES
  tls,           \* u->flags & FLB_IO_TLS (FLB_IO_TCP otherwise)
  \* the engine's thread
  current,       \* the co-routine that runs, NoThread: the event loop
  \* co-routines and their connections
  pc,            \* where a co-routine stands
  fd,            \* u_conn->fd, -1 if none
  event,         \* u_conn->event
  has_read,      \* has a call read from the connection?
  calls, waits,  \* what the bounds count
  live,          \* does the upstream context exist?
  busy_queue,    \* u->busy_queue
  n_connections, \* u->n_connections
  \* the kernel
  open,          \* descriptors that are open
  broken,        \* descriptors whose connection has failed
  interest       \* the interest list of epoll: descriptor -> connection, mask

conn   == <<fd, event>>
counts == <<has_read, calls, waits>>
upstream == <<busy_queue, n_connections>>
kernel == <<open, broken, interest>>
vars == <<tls, live, current, pc, conn, counts, upstream, kernel>>

Fds == 1..MaxFd
NewEvent == [fd |-> 0, mask |-> {}, registered |-> FALSE]

ASSUME UpstreamAssumption ==
  /\ NoThread \notin Threads
  /\ MaxFd \in Nat /\ MaxCalls \in Nat /\ MaxWaits \in Nat
  /\ Rare \subseteq BOOLEAN

\* Places where a co-routine has yielded, and what it waits for there.
WaitsR == {"handshake R", "read", "tls R"}
WaitsW == {"connect", "handshake W", "write again", "write more", "tls W"}
Waits == [p \in WaitsR \union WaitsW |-> IF p \in WaitsR THEN {"R"} ELSE {"W"}]

\* Places before the connection is on the busy queue.
Establishing == {"connect", "handshake R", "handshake W"}

TypeOK ==
  /\ tls \in BOOLEAN /\ live \in BOOLEAN /\ current \in Threads \union {NoThread}
  /\ pc \in [Threads -> {"new", "shake", "idle", "failed", "ended"} \union DOMAIN Waits]
  /\ fd \in [Threads -> Fds \union {-1}]
  /\ event \in [Threads -> [fd : Fds \union {0}, mask : SUBSET {"R", "W"},
                            registered : BOOLEAN]]
  /\ has_read \in [Threads -> BOOLEAN]
  /\ calls \in [Threads -> 0..MaxCalls] /\ waits \in [Threads -> 0..MaxWaits]
  /\ busy_queue \subseteq Threads /\ n_connections \in Nat
  /\ open \subseteq Fds /\ broken \subseteq open
  /\ DOMAIN interest \subseteq open
  /\ \A f \in DOMAIN interest :
       interest[f] \in [conn : Threads, mask : SUBSET {"R", "W"}]

Init ==
  /\ tls \in BOOLEAN /\ live = TRUE /\ current = NoThread
  /\ pc = [t \in Threads |-> "new"]
  /\ fd = [t \in Threads |-> -1] /\ event = [t \in Threads |-> NewEvent]
  /\ has_read = [t \in Threads |-> FALSE]
  /\ calls = [t \in Threads |-> 0] /\ waits = [t \in Threads |-> 0]
  /\ busy_queue = {} /\ n_connections = 0
  /\ open = {} /\ broken = {} /\ interest = <<>>
-----------------------------------------------------------------------------
(* epoll, and mk_event_add(), mk_event_del() of the event loop library.    *)

Without(f) == [g \in DOMAIN interest \ {f} |-> interest[g]]
With(f, entry) == [g \in DOMAIN interest \union {f} |->
                     IF g = f THEN entry ELSE interest[g]]

\* Which outcomes has epoll_ctl() ADD or MOD on descriptor f?
Outcomes(add, f) ==
  IF f \in open /\ (add <=> f \notin DOMAIN interest)
  THEN IF add /\ tls \in Rare THEN BOOLEAN ELSE {TRUE}
  ELSE {FALSE}

\* Event e after mk_event_add() on f: ADD if its mask is empty.  It counts as
\* registered even if epoll_ctl() fails.
Added(e, f, m, ok) ==
  LET add == e.mask = {} IN
  [fd |-> IF add THEN f ELSE e.fd, mask |-> IF ok THEN m ELSE e.mask,
   registered |-> e.registered \/ add]

\* mk_event_add(): connection t waits for m with event e on f.
mk_event_add(t, e, f, m, ok) ==
  /\ event' = [event EXCEPT ![t] = Added(e, f, m, ok)]
  /\ interest' = IF ok THEN With(f, [conn |-> t, mask |-> m]) ELSE interest

\* MK_EVENT_NEW() leaves the descriptor as it is.
MK_EVENT_NEW(e) == [e EXCEPT !.mask = {}, !.registered = FALSE]

\* Does mk_event_del() find something to delete?
Deletes(e) == e.registered /\ e.fd \in DOMAIN interest

\* The event and the interest list after mk_event_del().
DelEvent(e) == IF Deletes(e) THEN MK_EVENT_NEW(e) ELSE e
DelInterest(e) == IF e.registered THEN Without(e.fd) ELSE interest

\* flb_socket_close(): closing a socket takes it off the interest list.  The
\* close() of a number that is not open fails with EBADF and changes nothing,
\* here as in the kernel; the library does not look at the result.
Close(f, reg) == /\ open' = open \ {f} /\ broken' = broken \ {f}
                 /\ interest' = [g \in DOMAIN reg \ {f} |-> reg[g]]

\* The server or the network breaks a connection.
Break == \E f \in open \ broken :
           /\ broken' = broken \union {f}
           /\ UNCHANGED <<tls, live, current, pc, conn, counts, upstream, open, interest>>
-----------------------------------------------------------------------------
(* Yield and resume.                                                       *)

\* flb_thread_yield(): the co-routine stops at `where'.
Yield(t, where) == pc' = [pc EXCEPT ![t] = where] /\ current' = NoThread

\* FLB_OUTPUT_RETURN(): the co-routine is done.
End(t) == pc' = [pc EXCEPT ![t] = "ended"] /\ current' = NoThread

\* The co-routine goes on without yielding.
Go(t, where) == pc' = [pc EXCEPT ![t] = where] /\ UNCHANGED current

\* FLB_ENGINE_EV_THREAD: flb_engine_start() resumes the co-routine of the
\* connection an event belongs to.
Resume(f) ==
  /\ live /\ current = NoThread /\ f \in DOMAIN interest
  /\ current' = interest[f].conn
  /\ UNCHANGED <<tls, live, pc, conn, counts, upstream, kernel>>
-----------------------------------------------------------------------------
(* flb_upstream_conn_get(), create_conn(), flb_io_net_connect().           *)

\* Seeded fault: a new connection is queued and not counted.
QueueOnly(t) == busy_queue' = busy_queue \union {t} /\ UNCHANGED n_connections

\* create_conn() has a connection: it is queued and counted.
Count(t) == /\ busy_queue' = busy_queue \union {t}
            /\ n_connections' = n_connections + 1

\* The socket is connected: the TLS handshake, or the connection is ready.
Connected(t) ==
  IF tls THEN pc' = [pc EXCEPT ![t] = "shake"] /\ UNCHANGED upstream
         ELSE pc' = [pc EXCEPT ![t] = "idle"] /\ Count(t)

\* socket() returns the lowest free descriptor.
Free(f) == f \in Fds \ open /\ \A g \in Fds \ open : f <= g

\* The flush callback begins: the connection is established at once, is in
\* progress, or fails (no socket, refused, the event cannot be added).  av_queue
\* is always empty and max_connections is never set, so a connection is created
\* every time.
flb_upstream_conn_get(t) ==
  /\ live /\ current = NoThread /\ pc[t] = "new"
  /\ \E f \in Fds :
     /\ Free(f)
     /\ \/ /\ tls \in Rare
           /\ fd' = [fd EXCEPT ![t] = f] /\ open' = open \union {f}
           /\ current' = t /\ Connected(t) /\ UNCHANGED <<event, interest>>
        \/ /\ fd' = [fd EXCEPT ![t] = f] /\ open' = open \union {f}
           /\ mk_event_add(t, NewEvent, f, {"W"}, TRUE)
           /\ Yield(t, "connect") /\ UNCHANGED upstream
        \/ End(t) /\ UNCHANGED <<conn, upstream, open, interest>>
  /\ UNCHANGED <<tls, live, counts, broken>>

\* A connection that could not be established: create_conn() frees it.
Abandon(t, e, reg) ==
  /\ Close(fd[t], reg)
  /\ fd' = [fd EXCEPT ![t] = -1]
  /\ event' = [event EXCEPT ![t] = e]
  /\ End(t) /\ UNCHANGED upstream

\* The socket became writable: getsockopt() tells whether it is connected.
ConnectDone(t) ==
  /\ current = t /\ pc[t] = "connect"
  /\ IF fd[t] \in broken
     THEN Abandon(t, DelEvent(event[t]), DelInterest(event[t]))
     ELSE /\ event' = [event EXCEPT ![t] = DelEvent(@)]
          /\ interest' = DelInterest(event[t])
          /\ Connected(t) /\ UNCHANGED <<current, fd, open, broken>>
  /\ UNCHANGED <<tls, live, counts>>

\* net_io_tls_handshake(): done, waiting for the peer, or failed.  It registers
\* event.fd, which is not set if connect() succeeded at once.
Handshake(t) ==
  /\ current = t /\ pc[t] \in {"shake", "handshake R", "handshake W"}
  /\ \/ /\ fd[t] \notin broken
        /\ event' = [event EXCEPT ![t] = DelEvent(@)]
        /\ interest' = DelInterest(event[t])
        /\ Go(t, "idle") /\ Count(t)
        /\ UNCHANGED <<fd, waits, open, broken>>
     \/ /\ fd[t] \notin broken /\ waits[t] < MaxWaits
        /\ waits' = [waits EXCEPT ![t] = @ + 1]
        /\ \E want \in {"R", "W"}, ok \in Outcomes(event[t].mask = {}, event[t].fd) :
             IF ok
             THEN /\ mk_event_add(t, event[t], event[t].fd, {want}, TRUE)
                  /\ Yield(t, IF want = "R" THEN "handshake R" ELSE "handshake W")
                  /\ UNCHANGED <<fd, open, broken, upstream>>
             ELSE Abandon(t, DelEvent(event[t]), DelInterest(event[t]))
     \/ /\ fd[t] \in broken
        /\ Abandon(t, DelEvent(event[t]), DelInterest(event[t]))
        /\ UNCHANGED waits
  /\ UNCHANGED <<tls, live, has_read, calls>>
-----------------------------------------------------------------------------
(* flb_io_net_write()                                                      *)

\* A write failed: the socket is closed and the plugin will release.
WriteFails(t, e, reg) ==
  /\ Close(fd[t], reg)
  /\ fd' = [fd EXCEPT ![t] = -1]
  /\ event' = [event EXCEPT ![t] = e]
  /\ Go(t, "failed")

\* The event of t when it could not be added anew.
NotAdded(t) == Added(MK_EVENT_NEW(event[t]), fd[t], {"W"}, FALSE)

\* A call was made, or goes on after a yield.  Plugins that use plain TCP
\* write their request first and then read the answer.
Writing(t) ==
  /\ current = t
  /\ \/ /\ pc[t] = "idle" /\ calls[t] < MaxCalls /\ (tls \/ ~has_read[t])
        /\ calls' = [calls EXCEPT ![t] = @ + 1]
     \/ pc[t] = "write more" /\ UNCHANGED calls
  /\ UNCHANGED <<tls, live, has_read, upstream>>

\* net_io_write_async(): everything was sent.
Sent(t) ==
  /\ ~tls /\ Writing(t) /\ fd[t] \notin broken
  /\ event' = [event EXCEPT ![t] = DelEvent(@)]
  /\ interest' = DelInterest(event[t])
  /\ Go(t, "idle") /\ UNCHANGED <<fd, waits, open, broken>>

\* Seeded fault: the socket is not registered before the yield.
SentPartUnarmed(t) ==
  /\ ~tls /\ Writing(t) /\ fd[t] \notin broken /\ waits[t] < MaxWaits
  /\ waits' = [waits EXCEPT ![t] = @ + 1]
  /\ UNCHANGED <<event, interest, fd, open, broken>> /\ Yield(t, "write more")

\* net_io_write_async(): a part was sent; unless the event is registered
\* already, wait until the socket takes more.
SentPart(t) ==
  /\ ~tls /\ Writing(t) /\ fd[t] \notin broken /\ waits[t] < MaxWaits
  /\ waits' = [waits EXCEPT ![t] = @ + 1]
  /\ IF event[t].registered
     THEN UNCHANGED <<event, interest, fd, open, broken>> /\ Yield(t, "write more")
     ELSE \E ok \in Outcomes(TRUE, fd[t]) :
            IF ok THEN /\ mk_event_add(t, MK_EVENT_NEW(event[t]), fd[t], {"W"}, TRUE)
                       /\ Yield(t, "write more") /\ UNCHANGED <<fd, open, broken>>
                  ELSE WriteFails(t, NotAdded(t), interest)

\* net_io_write_async(): EAGAIN.  The event is made anew although it may be
\* registered; then adding it fails.
WouldBlock(t) ==
  /\ ~tls /\ Writing(t) /\ fd[t] \notin broken /\ waits[t] < MaxWaits
  /\ waits' = [waits EXCEPT ![t] = @ + 1]
  /\ \E ok \in Outcomes(TRUE, fd[t]) :
       IF ok THEN /\ mk_event_add(t, MK_EVENT_NEW(event[t]), fd[t], {"W"}, TRUE)
                  /\ Yield(t, "write again") /\ UNCHANGED <<fd, open, broken>>
             ELSE WriteFails(t, NotAdded(t), interest)

\* Resumed after EAGAIN: mk_event_del() resets the mask, and the mask is tested
\* after it.  Were WRITE still in it, the send would be tried again.
WriteAgain(t) ==
  /\ current = t /\ pc[t] = "write again"
  /\ LET e == DelEvent(event[t]) IN
     IF Deletes(event[t]) /\ "W" \in e.mask /\ fd[t] \notin broken
     THEN /\ event' = [event EXCEPT ![t] = MK_EVENT_NEW(e)]
          /\ interest' = DelInterest(event[t])
          /\ Go(t, "write more") /\ UNCHANGED <<fd, open, broken>>
     ELSE WriteFails(t, e, DelInterest(event[t]))
  /\ UNCHANGED <<tls, live, counts, upstream>>

\* send() fails.
SendError(t) ==
  /\ ~tls /\ Writing(t) /\ fd[t] \in broken
  /\ WriteFails(t, event[t], interest) /\ UNCHANGED waits
-----------------------------------------------------------------------------
(* flb_io_net_read() and the calls of a TLS session.                       *)

Reading(t) ==
  /\ current = t /\ ~tls
  /\ \/ /\ pc[t] = "idle" /\ calls[t] < MaxCalls
        /\ calls' = [calls EXCEPT ![t] = @ + 1]
     \/ pc[t] = "read" /\ UNCHANGED calls
  /\ has_read' = [has_read EXCEPT ![t] = TRUE]
  /\ UNCHANGED <<tls, live, upstream>>

\* net_io_read_async(): there is data.  The event stays registered.
Received(t) ==
  /\ Reading(t) /\ fd[t] \notin broken
  /\ Go(t, "idle") /\ UNCHANGED <<conn, waits, kernel>>

\* net_io_read_async(): EAGAIN.  If the event cannot be added the socket is
\* closed, but u_conn->fd keeps its number.
ReadBlocks(t) ==
  /\ Reading(t) /\ fd[t] \notin broken /\ waits[t] < MaxWaits
  /\ waits' = [waits EXCEPT ![t] = @ + 1]
  /\ \E ok \in Outcomes(event[t].mask = {}, fd[t]) :
       IF ok THEN /\ mk_event_add(t, event[t], fd[t], {"R"}, TRUE)
                  /\ Yield(t, "read") /\ UNCHANGED <<fd, open, broken>>
             ELSE /\ Close(fd[t], interest)
                  /\ event' = [event EXCEPT ![t] = Added(@, fd[t], {"R"}, FALSE)]
                  /\ Go(t, "failed") /\ UNCHANGED fd

\* read() fails, or the server has closed the connection.
ReadError(t) ==
  /\ Reading(t) /\ fd[t] \in broken
  /\ Go(t, "failed") /\ UNCHANGED <<conn, waits, kernel>>

\* A call on a TLS session begins or goes on.
InSession(t) ==
  /\ current = t /\ tls
  /\ \/ /\ pc[t] = "idle" /\ calls[t] < MaxCalls
        /\ calls' = [calls EXCEPT ![t] = @ + 1]
     \/ pc[t] \in {"tls R", "tls W"} /\ UNCHANGED calls
  /\ UNCHANGED <<tls, live, has_read, upstream>>

\* Seeded fault: an event that is registered keeps its mask.
SwitchOnce(t, m, ok) ==
  IF event[t].mask = {} THEN mk_event_add(t, event[t], event[t].fd, {m}, ok)
  ELSE UNCHANGED <<event, interest>>

\* io_tls_event_switch(): wait for m, whatever was waited for before.
io_tls_event_switch(t, m, ok) ==
  IF m \notin event[t].mask THEN mk_event_add(t, event[t], event[t].fd, {m}, ok)
  ELSE UNCHANGED <<event, interest>>

\* flb_io_tls_net_read(), flb_io_tls_net_write(): WANT_READ, WANT_WRITE or a
\* partial write.  Whether the event could be changed is not asked.
SessionWaits(t) ==
  /\ InSession(t) /\ UNCHANGED <<fd, open, broken>>
  /\ fd[t] \notin broken /\ waits[t] < MaxWaits
  /\ waits' = [waits EXCEPT ![t] = @ + 1]
  /\ \E m \in {"R", "W"}, ok \in Outcomes(event[t].mask = {}, event[t].fd) :
       io_tls_event_switch(t, m, ok) /\ Yield(t, IF m = "R" THEN "tls R" ELSE "tls W")

\* The call ends; a write takes the event off the loop, a read does not.
SessionDone(t) ==
  /\ InSession(t) /\ UNCHANGED <<fd, open, broken>> /\ fd[t] \notin broken
  /\ \/ /\ event' = [event EXCEPT ![t] = DelEvent(@)]
        /\ interest' = DelInterest(event[t])
     \/ UNCHANGED <<event, interest>>
  /\ Go(t, "idle") /\ UNCHANGED waits

\* The session fails and is destroyed; flb_io_net_write() closes the socket
\* too, flb_io_net_read() leaves that to the release.
SessionError(t) ==
  /\ InSession(t) /\ fd[t] \in broken /\ UNCHANGED waits
  /\ \/ WriteFails(t, DelEvent(event[t]), DelInterest(event[t]))
     \/ /\ event' = [event EXCEPT ![t] = DelEvent(@)]
        /\ interest' = DelInterest(event[t])
        /\ Go(t, "failed") /\ UNCHANGED <<fd, open, broken>>
-----------------------------------------------------------------------------
\* Seeded fault: the socket of a released connection stays open.
ReleaseOpen(t) ==
  /\ current = t /\ pc[t] \in {"idle", "failed"}
  /\ interest' = DelInterest(event[t])
  /\ fd' = [fd EXCEPT ![t] = -1] /\ event' = [event EXCEPT ![t] = NewEvent]
  /\ busy_queue' = busy_queue \ {t} /\ n_connections' = n_connections - 1
  /\ End(t) /\ UNCHANGED <<tls, live, counts, open, broken>>

\* flb_upstream_conn_release(), after the last call or after a failed one.
flb_upstream_conn_release(t) ==
  /\ current = t /\ pc[t] \in {"idle", "failed"}
  /\ IF fd[t] > 0 THEN Close(fd[t], DelInterest(event[t]))
                  ELSE /\ interest' = DelInterest(event[t])
                       /\ UNCHANGED <<open, broken>>
  /\ fd' = [fd EXCEPT ![t] = -1] /\ event' = [event EXCEPT ![t] = NewEvent]
  /\ busy_queue' = busy_queue \ {t} /\ n_connections' = n_connections - 1
  /\ End(t) /\ UNCHANGED <<tls, live, counts>>

\* flb_upstream_destroy(), from the exit callback of the plugin: the event loop
\* has ended.  It releases what is on the busy queue, whatever the co-routines
\* wait for; a connection that is being established is not on it.
flb_upstream_destroy ==
  /\ live /\ current = NoThread
  /\ LET closed == {fd[t] : t \in busy_queue} IN
     /\ open' = open \ closed /\ broken' = broken \ closed
     /\ interest' = [f \in DOMAIN interest \ closed |-> interest[f]]
  /\ fd' = [t \in Threads |-> IF t \in busy_queue THEN -1 ELSE fd[t]]
  /\ event' = [t \in Threads |-> IF t \in busy_queue THEN NewEvent ELSE event[t]]
  /\ n_connections' = n_connections - Cardinality(busy_queue)
  /\ live' = FALSE /\ busy_queue' = {}
  /\ UNCHANGED <<tls, current, pc, counts>>

Step(t) ==
  \/ ConnectDone(t) \/ Handshake(t)
  \/ Sent(t) \/ SentPart(t) \/ WouldBlock(t) \/ WriteAgain(t) \/ SendError(t)
  \/ Received(t) \/ ReadBlocks(t) \/ ReadError(t)
  \/ SessionWaits(t) \/ SessionDone(t) \/ SessionError(t)
  \/ flb_upstream_conn_release(t)

Next ==
  \/ Break \/ flb_upstream_destroy \/ \E f \in Fds : Resume(f)
  \/ \E t \in Threads : flb_upstream_conn_get(t) \/ Step(t)

Spec == Init /\ [][Next]_vars

\* A co-routine goes on until it yields; a socket that is waited for becomes
\* ready in the end, be it because the connection failed: there is no timeout
\* in the code that would end a wait.
Fairness ==
  /\ \A t \in Threads : WF_vars(flb_upstream_conn_get(t)) /\ WF_vars(Step(t))
  /\ \A f \in Fds : SF_vars(Resume(f))

FairSpec == Spec /\ Fairness
-----------------------------------------------------------------------------
(* Properties.                                                             *)

\* At the event loop, the sockets that are registered are those a co-routine
\* waits for, with the interest it waits for: no wake-up is lost, and none
\* goes to a co-routine that is elsewhere or gone.
ArmedIffSuspended ==
  current = NoThread /\ live =>
    /\ \A t \in Threads : pc[t] \in DOMAIN Waits =>
         /\ fd[t] \in DOMAIN interest
         /\ interest[fd[t]] = [conn |-> t, mask |-> Waits[pc[t]]]
    /\ \A f \in DOMAIN interest :
         pc[interest[f].conn] \in DOMAIN Waits /\ fd[interest[f].conn] = f

\* Every open descriptor belongs to one connection.  The code closes some
\* numbers twice (flb_io.c, 410, then the release, flb_upstream.c, 210): a number
\* that is closed already is kept only by the co-routine that runs, so that no
\* socket can be opened under it before the second close(), and no connection
\* ever has a number another one has open.  At the event loop, the connections
\* counted and queued are those established and not yet released; the end of
\* the context leaves only descriptors of connections being established.
ConnectionsOwned ==
  /\ \A f \in open : \E t \in Threads : fd[t] = f
  /\ \A t \in Threads :
       fd[t] > 0 /\ fd[t] \notin open => pc[t] = "failed" /\ current = t
  /\ \A t, u \in Threads : fd[t] = fd[u] /\ fd[t] > 0 => t = u
  /\ current = NoThread =>
       /\ n_connections = Cardinality(busy_queue)
       /\ busy_queue = {t \in Threads : fd[t] > 0 /\ pc[t] \notin Establishing}

\* A write on a connection that works is not failed: it is suspended "once
\* sockets are ready to continue" (src/flb_io.c, 242-244).
WriteFailsOnlyBroken ==
  [][\A t \in Threads :
       pc[t] \in {"idle", "write again", "write more"} /\ pc'[t] = "failed" /\ ~has_read[t]
         => fd[t] \in broken]_vars

\* Every flush ends and gives its connection back, unless the context ends.
FlushEnds == \A t \in Threads : <>(~live \/ (pc[t] = "ended" /\ t \notin busy_queue))
-----------------------------------------------------------------------------
(* The inductive invariants behind these properties.                       *)

\* Places of a co-routine whose connection is established.
Using == {"idle", "failed"} \union (DOMAIN Waits \ Establishing)

\* Which descriptors are open, who has them, and who can run.
FdInv ==
  /\ \A t \in Threads :
       /\ pc[t] \in {"new", "ended"} => fd[t] = -1
       /\ pc[t] \in {"shake", "idle", "failed"} => current = t
       /\ pc[t] \in {"shake", "idle"} \union Establishing => fd[t] \in open
       /\ live /\ pc[t] \in DOMAIN Waits => fd[t] \in open
       /\ fd[t] > 0 /\ fd[t] \notin open => pc[t] = "failed"
  /\ current # NoThread => live /\ pc[current] \notin {"new", "ended"}
  /\ \A f \in open : \E t \in Threads : fd[t] = f
  /\ \A t, u \in Threads : fd[t] = fd[u] /\ fd[t] > 0 => t = u

\* What is queued and counted.
QueueInv ==
  /\ live => busy_queue = {t \in Threads : pc[t] \in Using}
  /\ ~live => /\ busy_queue = {}
              /\ \A t \in Threads : fd[t] > 0 => pc[t] \in Establishing
  /\ IsFiniteSet(busy_queue) /\ n_connections = Cardinality(busy_queue)

\* epoll has a descriptor for the connection that owns it, and an event names
\* the descriptor of its connection or, before it is first added, none.
EpollInv ==
  /\ \A f \in DOMAIN interest : fd[interest[f].conn] = f
  /\ \A t \in Threads :
       pc[t] \notin {"failed", "ended"} => event[t].fd \in {0, fd[t]}

OwnInv == TypeOK /\ FdInv /\ QueueInv /\ EpollInv

\* The event of connection t and its entry in the kernel agree: both ask for
\* the same thing, ...
Armed(t) ==
  /\ event[t].registered /\ event[t].fd = fd[t] /\ event[t].mask \in {{"R"}, {"W"}}
  /\ fd[t] \in DOMAIN interest
  /\ interest[fd[t]] = [conn |-> t, mask |-> event[t].mask]

\* ... or there is neither.
Disarmed(t) ==
  ~event[t].registered /\ event[t].mask = {} /\ fd[t] \notin DOMAIN interest

\* They agree wherever a co-routine may make an I/O call or has yielded, unless
\* a TLS connection met one of the rare outcomes.
ArmedAt(t) ==
  /\ pc[t] = "new" => event[t] = NewEvent
  /\ pc[t] \in DOMAIN Waits => Armed(t) /\ event[t].mask = Waits[pc[t]]
  /\ pc[t] = "shake" => Disarmed(t)
  /\ pc[t] = "idle" => Armed(t) \/ Disarmed(t)
  /\ pc[t] = "idle" /\ ~tls /\ ~has_read[t] => Disarmed(t)
  /\ pc[t] = "shake" \/ (pc[t] = "idle" /\ tls) => event[t].fd = fd[t]
  /\ pc[t] = "failed" /\ event[t].registered /\ event[t].fd \in DOMAIN interest =>
       interest[event[t].fd].conn = t

ArmInv == live => \A t \in Threads : ArmedAt(t)
=============================================================================

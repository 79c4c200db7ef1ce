------------------------------- MODULE FlbBuffer -------------------------------
(***************************************************************************)
(* Buffering on the file system (src/flb_buffer.c, flb_buffer_chunk.c,     *)
(* flb_buffer_qchunk.c): the records of a task are also written to a file, *)
(* and what was not delivered when the process ended is delivered by the   *)
(* next one.                                                               *)
(*                                                                         *)
(* Three kinds of threads meet here.  The engine creates tasks and reports *)
(* which of their routes are done.  Buffer workers store, promote and      *)
(* delete files; each one reads five channels, one message of each channel *)
(* that is ready per turn of its loop.  The qchunk worker loads the files  *)
(* a start has found and hands them to the engine.                         *)
(*                                                                         *)
(* A file is named HASH.ROUTES.wID.TAG.  The hash of the contents is the   *)
(* chunk itself here: two chunks never have the same contents.  The tag is *)
(* left out.  A reference is an empty file tasks/OUTPUT/NAME; an output    *)
(* that has one still waits for the chunk.                                 *)
(***************************************************************************)
EXTENDS Integers, FiniteSets, SequencesExt

CONSTANTS
  Chunks,       \* contents of tasks
  Outputs,      \* config->outputs, a sequence
  Routes,       \* the outputs each chunk goes to
  WorkersN,     \* ctx->workers_n
  RefMayFail,   \* may the creation of a reference fail?
  MaxStarts,    \* bound: starts of the process
  MaxRequests   \* bound: requests in the pipe of the qchunk worker

VARIABLES
  \* files: they survive the process
  incoming, outgoing, \* names of the chunk files of either directory
  tasks,              \* output -> names of the references it has
  \* the engine
  life,        \* "up", "stopping", "freed" (buffer context gone), "down"
  starts,      \* number of starts so far
  task,        \* chunk -> "none", "live", "gone"
  ref_id,      \* task->ref_id: id of its qchunk, 0 if the task is not mapped
  pend,        \* routes of a live task without a final result
  worker_id,   \* task->worker_id
  worker_lru,  \* ctx->worker_lru
  ch_manager,  \* FLB_ENGINE_BUFFER events for the engine
  walk,        \* flb_buffer_qchunk_push(): the id it looks for, the node it is at
  \* buffer workers
  ch_add, ch_mov, ch_del, ch_del_ref, ch_mng,   \* their channels
  batch,       \* ready channels of the turn in progress
  moving,      \* references flb_buffer_chunk_real_move() has still to create
  run,
  \* qchunk worker
  queue,       \* qw->queue
  qch, qrun,   \* its channel and whether it runs
  \* history
  promoted,    \* chunks that reached outgoing/ with all their references
  popped,      \* routes flb_buffer_chunk_pop() was called for
  refused      \* chunks that found tasks_map full

files   == <<incoming, outgoing, tasks>>
taskVars == <<task, ref_id, pend, worker_id>>
engine  == <<taskVars, worker_lru, ch_manager, walk>>
channels == <<ch_add, ch_mov, ch_del, ch_del_ref, ch_mng>>
workers == <<channels, batch, moving, run>>
qworker == <<queue, qch, qrun>>
process == <<life, starts>>
history == <<promoted, popped, refused>>
vars == <<files, process, engine, workers, qworker, history>>

Workers == 0..(WorkersN - 1)
OutputSet == Range(Outputs)
NoWalk == [key |-> 0, at |-> {}]

ASSUME BufferAssumption ==
  /\ WorkersN \in Nat \ {0} /\ MaxStarts \in Nat /\ MaxRequests \in Nat
  /\ IsInjective(Outputs)
  /\ Routes \in [Chunks -> (SUBSET OutputSet) \ {{}}]
  /\ RefMayFail \in BOOLEAN

Names == [chunk : Chunks, routes : SUBSET OutputSet, w : Workers]
Entries == [name : Names, routes : SUBSET OutputSet, id : Nat,
            data : {"none", "mapped", "NULL"}]
Channels == {"mng", "add", "del", "del_ref", "mov"}

TypeOK ==
  /\ incoming \subseteq Names /\ outgoing \subseteq Names
  /\ tasks \in [OutputSet -> SUBSET Names]
  /\ life \in {"up", "stopping", "freed", "down"} /\ starts \in 0..MaxStarts
  /\ task \in [Chunks -> {"none", "live", "gone"}]
  /\ ref_id \in [Chunks -> Nat] /\ worker_id \in [Chunks -> Workers]
  /\ pend \in [Chunks -> SUBSET OutputSet]
  /\ worker_lru \in -1..(WorkersN - 1)
  /\ ch_manager \in Seq(Nat)
  /\ walk \in [key : Nat, at : SUBSET Names]
  /\ ch_add \in [Workers -> Seq(Chunks)] /\ ch_del \in [Workers -> Seq(Chunks)]
  /\ ch_mov \in [Workers -> Seq(Names)]
  /\ ch_del_ref \in [Workers -> Seq(Chunks \X OutputSet)]
  /\ ch_mng \in [Workers -> BOOLEAN] /\ run \in [Workers -> BOOLEAN]
  /\ batch \in [Workers -> SUBSET Channels]
  /\ moving \in [Workers -> SUBSET (Names \X OutputSet)]
  /\ queue \in Seq(Entries) /\ qrun \in BOOLEAN
  /\ qch \in Seq({"STOP", "PUSH", "POP"} \X Nat)
  /\ promoted \subseteq Chunks /\ refused \subseteq Chunks
  /\ popped \subseteq Chunks \X OutputSet

Init ==
  /\ incoming = {} /\ outgoing = {} /\ tasks = [o \in OutputSet |-> {}]
  /\ life = "down" /\ starts = 0
  /\ task = [c \in Chunks |-> "none"] /\ ref_id = [c \in Chunks |-> 0]
  /\ pend = [c \in Chunks |-> {}] /\ worker_id = [c \in Chunks |-> 0]
  /\ worker_lru = -1 /\ ch_manager = <<>> /\ walk = NoWalk
  /\ ch_add = [w \in Workers |-> <<>>] /\ ch_mov = [w \in Workers |-> <<>>]
  /\ ch_del = [w \in Workers |-> <<>>] /\ ch_del_ref = [w \in Workers |-> <<>>]
  /\ ch_mng = [w \in Workers |-> FALSE]
  /\ batch = [w \in Workers |-> {}] /\ moving = [w \in Workers |-> {}]
  /\ run = [w \in Workers |-> FALSE]
  /\ queue = <<>> /\ qch = <<>> /\ qrun = FALSE
  /\ promoted = {} /\ popped = {} /\ refused = {}
-----------------------------------------------------------------------------
(* Start, crash and exit.                                                  *)

\* The routes of a chunk file that still have a reference.
Referenced(n) == {o \in OutputSet : n \in tasks[o]}

\* Seeded fault: a chunk is taken up again with the routes of its name.
NamedRoutes(n) == n.routes

\* flb_buffer_chunk_scan(), one file: its pending routes.
PendingRoutes(n) == Referenced(n)

\* flb_buffer_qchunk_add()
flb_buffer_qchunk_add(n) ==
  [name |-> n, routes |-> PendingRoutes(n), id |-> 0, data |-> "none"]

\* flb_buffer_create(), flb_buffer_start(): only outgoing/ is scanned, in the
\* order the directory happens to have.
Start ==
  /\ life = "down" /\ starts < MaxStarts
  /\ life' = "up" /\ starts' = starts + 1
  /\ worker_lru' = -1
  /\ run' = [w \in Workers |-> TRUE] /\ qrun' = TRUE
  /\ \E s \in SetToSeqs({n \in outgoing : PendingRoutes(n) # {}}) :
       queue' = [i \in 1..Len(s) |-> flb_buffer_qchunk_add(s[i])]
  /\ UNCHANGED <<files, taskVars, ch_manager, walk, channels, batch, moving,
                 qch, history>>

\* The process ends: what it had in memory and in its pipes is gone.
Vanish ==
  /\ life' = "down"
  /\ task' = [c \in Chunks |-> IF task[c] = "live" THEN "gone" ELSE task[c]]
  /\ ref_id' = [c \in Chunks |-> 0] /\ pend' = [c \in Chunks |-> {}]
  /\ worker_id' = [c \in Chunks |-> 0] /\ worker_lru' = -1
  /\ ch_manager' = <<>> /\ walk' = NoWalk
  /\ ch_add' = [w \in Workers |-> <<>>] /\ ch_mov' = [w \in Workers |-> <<>>]
  /\ ch_del' = [w \in Workers |-> <<>>]
  /\ ch_del_ref' = [w \in Workers |-> <<>>]
  /\ ch_mng' = [w \in Workers |-> FALSE]
  /\ batch' = [w \in Workers |-> {}] /\ moving' = [w \in Workers |-> {}]
  /\ run' = [w \in Workers |-> FALSE]
  /\ queue' = <<>> /\ qch' = <<>> /\ qrun' = FALSE
  /\ UNCHANGED <<files, starts, history>>

\* A crash at any moment; the last process of a behaviour is spared, nothing
\* would look at what it leaves behind.
Crash == life # "down" /\ starts < MaxStarts /\ Vanish

\* flb_engine_shutdown() after the grace period.
Exit == life = "freed" /\ Vanish
-----------------------------------------------------------------------------
(* The engine.                                                             *)

\* The engine's thread is at its event loop.
EngineIdle == walk.at = {}

\* Seeded fault: workers are counted from 1.
FromOne == IF worker_lru = -1 \/ worker_lru = WorkersN THEN 1 ELSE worker_lru + 1

\* get_worker() and the choice of a worker in flb_buffer_chunk_push().
NextWorker == IF worker_lru = -1 \/ worker_lru + 1 = WorkersN
              THEN 0 ELSE worker_lru + 1

\* flb_task_create() with flb_buffer_chunk_push().
Create(c) ==
  /\ life = "up" /\ EngineIdle /\ task[c] = "none"
  /\ task' = [task EXCEPT ![c] = "live"]
  /\ pend' = [pend EXCEPT ![c] = Routes[c]]
  /\ worker_lru' = NextWorker
  /\ worker_id' = [worker_id EXCEPT ![c] = NextWorker]
  /\ ch_add' = [ch_add EXCEPT ![NextWorker] = Append(@, c)]
  /\ UNCHANGED <<files, process, ref_id, ch_manager, walk, ch_mov, ch_del,
                 ch_del_ref, ch_mng, batch, moving, run, qworker, history>>

\* Seeded fault: the request goes to whatever worker is next.
PopAnyWorker(c, o) ==
  /\ popped' = popped \union {<<c, o>>}
  /\ ch_del_ref' = [ch_del_ref EXCEPT ![NextWorker] = Append(@, <<c, o>>)]

\* flb_buffer_chunk_pop(): to the worker that was given the chunk.
flb_buffer_chunk_pop(c, o) ==
  /\ popped' = popped \union {<<c, o>>}
  /\ ch_del_ref' = [ch_del_ref EXCEPT ![worker_id[c]] = Append(@, <<c, o>>)]

\* flb_task_destroy(): the qchunk of a mapped task is given back.
flb_task_destroy(c) ==
  /\ task' = [task EXCEPT ![c] = "gone"]
  /\ pend' = [pend EXCEPT ![c] = {}]
  /\ ref_id' = [ref_id EXCEPT ![c] = 0]
  /\ qch' = IF ref_id[c] > 0 THEN Append(qch, <<"POP", ref_id[c]>>) ELSE qch

\* flb_engine_manager(): the final result of a route.  OK and a refused retry
\* pop the chunk, ERROR does not.  The task goes when no thread runs, be other
\* routes waiting for a retry or not (see FlbEngine).  After
\* flb_buffer_stop() the context is freed memory: the request goes nowhere.
Result(c, o, ret) ==
  /\ life \in {"up", "freed"} /\ EngineIdle
  /\ task[c] = "live" /\ o \in pend[c]
  /\ IF ret = "POP" /\ life = "up"
     THEN flb_buffer_chunk_pop(c, o) ELSE UNCHANGED <<popped, ch_del_ref>>
  /\ \E last \in IF pend[c] = {o} THEN {TRUE} ELSE BOOLEAN :
       IF last THEN flb_task_destroy(c)
       ELSE /\ pend' = [pend EXCEPT ![c] = @ \ {o}]
            /\ UNCHANGED <<task, ref_id, qch>>
  /\ UNCHANGED <<files, process, worker_id, worker_lru, ch_manager, walk, ch_add,
                 ch_mov, ch_del, ch_mng, batch, moving, run, queue, qrun,
                 promoted, refused>>

\* Every flush asks the qchunk worker for one more chunk.  (Requests made when
\* there is nothing left to load change nothing and are left out.)
Flush ==
  /\ life = "up" /\ EngineIdle /\ Len(qch) < MaxRequests
  /\ \E i \in DOMAIN queue : queue[i].id = 0
  /\ qch' = Append(qch, <<"PUSH", 0>>)
  /\ UNCHANGED <<files, process, engine, workers, queue, qrun, history>>

\* FLB_BUFFER_EV_SET(), FLB_BUFFER_EV_KEY(): the key sits above 14 bits of
\* value, and the cast to 16 bits comes before the shift.
FLB_BUFFER_EV_KEY(id) == ((id * 2^14) % 2^16) \div 2^14

\* flb_buffer_engine_event(): the engine begins to walk qw->queue.
flb_buffer_engine_event ==
  /\ life = "up" /\ EngineIdle /\ ch_manager # <<>>
  /\ ch_manager' = Tail(ch_manager)
  /\ walk' = IF queue = <<>> THEN NoWalk
             ELSE [key |-> FLB_BUFFER_EV_KEY(Head(ch_manager)),
                   at  |-> {queue[1].name}]
  /\ UNCHANGED <<files, process, taskVars, worker_lru, workers, qworker,
                 history>>

\* The entry the walk stands at, if the qchunk worker has not freed it.
AtEntry == {i \in DOMAIN queue : queue[i].name \in walk.at}

\* flb_task_create_direct(): a mapped task, whose worker_id stays 0.
flb_task_create_direct(e) ==
  /\ task' = [task EXCEPT ![e.name.chunk] = "live"]
  /\ ref_id' = [ref_id EXCEPT ![e.name.chunk] = e.id]
  /\ pend' = [pend EXCEPT ![e.name.chunk] = e.routes]
  /\ worker_id' = [worker_id EXCEPT ![e.name.chunk] = 0]

\* flb_buffer_qchunk_push(): one node of the walk.  The list belongs to the
\* qchunk worker and is not locked: the next node is the one that follows now.
\* flb_engine_dispatch_direct() fails when tasks_map is full.
flb_buffer_qchunk_push ==
  /\ life = "up"
  /\ \E i \in AtEntry :
       \/ /\ queue[i].id # walk.key
          /\ walk' = IF i = Len(queue) THEN NoWalk
                     ELSE [walk EXCEPT !.at = {queue[i + 1].name}]
          /\ UNCHANGED <<taskVars, refused>>
       \/ /\ queue[i].id = walk.key /\ walk' = NoWalk
          /\ \/ flb_task_create_direct(queue[i]) /\ UNCHANGED refused
             \/ /\ refused' = refused \union {queue[i].name.chunk}
                /\ UNCHANGED taskVars
  /\ UNCHANGED <<files, process, worker_lru, ch_manager, workers, qworker,
                 promoted, popped>>

\* flb_buffer_qchunk_push(): the node was freed under the engine.  mk_list_del()
\* has set its next pointer to NULL, which the walk follows: the process dies.
\* (That the memory may have been used again is left out.)
FreedUnderWalk == life = "up" /\ ~EngineIdle /\ AtEntry = {} /\ Vanish

\* FLB_ENGINE_STOP: flb_buffer_stop() destroys the mapped tasks, tells the
\* workers to end and waits for them.
flb_buffer_stop ==
  /\ life = "up" /\ EngineIdle
  /\ life' = "stopping"
  /\ LET mapped == {c \in Chunks : task[c] = "live" /\ ref_id[c] > 0} IN
     /\ task' = [c \in Chunks |-> IF c \in mapped THEN "gone" ELSE task[c]]
     /\ pend' = [c \in Chunks |-> IF c \in mapped THEN {} ELSE pend[c]]
     /\ ref_id' = [c \in Chunks |-> 0]
     /\ \E s \in SetToSeqs(mapped) :
          qch' = qch \o [i \in 1..Len(s) |-> <<"POP", ref_id[s[i]]>>]
                     \o << <<"STOP", 0>> >>
  /\ ch_mng' = [w \in Workers |-> TRUE]
  /\ UNCHANGED <<files, starts, worker_id, worker_lru, ch_manager, walk, ch_add,
                 ch_mov, ch_del, ch_del_ref, batch, moving, run, queue, qrun,
                 history>>

Ended(w) == ~run[w] /\ batch[w] = {} /\ moving[w] = {}

\* flb_buffer_qchunk_stop(), flb_buffer_destroy(): the threads are joined and
\* everything is freed; config->buffer_ctx keeps pointing at it.
flb_buffer_destroy ==
  /\ life = "stopping" /\ ~qrun /\ \A w \in Workers : Ended(w)
  /\ life' = "freed"
  /\ queue' = <<>> /\ qch' = <<>>
  /\ ch_add' = [w \in Workers |-> <<>>] /\ ch_mov' = [w \in Workers |-> <<>>]
  /\ ch_del' = [w \in Workers |-> <<>>]
  /\ ch_del_ref' = [w \in Workers |-> <<>>]
  /\ ch_mng' = [w \in Workers |-> FALSE]
  /\ UNCHANGED <<files, starts, engine, batch, moving, run, qrun, history>>
-----------------------------------------------------------------------------
(* Buffer workers.                                                         *)

Ready(w) ==
  {k \in Channels :
     \/ k = "mng" /\ ch_mng[w]
     \/ k = "add" /\ ch_add[w] # <<>>
     \/ k = "del" /\ ch_del[w] # <<>>
     \/ k = "del_ref" /\ ch_del_ref[w] # <<>>
     \/ k = "mov" /\ ch_mov[w] # <<>>}

\* mk_event_wait() in flb_buffer_worker_init()
Wait(w) ==
  /\ run[w] /\ batch[w] = {} /\ moving[w] = {} /\ Ready(w) # {}
  /\ batch' = [batch EXCEPT ![w] = Ready(w)]
  /\ UNCHANGED <<files, process, engine, channels, moving, run, qworker,
                 history>>

\* The worker takes the event of channel k from the batch.
Takes(w, k) == /\ k \in batch[w] /\ moving[w] = {}
               /\ batch' = [batch EXCEPT ![w] = @ \ {k}]

\* FLB_BUFFER_EV_MNG: the rest of the batch is still handled.
Manage(w) ==
  /\ Takes(w, "mng")
  /\ ch_mng' = [ch_mng EXCEPT ![w] = FALSE]
  /\ run' = [run EXCEPT ![w] = FALSE]
  /\ UNCHANGED <<files, process, engine, ch_add, ch_mov, ch_del, ch_del_ref,
                 moving, qworker, history>>

\* FLB_BUFFER_EV_ADD: flb_buffer_chunk_add() and, if the file could be
\* written, the request of flb_buffer_chunk_mov().  A write that fails leaves a
\* part of the file behind, and so does a crash in the middle of it.
flb_buffer_chunk_add(w) ==
  /\ Takes(w, "add")
  /\ LET c == Head(ch_add[w])
         n == [chunk |-> c, routes |-> Routes[c], w |-> w] IN
     \E stored \in {"nothing", "part", "all"} :
       /\ incoming' = IF stored = "nothing" THEN incoming ELSE incoming \union {n}
       /\ ch_mov' = IF stored = "all" THEN [ch_mov EXCEPT ![w] = Append(@, n)]
                    ELSE ch_mov
  /\ ch_add' = [ch_add EXCEPT ![w] = Tail(@)]
  /\ UNCHANGED <<outgoing, tasks, process, engine, ch_del, ch_del_ref, ch_mng,
                 moving, run, qworker, history>>

\* The references a name asks for.
RefsOf(n) == {n} \X n.routes

\* Seeded fault: a failed rename() does not end the function.
MoveRegardless(w) ==
  LET n == Head(ch_mov[w]) IN
  /\ incoming' = incoming \ {n}
  /\ outgoing' = IF n \in incoming THEN outgoing \union {n} ELSE outgoing
  /\ moving' = [moving EXCEPT ![w] = RefsOf(n)]

\* flb_buffer_chunk_real_move(), the rename: under the name the chunk was
\* stored with; chunk_miss() may have changed it since.
Rename(w) ==
  LET n == Head(ch_mov[w]) IN
  IF n \in incoming
  THEN /\ incoming' = incoming \ {n} /\ outgoing' = outgoing \union {n}
       /\ moving' = [moving EXCEPT ![w] = RefsOf(n)]
  ELSE UNCHANGED <<incoming, outgoing, moving>>

\* FLB_BUFFER_EV_MOV
flb_buffer_chunk_real_move(w) ==
  /\ Takes(w, "mov")
  /\ Rename(w)
  /\ ch_mov' = [ch_mov EXCEPT ![w] = Tail(@)]
  /\ UNCHANGED <<tasks, process, engine, ch_add, ch_del, ch_del_ref, ch_mng, run,
                 qworker, history>>

\* config->outputs is walked in its order.
Before(o, p) == \E i, j \in DOMAIN Outputs :
                  i < j /\ Outputs[i] = o /\ Outputs[j] = p

\* flb_buffer_chunk_real_move(), one reference; open() may fail.
Reference(w) ==
  /\ \E r \in moving[w] :
       /\ \A q \in moving[w] : ~Before(q[2], r[2])
       /\ \E made \in IF RefMayFail THEN BOOLEAN ELSE {TRUE} :
            tasks' = IF made THEN [tasks EXCEPT ![r[2]] = @ \union {r[1]}]
                             ELSE tasks
       /\ promoted' = IF moving[w] = {r} THEN promoted \union {r[1].chunk}
                                         ELSE promoted
       /\ moving' = [moving EXCEPT ![w] = @ \ {r}]
  /\ UNCHANGED <<incoming, outgoing, process, engine, channels, batch, run, qworker,
                 popped, refused>>

\* chunk_find(): the files of a directory that begin with the hash.
Find(dir, c) == {n \in dir : n.chunk = c}

\* chunk_remove_route(): the directory without route o of file n.
RemoveRoute(dir, n, o) ==
  IF n.routes \ {o} = {} THEN dir \ {n}
  ELSE (dir \ {n}) \union {[n EXCEPT !.routes = @ \ {o}]}

\* chunk_miss(): there is no reference; the file is in outgoing/, in
\* incoming/, or not there at all.
chunk_miss(c, o) ==
  IF Find(outgoing, c) # {}
  THEN /\ \E n \in Find(outgoing, c) : outgoing' = RemoveRoute(outgoing, n, o)
       /\ UNCHANGED incoming
  ELSE /\ incoming' \in IF Find(incoming, c) = {} THEN {incoming}
                        ELSE {RemoveRoute(incoming, n, o) : n \in Find(incoming, c)}
       /\ UNCHANGED outgoing

\* FLB_BUFFER_EV_DEL_REF: flb_buffer_chunk_delete_ref()
flb_buffer_chunk_delete_ref(w) ==
  /\ Takes(w, "del_ref")
  /\ LET c == Head(ch_del_ref[w])[1]
         o == Head(ch_del_ref[w])[2] IN
     IF Find(tasks[o], c) = {}
     THEN chunk_miss(c, o) /\ UNCHANGED <<tasks, ch_del>>
     ELSE /\ \E n \in Find(tasks[o], c) : tasks' = [tasks EXCEPT ![o] = @ \ {n}]
          /\ ch_del' = [ch_del EXCEPT ![w] = Append(@, c)]
          /\ UNCHANGED <<incoming, outgoing>>
  /\ ch_del_ref' = [ch_del_ref EXCEPT ![w] = Tail(@)]
  /\ UNCHANGED <<process, engine, ch_add, ch_mov, ch_mng, moving, run, qworker,
                 history>>

\* flb_buffer_chunk_delete(): outgoing/ once no task has a reference to n.
UnlinkUnreferenced(n) == IF Referenced(n) = {} THEN outgoing \ {n} ELSE outgoing

\* FLB_BUFFER_EV_DEL: flb_buffer_chunk_delete()
flb_buffer_chunk_delete(w) ==
  /\ Takes(w, "del")
  /\ LET c == Head(ch_del[w]) IN
     outgoing' \in IF Find(outgoing, c) = {} THEN {outgoing}
                   ELSE {UnlinkUnreferenced(n) : n \in Find(outgoing, c)}
  /\ ch_del' = [ch_del EXCEPT ![w] = Tail(@)]
  /\ UNCHANGED <<incoming, tasks, process, engine, ch_add, ch_mov, ch_del_ref,
                 ch_mng, moving, run, qworker, history>>

Worker(w) ==
  \/ Wait(w) \/ Manage(w) \/ flb_buffer_chunk_add(w)
  \/ flb_buffer_chunk_real_move(w) \/ Reference(w)
  \/ flb_buffer_chunk_delete_ref(w) \/ flb_buffer_chunk_delete(w)
-----------------------------------------------------------------------------
(* The qchunk worker.                                                      *)

\* The list is searched from its head: the first entry with the id.
FirstWith(id) == {i \in DOMAIN queue : /\ queue[i].id = id
                                       /\ \A j \in 1..(i - 1) : queue[j].id # id}

InUse(id) == \E i \in DOMAIN queue : queue[i].id = id

\* Seeded fault: ids are not compared with those in use.
FirstId(id) == id = 1

\* qchunk_get_id(): the lowest id no entry has.
qchunk_get_id(id) == ~InUse(id) /\ \A lower \in 1..(id - 1) : InUse(lower)

\* qchunk_event_push_request(): the first entry without an id.
Loadable == FirstWith(0)

\* FLB_BUFFER_QC_PUSH_REQUEST: the entry is loaded and the engine is told.  A
\* file that cannot be opened or mapped is reported and handed on all the same,
\* with NULL for its data.
PushRequest ==
  /\ qrun /\ qch # <<>> /\ Head(qch)[1] = "PUSH"
  /\ qch' = Tail(qch)
  /\ IF Loadable = {} THEN UNCHANGED <<queue, ch_manager>>
     ELSE \E i \in Loadable, id \in 1..Len(queue), data \in {"mapped", "NULL"} :
       /\ qchunk_get_id(id)
       /\ queue' = [queue EXCEPT ![i].id = id, ![i].data = data]
       /\ ch_manager' = Append(ch_manager, id)
  /\ UNCHANGED <<files, process, taskVars, worker_lru, walk, workers, qrun,
                 history>>

\* FLB_BUFFER_QC_POP_REQUEST: flb_buffer_qchunk_delete() unmaps and frees the
\* first entry with the id, be the engine standing at it or not.
PopRequest ==
  /\ qrun /\ qch # <<>> /\ Head(qch)[1] = "POP"
  /\ qch' = Tail(qch)
  /\ LET hit == FirstWith(Head(qch)[2]) IN
     IF hit = {} THEN UNCHANGED queue
     ELSE \E i \in hit : queue' = RemoveAt(queue, i)
  /\ UNCHANGED <<files, process, taskVars, worker_lru, ch_manager, walk, workers,
                 qrun, history>>

\* FLB_BUFFER_QC_STOP
QStop ==
  /\ qrun /\ qch # <<>> /\ Head(qch)[1] = "STOP"
  /\ qch' = Tail(qch) /\ qrun' = FALSE
  /\ UNCHANGED <<files, process, engine, workers, queue, history>>

Qworker == PushRequest \/ PopRequest \/ QStop
-----------------------------------------------------------------------------
Engine ==
  \/ \E c \in Chunks : Create(c)
  \/ \E c \in Chunks, o \in OutputSet, ret \in {"POP", "ERROR"} :
       Result(c, o, ret)
  \/ Flush \/ flb_buffer_engine_event \/ flb_buffer_qchunk_push \/ FreedUnderWalk
  \/ flb_buffer_stop \/ flb_buffer_destroy \/ Exit

Next == Start \/ Crash \/ Engine \/ Qworker \/ \E w \in Workers : Worker(w)

Spec == Init /\ [][Next]_vars
-----------------------------------------------------------------------------
(* Properties.                                                             *)

\* Once a chunk is in outgoing/ with its references, each of its routes whose
\* result did not pop it can be taken up by the next start: file and reference
\* stay, whatever the other routes do and whenever the process ends.
BackedUp ==
  \A c \in promoted : \A o \in Routes[c] :
    <<c, o>> \notin popped =>
      \E n \in outgoing : n.chunk = c /\ n \in tasks[o]

\* A reference never outlives the chunk file it names, in any order of
\* requests: flb_buffer_chunk_scan() looks for references by the file's name.
ReferenceHasChunk == \A o \in OutputSet : tasks[o] \subseteq outgoing

\* The entry of a mapped task stays on the queue, under the one id the task will
\* give back, until the task is destroyed: the buffer its routes read is neither
\* unmapped nor freed while one of them may run, whatever other tasks give back.
\* (A buffer that could not be mapped is NULL from the start.)
HeldWhileInUse ==
  \A c \in Chunks :
    task[c] = "live" /\ ref_id[c] > 0 =>
      \E i \in DOMAIN queue :
        /\ queue[i].name.chunk = c /\ queue[i].data # "none"
        /\ \A j \in DOMAIN queue : queue[j].id = ref_id[c] <=> j = i

\* After a restart, an output is given a chunk again only if it still has its
\* reference: what was delivered and recorded before the crash is not repeated
\* ("we need to process ONLY the remaining ones", flb_buffer_chunk.c, 802).
RemainingOnly ==
  \A c \in Chunks :
    task[c] = "live" /\ ref_id[c] > 0 =>
      \A o \in pend[c] : \E n \in tasks[o] : n.chunk = c

\* An entry that was loaded is on its way to the engine, is a task, or is being
\* given back: no chunk is left loaded with nobody to deliver it, unless
\* tasks_map was full when it came up.  The event that announces it has room for
\* the id: "key identification for the event (14 bits)"
\* (include/fluent-bit/flb_buffer.h, 45).
NoLostLoad ==
  life = "up" =>
    \A e \in Range(queue) :
      e.id > 0 =>
        \/ e.name.chunk \in refused
        \/ task[e.name.chunk] = "live" /\ ref_id[e.name.chunk] = e.id
        \/ e.id \in Range(ch_manager)
        \/ ~EngineIdle /\ walk.key = e.id
        \/ <<"POP", e.id>> \in Range(qch)

\* Nothing of the chunk is on its way through a worker.
Quiet(c) ==
  \A w \in Workers :
    /\ c \notin Range(ch_add[w]) /\ c \notin Range(ch_del[w])
    /\ \A n \in Range(ch_mov[w]) : n.chunk # c
    /\ \A r \in Range(ch_del_ref[w]) : r[1] # c
    /\ \A r \in moving[w] : r[1].chunk # c

\* Once every route of a chunk was popped and the worker has handled all
\* requests about it, nothing of it is left for the next start, also when an
\* output finished before the chunk was promoted (src/flb_buffer.c, 164-179).
CleanedUp ==
  \A c \in Chunks :
    life = "up" /\ starts = 1 /\ Quiet(c)
      /\ (\A o \in Routes[c] : <<c, o>> \in popped) =>
        Find(outgoing \union UNION Range(tasks), c) = {}
-----------------------------------------------------------------------------
(* The inductive invariant behind BackedUp, ReferenceHasChunk,             *)
(* HeldWhileInUse and RemainingOnly.                                       *)

\* What a worker finds when it takes an event, and what is finite.
ReadyInv ==
  /\ \A w \in Workers :
       /\ "add" \in batch[w] => ch_add[w] # <<>>
       /\ "mov" \in batch[w] => ch_mov[w] # <<>>
       /\ "del" \in batch[w] => ch_del[w] # <<>>
       /\ "del_ref" \in batch[w] => ch_del_ref[w] # <<>>
  /\ IsFiniteSet(outgoing)
  /\ IsFiniteSet({c \in Chunks : task[c] = "live"})

\* A chunk has one file, and references name the file they belong to.
FileInv ==
  /\ incoming \intersect outgoing = {}
  /\ \A m, n \in incoming \union outgoing : m.chunk = n.chunk => m = n
  /\ \A o \in OutputSet : \A n \in tasks[o] :
       n \in outgoing /\ o \in Routes[n.chunk]

\* The requests about a chunk are all with one worker, each of them once; what
\* is to be promoted is not yet in outgoing/.
AddInv(w) ==
  /\ IsInjective(ch_add[w])
  /\ \A c \in Range(ch_add[w]) :
       /\ worker_id[c] = w
       /\ \A n \in incoming \union outgoing \union Range(ch_mov[w]) : n.chunk # c

MovInv(w) ==
  /\ IsInjective(ch_mov[w])
  /\ \A n \in Range(ch_mov[w]) :
       /\ worker_id[n.chunk] = w /\ n.routes = Routes[n.chunk] /\ n.w = w
       /\ \A m \in outgoing : m.chunk # n.chunk

DelInv(w) ==
  /\ IsInjective(ch_del_ref[w])
  /\ \A c \in Range(ch_del[w]) : worker_id[c] = w
  /\ \A r \in Range(ch_del_ref[w]) :
       /\ worker_id[r[1]] = w /\ r \in popped
       /\ r[2] \in Routes[r[1]] /\ r[2] \notin pend[r[1]]

RequestInv == \A w \in Workers : AddInv(w) /\ MovInv(w) /\ DelInv(w)

\* While references are being created, none of the chunk's has been removed.
MoveInv ==
  \A w \in Workers : \A r \in moving[w] :
    /\ worker_id[r[1].chunk] = w /\ r[1] \in outgoing
    /\ r[2] \in Routes[r[1].chunk]
    /\ \A o \in Routes[r[1].chunk] : <<r[1], o>> \in moving[w] \/ r[1] \in tasks[o]

\* A route that may still be popped, or whose request is on its way, has its
\* reference as soon as the chunk is in outgoing/, or is about to get it.
RouteInv ==
  /\ \A c \in Chunks : pend[c] \subseteq Routes[c]
  /\ \A c \in Chunks : task[c] # "live" => pend[c] = {}
  /\ \A n \in outgoing : \A o \in OutputSet :
       \/ o \in pend[n.chunk]
       \/ <<n.chunk, o>> \in Range(ch_del_ref[worker_id[n.chunk]])
       => n \in tasks[o] \/ <<n, o>> \in moving[worker_id[n.chunk]]

\* A chunk without a task has left no trace; a process that is not there has
\* nothing on its way.
FreshInv ==
  /\ \A c \in Chunks : task[c] = "none" =>
       /\ Quiet(c)
       /\ \A n \in incoming \union outgoing : n.chunk # c
       /\ \A e \in Range(queue) : e.name.chunk # c
  /\ life = "down" =>
       /\ \A c \in Chunks : task[c] # "live" /\ ref_id[c] = 0 /\ Quiet(c)
       /\ ch_manager = <<>> /\ EngineIdle /\ qch = <<>>

\* The chunk of the entry has not been handed to the engine yet.
Waiting(e) == \/ e.id = 0 \/ e.id \in Range(ch_manager)
              \/ ~EngineIdle /\ walk.key = e.id

PopOnce(s) == \A i, j \in DOMAIN s : s[i] = s[j] /\ s[i][1] = "POP" => i = j

\* A waiting entry has all it was found with; loaded ones have their data.
EntryInv ==
  /\ \A i, j \in DOMAIN queue :
       /\ queue[i].name.chunk = queue[j].name.chunk => i = j
       /\ queue[i].id = queue[j].id /\ queue[i].id > 0 => i = j
  /\ \A e \in Range(queue) :
       /\ e.id > 0 => e.data # "none"
       /\ Waiting(e) => /\ task[e.name.chunk] = "gone" /\ Quiet(e.name.chunk)
                        /\ e.name \in outgoing
                        /\ \A o \in e.routes : e.name \in tasks[o]

\* An id stands for one loaded entry and is with one party only: an event for
\* the engine, its walk, a task, or a request to give it back.
IdInv ==
  /\ life \in {"up", "stopping"} =>
       /\ IsInjective(ch_manager)
       /\ \A id \in Range(ch_manager) : id > 0 /\ InUse(id)
       /\ \A q \in Range(qch) : q[1] = "POP" =>
            /\ q[2] > 0 /\ InUse(q[2]) /\ q[2] \notin Range(ch_manager)
            /\ ~EngineIdle => walk.key # q[2]
       /\ PopOnce(qch)
  /\ ~EngineIdle =>
       /\ life = "up" /\ walk.key > 0 /\ walk.key \notin Range(ch_manager)
       /\ InUse(walk.key)
  /\ \A c \in Chunks : ref_id[c] > 0 =>
       /\ life = "up" /\ task[c] = "live"
       /\ \E e \in Range(queue) : e.id = ref_id[c] /\ e.name.chunk = c
       /\ ref_id[c] \notin Range(ch_manager)
       /\ <<"POP", ref_id[c]>> \notin Range(qch)
       /\ ~EngineIdle => walk.key # ref_id[c]

\* The ids in use fit into the two bits FLB_BUFFER_EV_KEY() keeps of them.
IdsFit == \A e \in Range(queue) : e.id < 4

=============================================================================

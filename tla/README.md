# Fluent Bit engine: TLA+ models, checks and proofs

This directory holds TLA+ models of the core of Fluent Bit: the engine that
takes records from input instances, routes and delivers them to output instances
through co-routines on network connections, retries what failed, and keeps a
copy on disk for the next start. Paths below are relative to the root of
the repository.

## 1. The system: inventory

| Component | State | Operations | Hard behaviour | What makes it correct |
|---|---|---|---|---|
| Engine loop (`src/flb_engine.c`) | event loop, manager pipe `ch_manager`, flush timer, shutdown timer, `is_running` | `flb_engine_start`, `_handle_event`, `_manager`, `_flush`, `_exit`, `_shutdown` | a batch of ready events whose handlers free what the rest of the batch points at; `exit` from another thread | every result is charged to the right task, every task ends, exit stops |
| Dispatch (`src/flb_engine_dispatch.c`) | none of its own | `flb_engine_dispatch`, `tasks_start`, `_dispatch_retry`, `_dispatch_direct` | a full task table, tags without routes | one thread per route; no records forgotten |
| Tasks (`src/flb_task.c`) | `tasks_map`, `users`, `n_threads`, lists of routes, retries, threads | `flb_task_create`, `_create_direct`, `_destroy`, `_retry_create`, `_retry_clean`, `_add_thread` | reference counting, reuse of ids, retry limit | freed exactly when unused; ids resolve |
| Scheduler (`src/flb_scheduler.c`) | `requests`, `requests_wait`, frame timer | `flb_sched_request_create`, `_invalidate`, `_event_handler`, promotion | requests that outlive what they point at, timer failures, arithmetic of the back-off | fires in time, never dangling |
| Output interface (`src/flb_output.c`, `flb_output.h`) | threads per task | `flb_output_return`, `flb_output_thread_destroy_id` | co-routines end in any order | one result per thread |
| Input instances (`src/flb_input.c`, `flb_input.h`) | `mp_sbuf`, dyntag nodes, `mp_total_buf_size`, `mp_buf_status`, collectors | appends, `flb_input_flush`, `_dyntag_flush`, `_buf_size_set`, `_buf_check`, pause/resume | memory limit, nodes owned by tasks, exit racing a resume | the limit holds, a paused input is resumed |
| Buffering (`src/flb_buffer*.c`) | buffer workers with five channels each, the qchunk worker and its queue, chunk files in `incoming/` and `outgoing/`, references in `tasks/` | push, pop, add, move, delete reference, delete, scan, load, give back, stop | three kinds of threads, channels without a common order, crash and restart, a list walked without a lock | what was promoted and not popped is found by the next start, with its remaining routes only |
| Router (`src/flb_router.c`) and instances in library mode (`src/flb_lib.c`) | instances, their tags, matches and masks; routes of an input | `flb_router_match`, `_io_set`, creation, setting of properties, initialisation | wild cards, static and dynamic routes, masks in an `int`, instances looked up by number | records reach exactly the outputs and filters whose match covers their tag |
| Upstream and I/O (`src/flb_upstream.c`, `flb_io*.c`) | `busy_queue`, descriptors, one event per connection, the interest list of epoll | get, connect, handshake, read, write, release, destroy | suspension on readiness, errors half-way, structures of the library and of the kernel that may disagree | the loop watches what co-routines wait for; no descriptor leaks |
| Parsers, packing, utilities, metrics, plugins | tables and conversions | - | sequential | - |

How they interact: an input plugin's collector, called by the event loop,
appends records to buffers. The flush timer makes `flb_engine_flush()` visit
every input; its buffers become tasks. `tasks_start()` runs one output
co-routine per route. A co-routine ends with `FLB_OUTPUT_RETURN`, which writes
(result, task id, thread id) as one word to `ch_manager`; the loop reads one
word per batch. OK and ERROR release the thread; RETRY creates or re-uses a
retry context and asks the scheduler for a request. The request's timer, in the
same loop, starts a new co-routine. A task whose last user has gone is
destroyed, and that is where a paused input is resumed. With buffering, the
creation of a task also queues its records for a buffer worker, a final result
queues the deletion of the route's reference, and every flush asks the qchunk
worker for one more chunk of an earlier process, which comes back through
`ch_manager` as a direct task. A co-routine that waits for its connection is
resumed by the loop when epoll reports the socket. `flb_engine_exit()` is
called from a signal handler or from another thread in library mode.

The behaviours that are hard to test are listed, line by line, under "hazards"
in `PROJECT.json` with the properties that cover them.

## 2. Modules

| Module | Models | State and actions |
|---|---|---|
| `FlbSched` | `flb_scheduler.c`, clock abstracted | the two lists; create, promote, invalidate; back-off in 32-bit arithmetic |
| `FlbTask` (extends `FlbSched`) | `flb_task.c` | `tasks_map`, reference counts, threads, attempts; operators for create, destroy, release, retry |
| `FlbEngine` (extends `FlbTask`) | `flb_engine.c`, `flb_engine_dispatch.c`, the return path of `flb_output.h` | composes the three: one action per handler, properties, inductive invariant, refinement mapping |
| `FlbDelivery` | abstract | per route: idle, trying, backoff, final or abandoned; `Granted` is the number of retries the implementation grants |
| `FlbEngine_proofs` | - | theorems about `FlbEngine`: types, inductive invariant, reference counts, ids, holders, freeing |
| `FlbEngine_delivery_proofs` (extends `FlbEngine_proofs`) | - | `FlbEngine` implements `FlbDelivery`; what holds for inputs with one route |
| `FlbSchedClock` (extends `FlbSched`) | `flb_scheduler.c` with its clock | creation time, timeout, expiry, frame; lag of the loop |
| `FlbInput` | `flb_input.c`, `flb_input.h`, `flb_engine_dispatch.c` seen from one input; pause and resume of in_tail and in_systemd | buffers as sizes, nodes, limit, collector, flush, exit |
| `FlbBuffer` | `flb_buffer.c`, `flb_buffer_chunk.c`, `flb_buffer_qchunk.c` and what the engine and `flb_task.c` do with them | files (they survive a crash), the engine's side, workers with their channels and batches, the qchunk worker; a process may start, crash, stop and start again |
| `FlbUpstream` | `flb_upstream.c`, `flb_io.c`, `flb_io_tls.c`, `mk_event` with epoll | co-routines, their connections and events; descriptors and interest list of the kernel; one action per piece of code between two suspensions |
| `FlbRouter` | `flb_router.c`, the creation and set-up of instances (`flb_lib.c`, `flb_input.c`, `flb_output.c`, `flb_filter.c`), the readers of routes (`flb_task.c`, `flb_filter.c`) | lists of instances; create, set, initialise, connect; the match as a recursive function on the positions of the pattern |
| `FlbSchedClock_proofs`, `FlbInput_proofs`, `FlbBuffer_proofs`, `FlbUpstream_proofs`, `FlbRouter_proofs` | - | theorems about the module each extends |
| `MCFlbEngine`, `MCFlbSchedClock`, `MCFlbInput`, `MCFlbBuffer`, `MCFlbUpstream`, `MCFlbRouter` | - | instances for TLC |

Choices a reader should know:

* A member of `Tasks` is one allocation; a freed one is never used again, so a
  dangling pointer remains visible. A request is named by its retry context, a
  pair of task and output.
* An action is a whole handler, with two exceptions made on purpose. A flush
  visits the inputs (or nodes) one by one, since output co-routines and
  `flb_engine_exit()` run in between; and the resume in
  `flb_input_buf_size_set()` is split in test, status and callback because
  `flb_engine_exit()` runs in another thread.
* The batch of `mk_event_wait()` is state (`manager`, `timers`): that is what
  exposes a timer freed by an earlier handler of the same batch. Using freed
  memory leads to the engine state `"undefined"`.
* `FLB_TASK_SET` packs ids into 14 bits without masking. All ids stay below
  `ThreadIds` (16384) by a guard of `HandleTimer`, so packing and unpacking are
  inverse; what a larger id does is not modelled.
* In `FlbEngine` a co-routine is `active` from its start to its return. Its
  suspensions inside network I/O change nothing the engine looks at; they are
  the subject of `FlbUpstream`.
* `FlbBuffer` splits the handlers that another thread can interrupt: the walk of
  the engine over `qw->queue` node by node (the qchunk worker frees nodes), the
  promotion of a chunk into the rename and one step per reference (a crash may
  fall between them). The walk follows the list as it is when each step is
  taken. A node freed under it has a NULL `next`, so the process dies
  (`FreedUnderWalk`); that the memory may have been used again by then is not
  modelled. The hash of the contents is the identity of the chunk: two tasks
  never have the same contents.
* What fails half-way in `FlbBuffer`: `flb_buffer_chunk_add()` may leave nothing,
  a part of the file or all of it in `incoming/`, and only the last is promoted;
  a file `qchunk_get_data()` cannot open or map is handed to the engine with NULL
  for its data, as `qchunk_event_push_request()` does after its error message.
* `FlbBuffer.FLB_BUFFER_EV_KEY` keeps the 16-bit cast of the macro: the key of an
  event is the id of the chunk modulo 4. The passing run loads fewer than four
  chunks; `IdsFit` says so and is what the proofs ask for (section 5). Run
  `buffer_key` loads four and shows what is lost.
* The references `flb_buffer_chunk_real_move()` has still to create are a set of
  pairs of file name and output, taken in the order of `Outputs`, as its loop
  over the outputs does.
* In `FlbInput` a buffer is its number of bytes; `BufSize` adds up the fixed
  buffer and all nodes, as `flb_input_buf_size_set()` does.
* In `FlbUpstream` the kernel gives out the lowest free descriptor (`Free`), so a
  number is reused as soon as it is closed. The code closes some descriptors
  twice, in `net_io_read_async()` (`flb_io.c:410`) and in the release of the
  connection (`flb_upstream.c:210`). No co-routine runs in between, so the second
  `close()` fails with `EBADF` and changes nothing: `Close` of a closed number.
  `ConnectionsOwned` says what makes it harmless: a number closed already is kept
  only by the co-routine that runs, and no two connections have the same one.
* In `FlbUpstream` data is left out: a call succeeds, makes progress, would block
  or fails. `Rare` says for which transports `connect()` may succeed at once and
  `epoll_ctl()` may fail: with TLS either one leaves a co-routine waiting on an
  event that is not registered (`event.fd` is unset, the result of
  `io_tls_event_switch()` is ignored), so the passing run takes plain TCP.
* `FlbRouter` uses strings as sequences of characters, since its subject is what
  the match does with them, and masks as sets of bits, doubled in 32 of them.
  `flb_router_match()` is a function of the position in the pattern whose value
  is the set of positions in the tag from which the rest matches; `Step` is one
  round of its loop. Outputs come first, up to a number of `Prior`, so that the
  33rd output is reached without every configuration in between. A property set
  to the empty value makes the match of an output NULL, is stored as "" for a
  filter and leaves an input's tag as it was. Whether an input is dynamic is read
  from its plugin for the default tag and from the instance by the router:
  plugins in `Flagged` are registered with the flag, the other dynamic ones set
  it for the instance in their `cb_init`.
* `flb_engine_exit()` may be called again (SIGTERM twice); the bound is one
  unread STOP in the pipe.
* `FlbSched.ShiftedBase` is the product as a build with wrapping signed
  arithmetic computes it; the overflow itself is undefined behaviour in C.
* Definitions whose comment begins with "Seeded fault" are faulty variants of
  the definition that follows them; they are not used by the specifications.
  Each property is shown to fail with one of them in place.

## 3. Runs

Passing runs:

| Run | Configuration | Checks |
|---|---|---|
| `engine_fork` | 2 tasks, 1 input, 2 outputs (no limit and limit 0), 1 table entry, timers may fail | type, reference count, ids, holders, freeing; `FlbEngine` implements `FlbDelivery`, with the number of retries the code grants |
| `engine_single` | 2 tasks, 1 output, 2 entries, timers can be created, fairness | nothing lost or dangling, no use after free, every task ends, exit stops |
| `sched_clock` | 2 requests, frame 3 s, cap 8 s, lag 1 s, 13 s | on time, never early |
| `input` | fixed and dynamic tags, routed and not, 3 nodes, limit 3, plugins like in_tail, in_systemd and without callbacks, fairness | limit, nodes in flight, status and collector, resume, exit |
| `buffer` | 2 chunks (for 2 outputs and for 1), 2 workers, 2 processes with a crash or an exit in between | promoted chunks are backed up, references have their chunk, only remaining routes return, the buffer of a task is held, under the id the task gives back, until the task is destroyed |
| `upstream` | 2 co-routines, plain TCP or TLS, 3 calls and 2 suspensions each, connections that break, fairness | waiting co-routines and epoll agree, descriptors, `busy_queue` and epoll's list belong to connections in use and none leaks, every flush ends |
| `router` | 2 inputs (fixed, dynamic tag), outputs 0 to 2 and 31 to 33, 2 filters, 2 properties; all strings of up to 4 characters for the match | match, routes, filters, masks, look-up by number |

Runs that show a disagreement between the code and what the repository says of
it (see "findings" in `PROJECT.json`):

| Run | What TLC shows |
|---|---|
| `retry_lost` | with two outputs, a task is freed with a pending retry: records are lost silently |
| `sched_tries` | the 29th attempt computes a negative back-off and may be refused |
| `buffer_miss` | an output that ends before its chunk is stored leaves the chunk on disk: it waits for the next start, which delivers it again |
| `buffer_key` | the event of the fourth chunk loaded at once carries key 0: the chunk is loaded and never becomes a task |
| `io_eagain` | a `send()` that would block fails once it is resumed, on a connection that works |

Some properties of the passing runs are stated as far as they hold, and the
statement names the limit:

* `ImplementsDelivery`: with `Granted` = `retry_limit` + 1. The code compares the
  limit before it counts the attempt (`flb_task.c:104-126`), so that a limit of 0
  still grants one retry, although `flb_output.h:118` calls it the "max of
  retries allowed". No property says that the configured limit is respected: with
  `Granted` equal to it the refinement fails.
* `NoSilentLoss`, `NoDanglingRequest`, `NoUseAfterFree`: for inputs with one
  route. A task forked to several outputs may be freed with retries pending; run
  `retry_lost` shows the first of these fail there, and the freed contexts remain
  on the lists of the scheduler, which is how the other two do.
* `NoRouteForgotten`, `TasksEnd`: checked where timers can be created. If one
  cannot, the code drops the retry of a request it promotes.
* `ResumesUnlessDropped`: an input paused by the memory limit is not resumed when
  the task table was full at its flush; the resume hangs on
  `flb_task_destroy()`, and the records were freed without a task.
* `StatusMatchesCollector`: `flb_input_collector_resume()` never sets
  `coll->running`, so the second pause of in_systemd has no effect.
* `HeldWhileInUse`: the buffer of a task is not taken away from it. It may be
  NULL from the start, where the file could not be mapped; the code makes a task
  of it all the same.
* `NoLostLoad` (run `buffer_key`) excepts a loaded chunk that found the task table
  full: it stays loaded with nobody to deliver it until the next start.
* `MaskNamesRoutes`, `SetsReachInstance`: masks last for 32 outputs; numbers of
  inputs and filters are unique within a plugin only.
* `ReferenceHasChunk`: holds where references can be created. If one cannot
  (`RefMayFail`), `chunk_miss()` renames the file in `outgoing/` and the other
  references keep the old name.
* `ArmedIffSuspended`: in the run, rare successes and failures are for plain TCP
  only (see `Rare` in section 2).

Bounds and why they are enough. Two tasks with one table entry force reuse of
an id while results are under way; two outputs give every pair of holders of
the same task; with limits -1 and 0 and `MaxAttempts` 2 a route is retried
without limit, within the limit and refused; attempts 1 to 3 give back-offs of
10, 20 and 40 s, so that with a frame of 10 s both lists of the scheduler are
used. Frame 3 and cap 8 give requests that are promoted in the first, second and
third frame, in all phases. Three nodes allow one in a task, one locked and one
open for the same tag; limit 3 and writes of 1 and 2 reach the limit exactly and
by one more. Two workers and two chunks let requests for one chunk meet those
for another in every order, and two processes give one restart; what a second
restart would meet is the same directory contents. Run `buffer_key` starts from
four stored chunks: the ids 1, 2 and 3 fit into the key, 4 is the first that does
not. Two descriptors for two
co-routines force the reuse of a number as soon as one is closed. Prior outputs
31 put the 32-bit edge of the masks within reach. `MaxTasks`, `Nodes`, `Tasks`,
`MaxAttempts`, `MaxTime`, `MaxTries`, `Sizes`, `MaxStarts`, `MaxRequests`,
`MaxFd`, `MaxCalls`, `MaxWaits`, `MaxInputs`, `MaxOutputs`, `MaxFilters`,
`MaxSets` and `MaxString` are bounds of the models, not of the code. Deadlock is
not checked where the system may stop or the bounds end the behaviour; it is
checked for `FlbInput`.

Symmetry is used only in `engine_fork` and the violation runs of the engine,
where no property is about liveness; the refinement mapping treats all tasks
alike.

## 4. Fairness

`FlbEngine`: output plugins end their flush callbacks (every plugin returns a
result; that its peer answers or fails is an assumption about the environment,
`flb_io.c` has no time-out), the flush timer is periodic, the
loop handles the events it was given and asks for more, an armed timer expires,
the frame timer finds a waiting request in time, and the grace period ends. The
handlers share one thread and disable one another for the duration of a flush,
hence strong fairness for them. Nothing is assumed of collectors or of
`flb_engine_exit()`. `FlbInput`: the flush timer, the steps of a flush and of a
resume, and the end of every task (which `TasksEnd` shows for the engine).
`FlbUpstream`: a co-routine that runs goes on until it yields, and a socket that
is watched is reported in the end, were it because the connection failed; the
code has no timeout that would end a wait. The reports of different sockets
interrupt one another, hence strong fairness. A co-routine whose socket is not
watched gets no fairness at all: that is what `FlushEnds` depends on.
`FlbBuffer`, `FlbRouter`: safety only.

## 5. Proofs

Seven modules are checked by TLAPS. Every invariant and every action property of
the passing runs is proved for arbitrary constants, under the assumptions named
in the modules that declare them and the conditions given below.

**Engine** (`FlbEngine_proofs`). Assumptions: `SchedAssumption`, `TaskAssumption`
(an input has finitely many routes, all different), `EngineAssumption`. Tasks,
inputs, outputs, limits and table size are arbitrary.

* `TypeCorrect`: `Spec => []TypeOK`.
* `InvCorrect`: `Spec => [](TypeOK /\ EngineInv)`, the inductive invariant. Its
  parts need each other. `MapInv`: `tasks_map` and `task->id` are inverse on
  living tasks. `ThreadInv`: threads belong to living tasks and are told apart
  by id and by output. `UserInv`: `users` is their number. `RouteInv`: a route
  with a thread has no request, one with a request has no final result.
  `PipeInv`: results name different threads that have returned. Releasing a
  thread frees the task only when `users` is 1, which with `UserInv` means that
  no other thread is left (`LastUser`), hence that `MapInv` and `PipeInv`
  survive the release of the id.
* `UsersCorrect`, `EventsCorrect`, `HolderCorrect`: from `EngineInv`.
  `FreedCorrect`: the action property `FreedOnlyWhenUnused`, from `LastUser`.
  `AttemptsBounded`: no more attempts are counted than the refinement below
  allows, inductive with the type invariant.

**Delivery** (`FlbEngine_delivery_proofs`).

* `DeliveryCorrect`: `Spec => ImplementsDelivery`. The refinement mapping is
  `PhaseOf`. It needs one more invariant, `DestInv` (threads and pending retries
  of a living task are for routes of the task). Each action is shown to be a
  step of `FlbDelivery` for one route, for all the routes of a task that starts
  or is freed, or a stutter; the release of a thread is where both cases meet:
  the last one also abandons what other routes still had pending.
* `ForgottenCorrect`: `NoRouteForgotten` if timers can be created
  (`~TimerMayFail`). Without that the code drops the retry; run `engine_fork`
  includes it.
* `LossCorrect`, `DanglingCorrect`, `UseCorrect`: `NoSilentLoss`,
  `NoDanglingRequest` and `NoUseAfterFree` under `SingleRoute`, with `SingleInv`:
  they are inductive together with the fact that a batch only holds timers of
  requests still listed. With two routes they fail: run `retry_lost` shows it for
  the first, so the condition cannot be dropped.

**Scheduler** (`FlbSchedClock_proofs`), for every frame, base, cap and lag shorter
than a frame. `ClockInv` says where the frame timer stands, that an armed request
is due when its timer says, and that a waiting one is promoted in the frame its
time falls into. `OnTimeCorrect` and `EarlyCorrect` follow from it.

**Input** (`FlbInput_proofs`), for finitely many nodes and any sizes and limit.
`NodesCorrect` (`NoAppendInFlight`) needs that the buffers a flush has still to
visit are not owned by a task. `LimitCorrect` rests on the sum over the nodes:
a write raises it by one size, and every other step lowers it or leaves it; an
instance that is over the limit is paused before the next write, and a resume
that has begun has seen a sum below the limit. `CollectorCorrect` and
`PausedCorrect` relate the status, the collector and a resume that another
thread has overtaken.

**Upstream** (`FlbUpstream_proofs`), for any co-routines and descriptors.
`OwnInv`: open descriptors, `busy_queue`, its counter and epoll's list belong to
connections in use, and a number closed already is kept only by the co-routine
that runs until it is closed again (`OwnedCorrect`). `ArmedCorrect` follows the
registration of the event through every piece of code between two suspensions;
it is proved for `TRUE \notin Rare`, the condition the passing run has, since
with TLS a `connect()` that succeeds at once or a failing `epoll_ctl()` breaks
it.

**Buffering** (`FlbBuffer_proofs`), for any outputs, workers, chunks and number of
starts. `TypeCorrect` is unconditional; it includes that a worker that takes an
event finds its request. The four safety properties (`BackupCorrect`,
`ReferenceCorrect`, `HeldCorrect`, `RemainingCorrect`) need an invariant in two
halves. On disk: a chunk has one file, its references name that file, and every
request on the way to a worker is about a file and routes in the right state
(`FileInv`, `RequestInv`, `MoveInv`, `RouteInv`). The point is that all requests
for a chunk go to one worker, so that a promotion, which creates references one
by one, never meets a deletion of the same chunk half-way. In memory: the id of a
loaded chunk is with one party only (`EntryInv`, `IdInv`): an event, the walk of
the engine, a task or a request to give it back. Two conditions:

* `~RefMayFail`: references can be created (otherwise see `ReferenceHasChunk` in
  section 3).
* `[]IdsFit`: ids of loaded chunks are below 4. `FLB_BUFFER_EV_KEY()` keeps two
  bits of the id; the fourth chunk loaded at once is announced to the engine with
  key 0, the id of entries that are not loaded (run `buffer_key`); the engine
  may then make a task of an entry without data. `FitCorrect` proves that the
  condition holds by itself with at most three chunks.

**Router** (`FlbRouter_proofs`), for any instances, tags and patterns.

* `MatchCovers`: `flb_router_match()` decides what a pattern means (`Covers`),
  for strings of every length. The library's induction theorems cannot be
  applied here since they take an operator as a parameter, so both inductions
  go by the least counterexample (`LeastElement`, from `WFMin`): the equations
  of the recursive function have a solution (`SolutionExists`), hence the
  function satisfies them, and its values are the positions with a cut
  (`CutStep`, `StepCuts`). `MatchCorrect` is the instance that run `router`
  checks.
* `TypeCorrect`; `RoutesCorrect` and `FiltersCorrect`, from what each phase of
  `flb_engine_start()` leaves to the next (`StartInv`) and `MatchCovers`;
  `MaskCorrect`, from `MaskInv`: the first 32 masks have no bit in common;
  `SetsCorrect`: within one plugin ids count the instances, so the look-up finds
  the one that is meant.

Only model-checked: liveness (`TasksEnd`, `ExitStops`, `ResumesUnlessDropped`,
`FlushEnds`), which needs fairness and `ENABLED`, out of the prover's reach; and
the violations, which are counterexamples.

## 6. Not modelled

The build with POSIX threads in place of co-routines and the synchronous I/O of
upstreams without `FLB_IO_ASYNC` (no suspension, nothing interleaves); TLS
contexts and `flb_network.c` (system calls one after the other); threaded
inputs and the library's own pipes; option parsing and configuration files;
parsers, packing, HTTP, metrics, logging, utilities and most plugins (pure
conversions and I/O); vendored libraries other than the two calls of the event
loop that `FlbUpstream` rests on. "components" in `PROJECT.json` gives the
reason for each.

Within the modules: a failed `malloc()` and a failed write to a pipe (in
`qchunk_event_push_request()` too, as its running out of ids at 16384 loaded
chunks); freed memory that is used again before a dangling pointer is followed;
what plugins do with a NULL buffer; whether another thread, such as a buffer
worker, opens a file between the two `close()` of one descriptor, which would
close that file; tags that contain `*`. Most of the repository's lines are vendored (SQLite, Onigmo,
MessagePack, mbed TLS, jemalloc, monkey): the models are about Fluent Bit's own
core.

## 7. Plan

1. Done: tasks, scheduler, engine, abstract delivery, scheduler with clock,
   input instances; buffering with crash and restart; upstream connections and
   I/O; router and library configuration; every invariant and action property of
   the passing runs and the refinement proved.
2. To come: `ArmedIffSuspended` for TLS under the weaker condition that only the step at
   hand is not rare; an abstract specification of buffering (what a restart
   hands back) that `FlbBuffer` implements.

------------------------------ MODULE FlbEngine ------------------------------
(***************************************************************************)
(* The engine (src/flb_engine.c, src/flb_engine_dispatch.c): one event     *)
(* loop that flushes the inputs into tasks, runs one output co-routine per *)
(* task and route, handles what the co-routines report through the manager *)
(* pipe, and re-dispatches retries when the scheduler's timers expire.     *)
(*                                                                         *)
(* mk_event_wait() reports a batch of ready descriptors; the loop handles  *)
(* them one after the other while the handlers change the very structures  *)
(* the rest of the batch points at.  The batch is therefore state: whether *)
(* the manager pipe is still to be read (one value per batch) and which    *)
(* request timers are still to be handled.  The flush, frame and shutdown  *)
(* timers live as long as the loop, so their place in a batch is of no     *)
(* consequence: they are handled between any two events.                   *)
(***************************************************************************)
EXTENDS FlbTask

CONSTANTS
  MaxAttempts,  \* bound: an output asks for at most so many retries
  ThreadIds     \* bound: thread ids that fit the 14 bits of FLB_TASK_SET()

VARIABLES
  active,       \* output threads that have not called FLB_OUTPUT_RETURN yet
  pipe,         \* config->ch_manager: reported results and the STOP signal
  in_buf,       \* does the input's buffer (mp_sbuf) hold records?
  flushing,     \* inputs flb_engine_flush() has still to visit
  manager,      \* batch: is ch_manager reported and not handled yet?
  timers,       \* batch: expired request timers not handled yet
  is_running,   \* config->is_running
  shutdown_fd,  \* is the timer of the grace period armed?
  engine,       \* "running", "stopped", or "undefined" after a use of freed memory
  outcome       \* history: the final result the engine has handled, per route

loopVars == <<in_buf, flushing, manager, timers, is_running, shutdown_fd, engine>>
vars == <<schedVars, taskVars, loopVars, active, pipe, outcome>>

ASSUME EngineAssumption ==
  /\ MaxAttempts \in Nat
  /\ ThreadIds \in Nat
  /\ MapSize <= ThreadIds
  /\ \A i \in Inputs : Len(Routes[i]) <= ThreadIds

Results  == {"OK", "RETRY", "ERROR"}
Final    == {"ok", "error", "exhausted", "unscheduled"}
Events   == [ret : Results \union {"STOP"}, task_id : Ids, thread_id : Nat]
StopEvent == [ret |-> "STOP", task_id |-> 0, thread_id |-> 0]

TypeOK ==
  /\ requests \subseteq Tasks \X Outputs
  /\ requests_wait \subseteq Tasks \X Outputs
  /\ tasks_map \in [Ids -> Tasks \union {NoTask}]
  /\ status \in [Tasks -> {"unused", "running", "freed"}]
  /\ id \in [Tasks -> Ids]
  /\ i_ins \in [Tasks -> Inputs]
  /\ users \in [Tasks -> Int]
  /\ n_threads \in [Tasks -> Nat]
  /\ retries \in [Tasks -> [Outputs -> Nat]]
  /\ threads \subseteq Threads
  /\ active \subseteq Threads
  /\ pipe \in Seq(Events)
  /\ in_buf \in [Inputs -> BOOLEAN]
  /\ flushing \subseteq Inputs
  /\ manager \in BOOLEAN
  /\ timers \subseteq Tasks \X Outputs
  /\ is_running \in BOOLEAN
  /\ shutdown_fd \in BOOLEAN
  /\ engine \in {"running", "stopped", "undefined"}
  /\ outcome \in [Tasks -> [Outputs -> Final \union {"none"}]]

Init ==
  /\ requests = {}
  /\ requests_wait = {}
  /\ TaskInit
  /\ active = {}
  /\ pipe = <<>>
  /\ in_buf = [i \in Inputs |-> FALSE]
  /\ flushing = {}
  /\ manager = FALSE
  /\ timers = {}
  /\ is_running = TRUE
  /\ shutdown_fd = FALSE
  /\ engine = "running"
  /\ outcome = [p \in Tasks |-> [o \in Outputs |-> "none"]]
-----------------------------------------------------------------------------
\* The loop is alive and no handler is in the middle of its work.
Idle == engine = "running" /\ flushing = {}

-----------------------------------------------------------------------------
(* The world around the event loop.                                        *)

(***************************************************************************)
(* A collector stores records in its input's buffer.  The bound Tasks: no  *)
(* more buffers are filled than task structures are left for them.         *)
(***************************************************************************)
Collect(i) ==
  /\ Idle /\ is_running
  /\ ~in_buf[i]
  /\ Cardinality({j \in Inputs : in_buf[j]}) < Cardinality(Unused)
  /\ in_buf' = [in_buf EXCEPT ![i] = TRUE]
  /\ UNCHANGED <<schedVars, taskVars, active, pipe, flushing, manager, timers,
                 is_running, shutdown_fd, engine, outcome>>

(***************************************************************************)
(* An output co-routine calls FLB_OUTPUT_RETURN: flb_output_return() packs *)
(* the result, the id of its task and its own id and writes them to the    *)
(* manager pipe; the co-routine never runs again.  FLB_TASK_SET() shifts   *)
(* the three into one word without masking them; as every id is below      *)
(* ThreadIds, FLB_TASK_ID() and FLB_TASK_TH() read back what was packed.   *)
(***************************************************************************)
flb_output_return(t, ret) ==
  /\ engine = "running"
  /\ t \in active
  /\ ret = "RETRY" => retries[t.task][t.out] < MaxAttempts
  /\ active' = active \ {t}
  /\ pipe' = Append(pipe, [ret |-> ret, task_id |-> id[t.task],
                           thread_id |-> t.id])
  /\ UNCHANGED <<schedVars, taskVars, loopVars, outcome>>

(***************************************************************************)
(* flb_engine_exit(), called by a signal handler or another thread: the    *)
(* inputs are paused and STOP is written to the manager pipe.  It may be   *)
(* called again; bound: once the last STOP has been read.                  *)
(***************************************************************************)
flb_engine_exit ==
  /\ engine = "running"
  /\ \A k \in 1..Len(pipe) : pipe[k].ret # "STOP"
  /\ is_running' = FALSE
  /\ pipe' = Append(pipe, StopEvent)
  /\ UNCHANGED <<schedVars, taskVars, active, in_buf, flushing, manager, timers,
                 shutdown_fd, engine, outcome>>
-----------------------------------------------------------------------------
(* The event loop of flb_engine_start().                                   *)

(***************************************************************************)
(* mk_event_wait(): once the last batch is handled the loop asks for the   *)
(* next one.  The pipe is reported whenever it is not empty; which timers  *)
(* have expired (T) is the clock's choice.                                 *)
(***************************************************************************)
mk_event_wait(T) ==
  /\ Idle /\ ~manager /\ timers = {}
  /\ T \subseteq requests
  /\ pipe # <<>> \/ T # {}
  /\ manager' = (pipe # <<>>)
  /\ timers' = T
  /\ UNCHANGED <<schedVars, taskVars, active, pipe, in_buf, flushing,
                 is_running, shutdown_fd, engine, outcome>>

\* flb_engine_handle_event(), flush_fd: flb_engine_flush() visits all inputs.
HandleFlush ==
  /\ Idle
  /\ flushing' = Inputs
  /\ UNCHANGED <<schedVars, taskVars, active, pipe, in_buf, manager, timers,
                 is_running, shutdown_fd, engine, outcome>>

(***************************************************************************)
(* flb_engine_dispatch() of one input: nothing buffered; no id left in the *)
(* task table or no route, then the buffer is freed; or a new task whose   *)
(* output co-routines are started at once.                                 *)
(***************************************************************************)
Dispatching(i) == /\ engine = "running"
                  /\ i \in flushing
                  /\ flushing' = flushing \ {i}
                  /\ in_buf' = [in_buf EXCEPT ![i] = FALSE]
                  /\ UNCHANGED <<schedVars, pipe, manager, timers, is_running,
                                 shutdown_fd, engine, outcome>>

DispatchNothing(i) ==
  /\ Dispatching(i)
  /\ ~in_buf[i]
  /\ UNCHANGED <<taskVars, active>>

DispatchDropped(i) ==
  /\ Dispatching(i)
  /\ in_buf[i]
  /\ FreeIds = {} \/ Routes[i] = <<>>
  /\ UNCHANGED <<taskVars, active>>

DispatchTask(i) ==
  /\ Dispatching(i)
  /\ in_buf[i]
  /\ FreeIds # {} /\ Routes[i] # <<>>
  /\ \E p \in Unused, k \in Ids :
       /\ flb_task_create(p, k, i)
       /\ active' = active \union NewThreads(p, i)

(***************************************************************************)
(* flb_engine_manager(): one value is read from the pipe.                  *)
(***************************************************************************)
ManagerReads(ret) == /\ Idle
                     /\ manager
                     /\ manager' = FALSE
                     /\ pipe # <<>>
                     /\ Head(pipe).ret = ret
                     /\ pipe' = Tail(pipe)

(***************************************************************************)
(* The reported ids are looked up in tasks_map and in the task's list of   *)
(* threads; a result that named no thread there would be dereferenced as   *)
(* NULL (EventsResolve says that every result names one).                  *)
(***************************************************************************)
TaskResult(ret, t) ==
  /\ ManagerReads(ret)
  /\ t \in threads
  /\ tasks_map[Head(pipe).task_id] = t.task
  /\ Head(pipe).thread_id = t.id
  /\ UNCHANGED <<active, in_buf, flushing, timers, is_running, shutdown_fd,
                 engine>>

Settled(t, result) == outcome' = [outcome EXCEPT ![t.task][t.out] = result]

TaskOk(t) ==
  /\ TaskResult("OK", t)
  /\ ReleaseUser(t, WithoutRetry(t.task, t.out),
                 flb_sched_request_invalidate({<<t.task, t.out>>}, requests))
  /\ Settled(t, "ok")

TaskError(t) ==
  /\ TaskResult("ERROR", t)
  /\ ReleaseUser(t, retries, requests)
  /\ Settled(t, "error")

\* FLB_RETRY beyond the limit: the retry context goes, the thread too.
TaskRetryRefused(t) ==
  /\ TaskResult("RETRY", t)
  /\ RetryRefused(t.task, t.out)
  /\ ReleaseUser(t, WithoutRetry(t.task, t.out),
                 flb_sched_request_invalidate({<<t.task, t.out>>}, requests))
  /\ Settled(t, "exhausted")

\* Seeded fault: a task without users is freed although a retry is scheduled.
TaskRetryFrees(t) ==
  /\ TaskResult("RETRY", t)
  /\ ~RetryRefused(t.task, t.out)
  /\ ReleaseUser(t, flb_task_retry_create(t.task, t.out), requests)
  /\ UNCHANGED outcome

\* FLB_RETRY accepted: one more attempt is counted and a request is created.
TaskRetry(t) ==
  /\ TaskResult("RETRY", t)
  /\ ~RetryRefused(t.task, t.out)
  /\ retries' = flb_task_retry_create(t.task, t.out)
  /\ threads' = threads \ {t}
  /\ users' = [users EXCEPT ![t.task] = @ - 1]
  /\ flb_sched_request_create(<<t.task, t.out>>, retries'[t.task][t.out])
  /\ UNCHANGED <<tasks_map, status, id, i_ins, n_threads, outcome>>

\* FLB_RETRY accepted, but the scheduler gets no timer: the retry is dropped.
TaskRetryUnscheduled(t) ==
  /\ TaskResult("RETRY", t)
  /\ ~RetryRefused(t.task, t.out)
  /\ MayRefuse(retries[t.task][t.out] + 1)
  /\ ReleaseUser(t, WithoutRetry(t.task, t.out),
                 flb_sched_request_invalidate({<<t.task, t.out>>}, requests))
  /\ Settled(t, "unscheduled")

\* Seeded fault: the timer of the grace period is not armed.
ManagerStopNoTimer ==
  /\ ManagerReads("STOP")
  /\ flushing' = Inputs
  /\ UNCHANGED <<schedVars, taskVars, active, in_buf, timers, is_running,
                 shutdown_fd, engine, outcome>>

\* STOP: the inputs are flushed and the timer of the grace period is armed.
ManagerStop ==
  /\ ManagerReads("STOP")
  /\ flushing' = Inputs
  /\ shutdown_fd' = TRUE
  /\ UNCHANGED <<schedVars, taskVars, active, in_buf, timers, is_running,
                 engine, outcome>>

\* The frame timer of the scheduler, flb_sched_event_handler().
HandleFrame(due, refused) ==
  /\ Idle
  /\ schedule_request_promote(due, refused)
  /\ UNCHANGED <<taskVars, active, pipe, loopVars, outcome>>

\* Seeded fault: the event of the timer is handled a second time.
HandlingTwice(r) == /\ Idle
                    /\ r \in timers
                    /\ UNCHANGED timers

\* The loop comes to the event of a request's timer.
HandlingTimer(r) == /\ Idle
                    /\ r \in timers
                    /\ timers' = timers \ {r}

(***************************************************************************)
(* The timer of a request, flb_sched_event_handler(): the retry context    *)
(* names the task and the output, flb_engine_dispatch_retry() starts a new *)
(* output co-routine and the request is destroyed.                         *)
(***************************************************************************)
HandleTimer(r) ==
  /\ HandlingTimer(r)
  /\ r \in requests
  /\ retries[r[1]][r[2]] > 0
  /\ n_threads[r[1]] < ThreadIds
  /\ LET t == [task |-> r[1], id |-> n_threads[r[1]], out |-> r[2]]
     IN  flb_task_add_thread(t) /\ active' = active \union {t}
  /\ requests' = requests \ {r}
  /\ UNCHANGED <<requests_wait, tasks_map, status, id, i_ins, retries, pipe,
                 in_buf, flushing, manager, is_running, shutdown_fd, engine,
                 outcome>>

(***************************************************************************)
(* The same when the memory is gone: an earlier handler of the batch has   *)
(* freed the timer, or the request points at a freed retry context.        *)
(***************************************************************************)
HandleTimerFreed(r) ==
  /\ HandlingTimer(r)
  /\ r \notin requests \/ retries[r[1]][r[2]] = 0
  /\ engine' = "undefined"
  /\ UNCHANGED <<schedVars, taskVars, active, pipe, in_buf, flushing, manager,
                 is_running, shutdown_fd, outcome>>

(***************************************************************************)
(* The grace period is over: flb_engine_shutdown() destroys the tasks that *)
(* are left and the scheduler; the loop is not entered again.              *)
(***************************************************************************)
flb_engine_shutdown ==
  /\ Idle /\ shutdown_fd
  /\ tasks_map' = [k \in Ids |-> NoTask]
  /\ status' = [p \in Tasks |-> IF p \in Live THEN "freed" ELSE status[p]]
  /\ retries' = [p \in Tasks |-> [o \in Outputs |-> 0]]
  /\ requests' = {}
  /\ requests_wait' = {}
  /\ threads' = {}
  /\ active' = {}
  /\ engine' = "stopped"
  /\ UNCHANGED <<id, i_ins, users, n_threads, pipe, in_buf, flushing, manager,
                 timers, is_running, shutdown_fd, outcome>>

Next ==
  \/ \E i \in Inputs : Collect(i)
  \/ \E t \in threads, ret \in Results : flb_output_return(t, ret)
  \/ flb_engine_exit
  \/ \E T \in SUBSET requests : mk_event_wait(T)
  \/ HandleFlush
  \/ \E i \in Inputs : DispatchNothing(i)
  \/ \E i \in Inputs : DispatchDropped(i)
  \/ \E i \in Inputs : DispatchTask(i)
  \/ \E t \in threads : TaskOk(t)
  \/ \E t \in threads : TaskError(t)
  \/ \E t \in threads : TaskRetryRefused(t)
  \/ \E t \in threads : TaskRetry(t)
  \/ \E t \in threads : TaskRetryUnscheduled(t)
  \/ ManagerStop
  \/ \E due \in SUBSET requests_wait : \E refused \in SUBSET due :
       HandleFrame(due, refused)
  \/ \E r \in timers : HandleTimer(r)
  \/ \E r \in timers : HandleTimerFreed(r)
  \/ flb_engine_shutdown

Spec == Init /\ [][Next]_vars

(***************************************************************************)
(* Fairness.  Output plugins end their flush callbacks; the flush timer    *)
(* ticks and a flush that has begun ends; the loop handles the events of a *)
(* batch and asks for the next one; an armed timer expires; the frame      *)
(* timer finds a waiting request due; the grace period ends.  The loop is  *)
(* one thread and its handlers exclude one another, so that a flush may    *)
(* disable the others for a moment: hence strong fairness.                 *)
(***************************************************************************)
DispatchStep == \E i \in Inputs : \/ DispatchNothing(i)
                                  \/ DispatchDropped(i)
                                  \/ DispatchTask(i)

LoopStep == \/ ManagerStop
            \/ \E t \in threads : \/ TaskOk(t)
                                  \/ TaskError(t)
                                  \/ TaskRetryRefused(t)
                                  \/ TaskRetry(t)
                                  \/ TaskRetryUnscheduled(t)
            \/ \E r \in timers : HandleTimer(r) \/ HandleTimerFreed(r)
            \/ \E T \in SUBSET requests : mk_event_wait(T)

Fairness ==
  /\ WF_vars(\E t \in threads, ret \in Results : flb_output_return(t, ret))
  /\ WF_vars(HandleFlush)
  /\ WF_vars(DispatchStep)
  /\ SF_vars(LoopStep)
  /\ \A r \in Tasks \X Outputs :
       /\ SF_vars(\E T \in SUBSET requests : r \in T /\ mk_event_wait(T))
       /\ SF_vars(\E due \in SUBSET requests_wait :
                    r \in due /\ HandleFrame(due, {}))
  /\ SF_vars(flb_engine_shutdown)

FairSpec == Spec /\ Fairness
-----------------------------------------------------------------------------
(* Properties.                                                             *)

(***************************************************************************)
(* The reference count of a task is right: task->users is the number of    *)
(* output threads on its list, so `users == 0' in flb_engine_manager()     *)
(* means that no co-routine can touch the task any more.                   *)
(***************************************************************************)
UsersCountThreads ==
  \A p \in Live : users[p] = Cardinality(ThreadsOf(p))

(***************************************************************************)
(* A result in the manager pipe always names, through tasks_map and the    *)
(* list of threads, exactly one finished output thread, and no two results *)
(* name the same one: an id released by one task and taken by another      *)
(* never makes flb_engine_manager() charge the wrong task or dereference   *)
(* NULL.                                                                   *)
(***************************************************************************)
Names(e, t) == /\ e.ret # "STOP"
               /\ tasks_map[e.task_id] = t.task
               /\ e.thread_id = t.id

EventsResolve ==
  engine # "stopped" =>
    \A k \in 1..Len(pipe) : pipe[k].ret # "STOP" =>
      \E t \in threads \ active :
        /\ \A j \in 1..Len(pipe) : Names(pipe[j], t) <=> j = k
        /\ \A u \in threads : Names(pipe[k], u) => u = t

(***************************************************************************)
(* While a task lives, each of its routes is in at most one place: held by *)
(* an output thread, by an armed request or by a waiting one; and a        *)
(* settled route is in none.  Two co-routines never deliver the same       *)
(* records to the same output at the same time, and none delivers them     *)
(* again after a final result.                                             *)
(***************************************************************************)
Holders(p, o) ==
  {<<"thread", t.id>> : t \in {u \in ThreadsOf(p) : u.out = o}}
    \union (IF <<p, o>> \in requests THEN {<<"request", 0>>} ELSE {})
    \union (IF <<p, o>> \in requests_wait THEN {<<"wait", 0>>} ELSE {})

AtMostOneHolder ==
  \A p \in Live, o \in Outputs :
    /\ \A x, y \in Holders(p, o) : x = y
    /\ outcome[p][o] # "none" => Holders(p, o) = {}

(***************************************************************************)
(* ... and no route of a living task is forgotten: until it is settled,    *)
(* somebody holds it.  (Not so once schedule_request_promote() loses a     *)
(* request whose timer it cannot create.)                                  *)
(***************************************************************************)
NoRouteForgotten ==
  \A p \in Live : \A o \in RoutesOf(p) :
    outcome[p][o] = "none" => Holders(p, o) # {}

(***************************************************************************)
(* Outside of the final shutdown, a task and its buffer are freed only     *)
(* when every one of its output threads has returned and is gone.          *)
(***************************************************************************)
FreedOnlyWhenUnused ==
  [][\A p \in Live : status'[p] = "freed" /\ engine' # "stopped" =>
       /\ ThreadsOf(p) \intersect active = {}
       /\ \A t \in threads' : t.task # p]_vars

(***************************************************************************)
(* Nothing is lost silently: while the engine runs, a task is freed only   *)
(* after each of its routes has its final result.                          *)
(***************************************************************************)
NoSilentLoss ==
  engine # "stopped" =>
    \A p \in Tasks : status[p] = "freed" =>
      \A o \in RoutesOf(p) : outcome[p][o] # "none"

(***************************************************************************)
(* Every request of the scheduler points at a retry context that exists.   *)
(***************************************************************************)
NoDanglingRequest ==
  \A r \in requests \union requests_wait :
    r[1] \in Live /\ retries[r[1]][r[2]] > 0

\* No handler ever works on a freed timer, request or retry context.
NoUseAfterFree == engine # "undefined"

(***************************************************************************)
(* Every task ends: its buffer and its id are released in the end.         *)
(***************************************************************************)
TasksEnd == \A p \in Tasks : status[p] = "running" ~> status[p] = "freed"

(***************************************************************************)
(* After flb_engine_exit() the engine stops, whatever is still pending.    *)
(***************************************************************************)
ExitStops == ~is_running ~> engine = "stopped"
-----------------------------------------------------------------------------
(* The inductive invariant behind these properties.                        *)

\* tasks_map and task->id are inverse to each other on the living tasks.
MapInv ==
  /\ \A k \in Ids : tasks_map[k] # NoTask =>
       tasks_map[k] \in Live /\ id[tasks_map[k]] = k
  /\ \A p \in Live : tasks_map[id[p]] = p

\* Threads belong to living tasks and are told apart by id and by output.
ThreadInv ==
  /\ active \subseteq threads
  /\ \A t \in threads : t.task \in Live /\ t.id < n_threads[t.task]
  /\ \A t, u \in threads : t.task = u.task /\ t.id = u.id => t = u
  /\ \A t, u \in threads : t.task = u.task /\ t.out = u.out => t = u

UserInv == IsFiniteSet(threads) /\ UsersCountThreads

Pending == requests \union requests_wait

\* Who holds a route: a thread, one request, or nobody once it is settled.
RouteInv ==
  /\ \A p \in Tasks, o \in Outputs : retries[p][o] > 0 => p \in Live
  /\ \A p \in Unused, o \in Outputs :
       <<p, o>> \notin Pending /\ outcome[p][o] = "none"
  /\ \A t \in threads : /\ <<t.task, t.out>> \notin Pending
                        /\ outcome[t.task][t.out] = "none"
  /\ \A p \in Live, o \in Outputs : <<p, o>> \in Pending =>
       /\ outcome[p][o] = "none"
       /\ <<p, o>> \notin requests \intersect requests_wait

\* Results in the pipe stand for different threads that have returned.
PipeInv ==
  engine # "stopped" =>
    /\ \A k \in 1..Len(pipe) : pipe[k].ret # "STOP" =>
         \E t \in threads \ active : Names(pipe[k], t)
    /\ \A j, k \in 1..Len(pipe) :
         /\ pipe[j].ret # "STOP" /\ pipe[k].ret # "STOP"
         /\ pipe[j].task_id = pipe[k].task_id
         /\ pipe[j].thread_id = pipe[k].thread_id
         => j = k

EngineInv == MapInv /\ ThreadInv /\ UserInv /\ RouteInv /\ PipeInv

\* A task is only ever delivered to the routes of its input.
DestInv ==
  /\ \A t \in threads : t.out \in RoutesOf(t.task)
  /\ \A p \in Live, o \in Outputs : <<p, o>> \in Pending => o \in RoutesOf(p)

\* An unsettled route of a living task is on one of the engine's lists.
HeldInv ==
  \A p \in Live : \A o \in RoutesOf(p) : outcome[p][o] = "none" =>
    (\E t \in ThreadsOf(p) : t.out = o) \/ <<p, o>> \in Pending

\* flb_task_retry_create() compares before it counts: a limited output gets one
\* retry more than its limit, though flb_output.h calls it the "max of retries
\* allowed".
Granted == [o \in Outputs |->
              IF RetryLimit[o] < 0 THEN RetryLimit[o] ELSE RetryLimit[o] + 1]

AttemptInv ==
  \A p \in Live, o \in Outputs :
    RetryLimit[o] >= 0 => retries[p][o] <= RetryLimit[o] + 1

(***************************************************************************)
(* The configuration in which the engine loses nothing: no input has more  *)
(* than one route.  There a timer of the batch is always one of a request. *)
(***************************************************************************)
SingleRoute == \A i \in Inputs : Len(Routes[i]) <= 1

SingleInv ==
  /\ NoDanglingRequest
  /\ NoSilentLoss
  /\ NoUseAfterFree
  /\ engine = "running" => timers \subseteq requests
-----------------------------------------------------------------------------
(***************************************************************************)
(* The engine implements FlbDelivery, with the retries it really grants:   *)
(* where the delivery of task p to output o stands, read off the engine's  *)
(* structures.                                                             *)
(***************************************************************************)
PhaseOf(p, o) ==
  IF outcome[p][o] # "none" THEN outcome[p][o]
  ELSE IF status[p] = "unused" \/ o \notin RoutesOf(p) THEN "idle"
  ELSE IF status[p] = "freed" THEN "abandoned"
  ELSE IF \E t \in ThreadsOf(p) : t.out = o THEN "trying"
  ELSE "backoff"

TriesOf(p, o) ==
  IF PhaseOf(p, o) \in {"trying", "backoff"} THEN retries[p][o] ELSE 0

phaseBar == [p \in Tasks |-> [o \in Outputs |-> PhaseOf(p, o)]]
triesBar == [p \in Tasks |-> [o \in Outputs |-> TriesOf(p, o)]]
upBar    == engine # "stopped"

Delivery == INSTANCE FlbDelivery WITH
  Granted <- Granted, phase <- phaseBar, tries <- triesBar, up <- upBar

(***************************************************************************)
(* Every step of the engine is a step of the delivery of one route, the    *)
(* acceptance of a task or the stop, or leaves all deliveries alone; no    *)
(* output gets more retries than Granted, nor is refused one before.       *)
(***************************************************************************)
ImplementsDelivery == Delivery!Spec
=============================================================================

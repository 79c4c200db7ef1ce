------------------------------- MODULE FlbTask -------------------------------
(***************************************************************************)
(* Tasks (src/flb_task.c): a task owns one buffer of records taken from an *)
(* input instance and is delivered to every output instance on the input's *)
(* routes by one output thread (a co-routine) per route.  The table        *)
(* config->tasks_map gives each task the small id its output threads use   *)
(* to report to the engine.                                                *)
(*                                                                         *)
(* A member of Tasks stands for one allocation of struct flb_task; a freed *)
(* one is not used again, so that a dangling reference stays visible.      *)
(***************************************************************************)
EXTENDS FlbSched, Sequences, FiniteSets

CONSTANTS
  Tasks,       \* the task structures that may be allocated (a bound)
  Inputs,      \* input instances
  Outputs,     \* output instances
  Routes,      \* Routes[i]: i_ins->routes, a sequence of outputs
  RetryLimit,  \* RetryLimit[o]: o_ins->retry_limit, negative: unlimited
  MapSize,     \* number of entries of config->tasks_map
  NoTask       \* the NULL entry of config->tasks_map

VARIABLES
  tasks_map,   \* config->tasks_map: id -> task or NoTask
  status,      \* has the structure been allocated, has it been freed?
  id,          \* task->id
  i_ins,       \* task->i_ins
  users,       \* task->users
  n_threads,   \* task->n_threads
  retries,     \* task->retries: attempts per output, 0: no retry context
  threads      \* task->threads of all tasks: output threads not destroyed

taskVars == <<tasks_map, status, id, i_ins, users, n_threads, retries, threads>>

ASSUME TaskAssumption ==
  /\ Inputs # {}
  /\ Routes \in [Inputs -> Seq(Outputs)]
  /\ \A i \in Inputs : \A j, k \in 1..Len(Routes[i]) :
       Routes[i][j] = Routes[i][k] => j = k
  /\ RetryLimit \in [Outputs -> Int]
  /\ MapSize \in Nat \ {0}
  /\ NoTask \notin Tasks

Ids     == 0..(MapSize - 1)
Threads == [task : Tasks, id : Nat, out : Outputs]

Live         == {p \in Tasks : status[p] = "running"}
Unused       == {p \in Tasks : status[p] = "unused"}
RoutesOf(p)  == {Routes[i_ins[p]][k] : k \in 1..Len(Routes[i_ins[p]])}
ThreadsOf(p) == {t \in threads : t.task = p}

TaskInit ==
  /\ tasks_map = [k \in Ids |-> NoTask]
  /\ status = [p \in Tasks |-> "unused"]
  /\ id = [p \in Tasks |-> 0]
  /\ i_ins = [p \in Tasks |-> CHOOSE i \in Inputs : TRUE]
  /\ users = [p \in Tasks |-> 0]
  /\ n_threads = [p \in Tasks |-> 0]
  /\ retries = [p \in Tasks |-> [o \in Outputs |-> 0]]
  /\ threads = {}
-----------------------------------------------------------------------------
\* Seeded fault: the search for an id does not look at the entries.
AllIds == Ids

\* The free entries of config->tasks_map.
FreeIds == {k \in Ids : tasks_map[k] = NoTask}

\* map_get_task_id() returns k: the lowest free entry of the table.
map_get_task_id(k) == k \in FreeIds /\ \A j \in FreeIds : k <= j

\* The output threads tasks_start() creates for a new task: one per route.
NewThreads(p, i) ==
  {[task |-> p, id |-> k - 1, out |-> Routes[i][k]] : k \in 1..Len(Routes[i])}

(***************************************************************************)
(* flb_task_create() for an input with routes, and tasks_start(), which    *)
(* follows it in flb_engine_dispatch(): the task gets its id and one       *)
(* thread, hence one user, per route.                                      *)
(***************************************************************************)
flb_task_create(p, k, i) ==
  /\ map_get_task_id(k)
  /\ tasks_map' = [tasks_map EXCEPT ![k] = p]
  /\ status' = [status EXCEPT ![p] = "running"]
  /\ id' = [id EXCEPT ![p] = k]
  /\ i_ins' = [i_ins EXCEPT ![p] = i]
  /\ users' = [users EXCEPT ![p] = Len(Routes[i])]
  /\ n_threads' = [n_threads EXCEPT ![p] = Len(Routes[i])]
  /\ threads' = threads \union NewThreads(p, i)
  /\ UNCHANGED retries

(***************************************************************************)
(* flb_task_destroy() of the tasks in P: the id is released and every      *)
(* retry context (rt) is destroyed, which asks the scheduler to forget the *)
(* request that points at it (rq is the requests list).                    *)
(***************************************************************************)
flb_task_destroy(P, rt, rq) ==
  /\ tasks_map' = [k \in Ids |->
                     IF tasks_map[k] \in P THEN NoTask ELSE tasks_map[k]]
  /\ status' = [p \in Tasks |-> IF p \in P THEN "freed" ELSE status[p]]
  /\ retries' = [p \in Tasks |->
                   IF p \in P THEN [o \in Outputs |-> 0] ELSE rt[p]]
  /\ requests' = flb_sched_request_invalidate(
                   {r \in P \X Outputs : rt[r[1]][r[2]] > 0}, rq)
  /\ UNCHANGED <<id, i_ins, n_threads, requests_wait>>

\* Seeded fault: the task goes with the first of its threads.
ReleaseAtOnce(t, rt, rq) ==
  /\ threads' = threads \ {t}
  /\ users' = [users EXCEPT ![t.task] = @ - 1]
  /\ flb_task_destroy({t.task}, rt, rq)

\* Seeded fault: the task is not destroyed with its last thread.
ReleaseNever(t, rt, rq) ==
  /\ threads' = threads \ {t}
  /\ users' = [users EXCEPT ![t.task] = @ - 1]
  /\ flb_task_destroy({}, rt, rq)

(***************************************************************************)
(* flb_output_thread_destroy_id(), and the release of the task when its    *)
(* last user has gone: how every final result of a thread ends.            *)
(***************************************************************************)
ReleaseUser(t, rt, rq) ==
  /\ threads' = threads \ {t}
  /\ users' = [users EXCEPT ![t.task] = @ - 1]
  /\ flb_task_destroy(IF users[t.task] = 1 THEN {t.task} ELSE {}, rt, rq)

\* Seeded fault: the limit is compared with one attempt too few.
RefusedTooLate(p, o) == /\ retries[p][o] > 0
                        /\ retries[p][o] > RetryLimit[o] + 1
                        /\ RetryLimit[o] >= 0

(***************************************************************************)
(* flb_task_retry_create(): is the retry refused because the context of    *)
(* this output has used up its attempts?                                   *)
(***************************************************************************)
RetryRefused(p, o) == /\ retries[p][o] > 0
                      /\ retries[p][o] > RetryLimit[o]
                      /\ RetryLimit[o] >= 0

\* Seeded fault: no context is created and no attempt is counted.
RetryNotCounted(p, o) == retries

\* flb_task_retry_create() otherwise: a new context, or one attempt more.
flb_task_retry_create(p, o) == [retries EXCEPT ![p][o] = @ + 1]

\* Seeded fault: the attempts are counted down, the context is kept.
RetryCountedDown(p, o) == [retries EXCEPT ![p][o] = @ - 1]

\* flb_task_retry_destroy() / flb_task_retry_clean() of one retry context.
WithoutRetry(p, o) == [retries EXCEPT ![p][o] = 0]

\* Seeded fault: the new thread is not counted as a user.
AddThreadUncounted(t) ==
  /\ threads' = threads \union {t}
  /\ n_threads' = [n_threads EXCEPT ![t.task] = @ + 1]
  /\ UNCHANGED users

\* flb_task_add_thread(): the next thread id, one more user.
flb_task_add_thread(t) ==
  /\ threads' = threads \union {t}
  /\ n_threads' = [n_threads EXCEPT ![t.task] = @ + 1]
  /\ users' = [users EXCEPT ![t.task] = @ + 1]
=============================================================================

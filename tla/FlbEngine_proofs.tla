--------------------------- MODULE FlbEngine_proofs ---------------------------
(***************************************************************************)
(* Proofs about FlbEngine, for any number of tasks, inputs, outputs and    *)
(* routes, any size of the task table and any retry limits.                *)
(***************************************************************************)
EXTENDS FlbEngine, FiniteSetTheorems, TLAPS

\* What a new task's threads are.
LEMMA NewThreadsType ==
  ASSUME NEW p \in Tasks, NEW i \in Inputs
  PROVE  /\ Len(Routes[i]) \in Nat
         /\ NewThreads(p, i) \subseteq Threads
BY TaskAssumption DEF TaskAssumption, NewThreads, Threads

LEMMA TypeInit == Init => TypeOK
<1> SUFFICES ASSUME Init PROVE TypeOK
  OBVIOUS
<1>1. i_ins \in [Tasks -> Inputs]
  BY TaskAssumption DEF TaskAssumption, Init, TaskInit
<1>2. id \in [Tasks -> Ids]
  BY TaskAssumption DEF TaskAssumption, Init, TaskInit, Ids
<1>3. retries \in [Tasks -> [Outputs -> Nat]]
  BY DEF Init, TaskInit
<1>4. outcome \in [Tasks -> [Outputs -> Final \union {"none"}]]
  BY DEF Init
<1>5. pipe \in Seq(Events)
  BY DEF Init
<1>6. in_buf \in [Inputs -> BOOLEAN]
  BY DEF Init
<1>7. /\ manager \in BOOLEAN /\ is_running \in BOOLEAN
      /\ shutdown_fd \in BOOLEAN
  BY DEF Init
<1>8. /\ tasks_map \in [Ids -> Tasks \union {NoTask}]
      /\ status \in [Tasks -> {"unused", "running", "freed"}]
      /\ users \in [Tasks -> Int]
      /\ n_threads \in [Tasks -> Nat]
  BY DEF Init, TaskInit
<1> QED
  BY <1>1, <1>2, <1>3, <1>4, <1>5, <1>6, <1>7, <1>8
  DEF Init, TaskInit, TypeOK

\* Releasing a user keeps the types, for any well-typed retry contexts.
LEMMA ReleaseType ==
  ASSUME TypeOK, NEW t \in threads, NEW rt, NEW rq,
         rt \in [Tasks -> [Outputs -> Nat]],
         rq \subseteq Tasks \X Outputs,
         ReleaseUser(t, rt, rq)
  PROVE  /\ tasks_map' \in [Ids -> Tasks \union {NoTask}]
         /\ status' \in [Tasks -> {"unused", "running", "freed"}]
         /\ retries' \in [Tasks -> [Outputs -> Nat]]
         /\ requests' \subseteq Tasks \X Outputs
         /\ users' \in [Tasks -> Int]
         /\ threads' \subseteq Threads
         /\ UNCHANGED <<id, i_ins, n_threads, requests_wait>>
<1>1. tasks_map' \in [Ids -> Tasks \union {NoTask}]
  BY DEF TypeOK, ReleaseUser, flb_task_destroy
<1>2. status' \in [Tasks -> {"unused", "running", "freed"}]
  BY DEF TypeOK, ReleaseUser, flb_task_destroy
<1>3. retries' \in [Tasks -> [Outputs -> Nat]]
  BY DEF ReleaseUser, flb_task_destroy
<1>4. requests' \subseteq Tasks \X Outputs
  BY DEF ReleaseUser, flb_task_destroy, flb_sched_request_invalidate
<1>5. t.task \in Tasks /\ users \in [Tasks -> Int]
  BY DEF TypeOK, Threads
<1>6. users' \in [Tasks -> Int]
  BY <1>5 DEF ReleaseUser
<1>7. threads' \subseteq Threads
  BY DEF TypeOK, ReleaseUser
<1>8. UNCHANGED <<id, i_ins, n_threads, requests_wait>>
  BY DEF ReleaseUser, flb_task_destroy
<1> QED
  BY <1>1, <1>2, <1>3, <1>4, <1>6, <1>7, <1>8

LEMMA TailType ==
  ASSUME pipe \in Seq(Events), pipe # <<>>
  PROVE  /\ Tail(pipe) \in Seq(Events)
         /\ Head(pipe) \in Events
OBVIOUS

LEMMA WithoutRetryType ==
  ASSUME TypeOK, NEW t \in threads
  PROVE  /\ WithoutRetry(t.task, t.out) \in [Tasks -> [Outputs -> Nat]]
         /\ t.task \in Tasks /\ t.out \in Outputs /\ t.id \in Nat
         /\ flb_sched_request_invalidate({<<t.task, t.out>>}, requests)
              \subseteq Tasks \X Outputs
BY DEF TypeOK, WithoutRetry, Threads, flb_sched_request_invalidate

\* A handler that reads a result from the pipe keeps the types it touches.
LEMMA ResultType ==
  ASSUME TypeOK, NEW t \in threads, NEW ret, TaskResult(ret, t)
  PROVE  /\ pipe' \in Seq(Events)
         /\ manager' \in BOOLEAN
         /\ UNCHANGED <<active, in_buf, flushing, timers, is_running,
                        shutdown_fd, engine>>
BY TailType DEF TypeOK, TaskResult, ManagerReads

LEMMA SettledType ==
  ASSUME TypeOK, NEW t \in threads, NEW f \in Final, Settled(t, f)
  PROVE  outcome' \in [Tasks -> [Outputs -> Final \union {"none"}]]
BY WithoutRetryType DEF TypeOK, Settled

(***************************************************************************)
(* Every handler of the engine keeps the types.                            *)
(***************************************************************************)
LEMMA TypeNext == TypeOK /\ [Next]_vars => TypeOK'
<1> SUFFICES ASSUME TypeOK, [Next]_vars PROVE TypeOK'
  OBVIOUS
<1>1. ASSUME NEW i \in Inputs, Collect(i) PROVE TypeOK'
  BY <1>1 DEF TypeOK, Collect, schedVars, taskVars
<1>2. ASSUME NEW t \in threads, NEW ret \in Results, flb_output_return(t, ret)
      PROVE  TypeOK'
  <2>1. t \in Threads /\ id[t.task] \in Ids
    BY <1>2 DEF TypeOK, Threads
  <2>2. [ret |-> ret, task_id |-> id[t.task], thread_id |-> t.id] \in Events
    BY <2>1 DEF Events, Threads
  <2>3. pipe' \in Seq(Events)
    BY <1>2, <2>2 DEF TypeOK, flb_output_return
  <2> QED
    BY <1>2, <2>3 DEF TypeOK, flb_output_return, schedVars, taskVars, loopVars
<1>3. CASE flb_engine_exit
  <2>1. StopEvent \in Events
    BY TaskAssumption DEF TaskAssumption, StopEvent, Events, Ids
  <2>2. pipe' \in Seq(Events)
    BY <1>3, <2>1 DEF TypeOK, flb_engine_exit
  <2> QED
    BY <1>3, <2>2 DEF TypeOK, flb_engine_exit, schedVars, taskVars
<1>4. ASSUME NEW T \in SUBSET requests, mk_event_wait(T) PROVE TypeOK'
  BY <1>4 DEF TypeOK, mk_event_wait, schedVars, taskVars
<1>5. CASE HandleFlush
  BY <1>5 DEF TypeOK, HandleFlush, schedVars, taskVars
<1>6. ASSUME NEW i \in Inputs, DispatchNothing(i) PROVE TypeOK'
  BY <1>6 DEF TypeOK, DispatchNothing, Dispatching, schedVars, taskVars
<1>7. ASSUME NEW i \in Inputs, DispatchDropped(i) PROVE TypeOK'
  BY <1>7 DEF TypeOK, DispatchDropped, Dispatching, schedVars, taskVars
<1>8. ASSUME NEW i \in Inputs, DispatchTask(i) PROVE TypeOK'
  <2>1. PICK p \in Unused, k \in Ids :
               /\ flb_task_create(p, k, i)
               /\ active' = active \union NewThreads(p, i)
    BY <1>8 DEF DispatchTask
  <2>2. p \in Tasks
    BY DEF Unused
  <2>3. Dispatching(i)
    BY <1>8 DEF DispatchTask
  <2>4. /\ threads' \subseteq Threads /\ active' \subseteq Threads
    BY <2>1, <2>2, NewThreadsType DEF TypeOK, flb_task_create
  <2>5. /\ tasks_map' \in [Ids -> Tasks \union {NoTask}]
        /\ status' \in [Tasks -> {"unused", "running", "freed"}]
        /\ id' \in [Tasks -> Ids] /\ i_ins' \in [Tasks -> Inputs]
        /\ UNCHANGED retries
    BY <2>1, <2>2 DEF TypeOK, flb_task_create
  <2>6. Len(Routes[i]) \in Nat
    BY TaskAssumption DEF TaskAssumption
  <2>7. users' \in [Tasks -> Int] /\ n_threads' \in [Tasks -> Nat]
    BY <2>1, <2>2, <2>6 DEF TypeOK, flb_task_create
  <2> QED
    BY <2>3, <2>4, <2>5, <2>7 DEF TypeOK, Dispatching, schedVars
<1>9. ASSUME NEW t \in threads, TaskOk(t) PROVE TypeOK'
  <2>1. "ok" \in Final
    BY DEF Final
  <2> QED
    BY <1>9, <2>1, ReleaseType, ResultType, SettledType, WithoutRetryType
    DEF TypeOK, TaskOk
<1>10. ASSUME NEW t \in threads, TaskError(t) PROVE TypeOK'
  <2>1. "error" \in Final
    BY DEF Final
  <2>2. /\ retries \in [Tasks -> [Outputs -> Nat]]
        /\ requests \subseteq Tasks \X Outputs
    BY DEF TypeOK
  <2> QED
    BY <1>10, <2>1, <2>2, ReleaseType, ResultType, SettledType
    DEF TypeOK, TaskError
<1>11. ASSUME NEW t \in threads, TaskRetryRefused(t) PROVE TypeOK'
  <2>1. "exhausted" \in Final
    BY DEF Final
  <2> QED
    BY <1>11, <2>1, ReleaseType, ResultType, SettledType, WithoutRetryType
    DEF TypeOK, TaskRetryRefused
<1>12. ASSUME NEW t \in threads, TaskRetry(t) PROVE TypeOK'
  <2>1. t.task \in Tasks /\ t.out \in Outputs
    BY WithoutRetryType
  <2>2. /\ requests' \subseteq Tasks \X Outputs
        /\ requests_wait' \subseteq Tasks \X Outputs
    BY <1>12, <2>1
    DEF TypeOK, TaskRetry, flb_sched_request_create, schedule_request_now,
        schedule_request_wait
  <2>3. retries' \in [Tasks -> [Outputs -> Nat]]
    BY <1>12, <2>1 DEF TypeOK, TaskRetry, flb_task_retry_create
  <2>4. /\ users' \in [Tasks -> Int] /\ threads' \subseteq Threads
        /\ UNCHANGED <<tasks_map, status, id, i_ins, n_threads, outcome>>
        /\ TaskResult("RETRY", t)
    BY <1>12, <2>1 DEF TypeOK, TaskRetry
  <2> QED
    BY <2>2, <2>3, <2>4, ResultType DEF TypeOK
<1>13. ASSUME NEW t \in threads, TaskRetryUnscheduled(t) PROVE TypeOK'
  <2>1. "unscheduled" \in Final
    BY DEF Final
  <2> QED
    BY <1>13, <2>1, ReleaseType, ResultType, SettledType, WithoutRetryType
    DEF TypeOK, TaskRetryUnscheduled
<1>14. CASE ManagerStop
  BY <1>14, TailType DEF TypeOK, ManagerStop, ManagerReads, schedVars, taskVars
<1>15. ASSUME NEW due \in SUBSET requests_wait, NEW refused \in SUBSET due,
              HandleFrame(due, refused)
       PROVE  TypeOK'
  BY <1>15
  DEF TypeOK, HandleFrame, schedule_request_promote, taskVars, loopVars
<1>16. ASSUME NEW r \in timers, HandleTimer(r) PROVE TypeOK'
  <2>1. /\ r[1] \in Tasks /\ r[2] \in Outputs
        /\ n_threads[r[1]] \in Nat
    BY DEF TypeOK
  <2>2. [task |-> r[1], id |-> n_threads[r[1]], out |-> r[2]] \in Threads
    BY <2>1 DEF Threads
  <2> QED
    BY <1>16, <2>1, <2>2
    DEF TypeOK, HandleTimer, HandlingTimer, flb_task_add_thread
<1>17. ASSUME NEW r \in timers, HandleTimerFreed(r) PROVE TypeOK'
  BY <1>17 DEF TypeOK, HandleTimerFreed, HandlingTimer, schedVars, taskVars
<1>18. CASE flb_engine_shutdown
  BY <1>18 DEF TypeOK, flb_engine_shutdown
<1>19. CASE UNCHANGED vars
  BY <1>19 DEF TypeOK, vars, schedVars, taskVars, loopVars
<1> QED
  BY <1>1, <1>2, <1>3, <1>4, <1>5, <1>6, <1>7, <1>8, <1>9, <1>10, <1>11,
     <1>12, <1>13, <1>14, <1>15, <1>16, <1>17, <1>18, <1>19 DEF Next

(***************************************************************************)
(* The engine's variables keep their types for ever.                       *)
(***************************************************************************)
THEOREM TypeCorrect == Spec => []TypeOK
BY TypeInit, TypeNext, PTL DEF Spec
-------------------------------------------------------------------------------
(* The inductive invariant.                                                *)

LEMMA InvInit == Init => EngineInv
<1> SUFFICES ASSUME Init PROVE EngineInv
  OBVIOUS
<1>1. Live = {} /\ threads = {} /\ active = {} /\ pipe = <<>>
  BY DEF Init, TaskInit, Live
<1>2. MapInv
  BY <1>1 DEF MapInv, Init, TaskInit
<1>3. ThreadInv
  BY <1>1 DEF ThreadInv
<1>4. UserInv
  BY <1>1, FS_EmptySet DEF UserInv, UsersCountThreads
<1>5. RouteInv
  <2>1. Pending = {}
    BY DEF Init, Pending
  <2>2. \A p \in Tasks, o \in Outputs :
          retries[p][o] = 0 /\ outcome[p][o] = "none"
    BY DEF Init, TaskInit
  <2>3. Unused \subseteq Tasks
    BY DEF Unused
  <2> QED
    BY <1>1, <2>1, <2>2, <2>3 DEF RouteInv
<1>6. PipeInv
  BY <1>1 DEF PipeInv
<1> QED
  BY <1>2, <1>3, <1>4, <1>5, <1>6 DEF EngineInv

\* A step that leaves the state of tasks, threads and requests alone.
LEMMA InvSame ==
  ASSUME EngineInv,
         UNCHANGED <<schedVars, taskVars, active, pipe, outcome>>,
         engine = "stopped" => engine' = "stopped"
  PROVE  EngineInv'
<1>1. /\ Live' = Live /\ Unused' = Unused /\ Pending' = Pending
      /\ \A p \in Tasks : ThreadsOf(p)' = ThreadsOf(p)
  BY DEF Live, Unused, Pending, ThreadsOf, schedVars, taskVars
<1>2. /\ UNCHANGED <<requests, requests_wait, tasks_map, id, users, n_threads,
                     retries, threads, active, pipe, outcome>>
  BY DEF schedVars, taskVars
<1>3. MapInv'
  BY <1>1, <1>2 DEF EngineInv, MapInv
<1>4. ThreadInv'
  BY <1>1, <1>2 DEF EngineInv, ThreadInv
<1>5. UserInv'
  BY <1>1, <1>2 DEF EngineInv, UserInv, UsersCountThreads, Live
<1>6. RouteInv'
  BY <1>1, <1>2 DEF EngineInv, RouteInv
<1>7. PipeInv'
  BY <1>2 DEF EngineInv, PipeInv, Names
<1> QED
  BY <1>3, <1>4, <1>5, <1>6, <1>7 DEF EngineInv

\* What a result at the head of the pipe says of the thread it names.
LEMMA HeadThread ==
  ASSUME TypeOK, EngineInv, NEW ret \in Results, NEW t \in threads,
         TaskResult(ret, t)
  PROVE  /\ t \notin active
         /\ \A k \in 2..Len(pipe) : pipe[k].ret # "STOP" =>
              \E u \in threads \ active : u # t /\ Names(pipe[k], u)
<1> DEFINE e == pipe[1]
<1>1. /\ Len(pipe) \in Nat /\ 1 \in 1..Len(pipe) /\ Head(pipe) = e
      /\ e.ret # "STOP" /\ Names(e, t)
      /\ engine = "running"
  BY DEF TypeOK, TaskResult, ManagerReads, Idle, Names, Results
<1>2. PICK u \in threads \ active : Names(e, u)
  BY <1>1 DEF EngineInv, PipeInv
<1>3. u = t
  BY <1>1, <1>2 DEF EngineInv, ThreadInv, Names
<1>4. ASSUME NEW k \in 2..Len(pipe), pipe[k].ret # "STOP"
      PROVE  \E v \in threads \ active : v # t /\ Names(pipe[k], v)
  <2>1. k \in 1..Len(pipe) /\ k # 1
    BY <1>1
  <2>2. PICK v \in threads \ active : Names(pipe[k], v)
    BY <1>1, <1>4, <2>1 DEF EngineInv, PipeInv
  <2>3. pipe[k].task_id \in Ids /\ e.task_id \in Ids
    <3>1. pipe[k] \in Events /\ e \in Events
      BY <1>1, <2>1 DEF TypeOK
    <3> QED
      BY <3>1 DEF Events
  <2>4. ASSUME v = t PROVE FALSE
    <3>1. tasks_map[pipe[k].task_id] = t.task /\ tasks_map[e.task_id] = t.task
      BY <1>1, <2>2, <2>4 DEF Names
    <3>2. t.task # NoTask
      BY TaskAssumption DEF TaskAssumption, TypeOK, Threads
    <3>3. pipe[k].task_id = e.task_id
      BY <2>3, <3>1, <3>2 DEF EngineInv, MapInv
    <3>4. pipe[k].thread_id = e.thread_id
      BY <1>1, <2>2, <2>4 DEF Names
    <3> QED
      BY <1>1, <1>4, <2>1, <3>3, <3>4 DEF EngineInv, PipeInv
  <2> QED
    BY <2>2, <2>4
<1> QED
  BY <1>2, <1>3, <1>4

\* The last user of a task is its only thread.
LEMMA LastUser ==
  ASSUME EngineInv, NEW t \in threads, users[t.task] = 1
  PROVE  ThreadsOf(t.task) = {t}
<1>1. /\ t.task \in Live
      /\ IsFiniteSet(threads)
      /\ Cardinality(ThreadsOf(t.task)) = 1
  BY DEF EngineInv, ThreadInv, UserInv, UsersCountThreads
<1>2. IsFiniteSet(ThreadsOf(t.task))
  BY <1>1, FS_Subset DEF ThreadsOf
<1>3. \E x : ThreadsOf(t.task) = {x}
  BY <1>1, <1>2, FS_Singleton
<1>4. t \in ThreadsOf(t.task)
  BY DEF ThreadsOf
<1> QED
  BY <1>3, <1>4

(***************************************************************************)
(* The end of a thread with a final result f keeps the invariant: its      *)
(* route is settled, its task loses a user and may go.                     *)
(***************************************************************************)
LEMMA InvRelease ==
  ASSUME TypeOK, EngineInv, NEW ret \in Results, NEW t \in threads,
         TaskResult(ret, t),
         NEW rt \in [Tasks -> [Outputs -> Nat]],
         NEW rq \in SUBSET requests,
         \A p \in Tasks, o \in Outputs : rt[p][o] > 0 => retries[p][o] > 0,
         ReleaseUser(t, rt, rq),
         NEW f \in Final, Settled(t, f)
  PROVE  EngineInv'
<1> DEFINE P == IF users[t.task] = 1 THEN {t.task} ELSE {}
<1>1. /\ threads' = threads \ {t} /\ active' = active /\ engine' = engine
      /\ users' = [users EXCEPT ![t.task] = @ - 1]
      /\ UNCHANGED <<id, i_ins, n_threads, requests_wait>>
      /\ requests' \subseteq requests
      /\ tasks_map' = [k \in Ids |->
                        IF tasks_map[k] \in P THEN NoTask ELSE tasks_map[k]]
      /\ status' = [p \in Tasks |-> IF p \in P THEN "freed" ELSE status[p]]
      /\ retries' = [p \in Tasks |->
                       IF p \in P THEN [o \in Outputs |-> 0] ELSE rt[p]]
      /\ pipe' = Tail(pipe)
  BY DEF ReleaseUser, flb_task_destroy, flb_sched_request_invalidate,
         TaskResult, ManagerReads
<1>2. /\ t.task \in Live /\ t.task \in Tasks /\ t.out \in Outputs
      /\ t.id \in Nat
  BY WithoutRetryType DEF EngineInv, ThreadInv
<1>3. Live' = Live \ P /\ Unused' = Unused
  BY <1>1, <1>2 DEF Live, Unused
<1>4. \A u \in threads' : u \in threads /\ u # t /\ u.task \notin P
  BY <1>1, LastUser DEF ThreadsOf
<1>5. Pending' \subseteq Pending
  BY <1>1 DEF Pending
<1>6. MapInv'
  BY <1>1, <1>3, TaskAssumption
  DEF TaskAssumption, EngineInv, MapInv, TypeOK, Live
<1>7. ThreadInv'
  <2>1. active \subseteq threads'
    BY <1>1, HeadThread DEF EngineInv, ThreadInv
  <2> QED
    BY <1>1, <1>3, <1>4, <2>1 DEF EngineInv, ThreadInv
<1>8. UserInv'
  <2>1. IsFiniteSet(threads')
    BY <1>1, FS_RemoveElement DEF EngineInv, UserInv
  <2>2. ASSUME NEW p \in Live' PROVE users'[p] = Cardinality(ThreadsOf(p)')
    <3>1. /\ p \in Live /\ p \in Tasks
          /\ users[p] = Cardinality(ThreadsOf(p))
          /\ IsFiniteSet(ThreadsOf(p))
      BY <1>3, <2>2, FS_Subset
      DEF EngineInv, UserInv, UsersCountThreads, ThreadsOf, Live
    <3>2. CASE p = t.task
      <4>1. ThreadsOf(p)' = ThreadsOf(p) \ {t} /\ t \in ThreadsOf(p)
        BY <1>1, <3>2 DEF ThreadsOf
      <4>2. Cardinality(ThreadsOf(p)') = Cardinality(ThreadsOf(p)) - 1
        BY <3>1, <4>1, FS_RemoveElement
      <4>3. users'[p] = users[p] - 1
        BY <1>1, <1>2, <3>2 DEF TypeOK
      <4> QED
        BY <3>1, <4>2, <4>3
    <3>3. CASE p # t.task
      <4>1. ThreadsOf(p)' = ThreadsOf(p)
        BY <1>1, <3>3 DEF ThreadsOf
      <4>2. users'[p] = users[p]
        BY <1>1, <3>1, <3>3 DEF TypeOK
      <4> QED
        BY <3>1, <4>1, <4>2
    <3> QED
      BY <3>2, <3>3
  <2> QED
    BY <2>1, <2>2 DEF UserInv, UsersCountThreads
<1>9. RouteInv'
  <2>1. /\ \A p \in Tasks, o \in Outputs :
             <<p, o>> # <<t.task, t.out>> => outcome'[p][o] = outcome[p][o]
    BY <1>2 DEF Settled, TypeOK
  <2>2. \A p \in Tasks, o \in Outputs : retries'[p][o] > 0 => p \in Live'
    BY <1>1, <1>3 DEF EngineInv, RouteInv
  <2>3. \A p \in Unused, o \in Outputs :
          <<p, o>> \notin Pending' /\ outcome'[p][o] = "none"
    <3>1. \A p \in Unused : p \in Tasks /\ p # t.task
      BY <1>2 DEF Unused, Live
    <3>2. \A p \in Unused, o \in Outputs : outcome'[p][o] = outcome[p][o]
      BY <2>1, <3>1
    <3>3. \A p \in Unused, o \in Outputs :
            <<p, o>> \notin Pending /\ outcome[p][o] = "none"
      BY DEF EngineInv, RouteInv
    <3> HIDE DEF Pending
    <3> QED
      BY <1>5, <3>2, <3>3
  <2>4. \A u \in threads' : /\ <<u.task, u.out>> \notin Pending'
                            /\ outcome'[u.task][u.out] = "none"
    <3> SUFFICES ASSUME NEW u \in threads'
                 PROVE  /\ <<u.task, u.out>> \notin Pending'
                        /\ outcome'[u.task][u.out] = "none"
      OBVIOUS
    <3>1. u \in threads /\ u # t /\ u.task \in Tasks /\ u.out \in Outputs
      BY <1>4 DEF TypeOK, Threads
    <3>2. <<u.task, u.out>> # <<t.task, t.out>>
      BY <3>1 DEF EngineInv, ThreadInv
    <3> QED
      BY <1>5, <2>1, <3>1, <3>2 DEF EngineInv, RouteInv
  <2>5. \A p \in Live', o \in Outputs : <<p, o>> \in Pending' =>
          /\ outcome'[p][o] = "none"
          /\ <<p, o>> \notin requests' \intersect requests_wait'
    <3> SUFFICES ASSUME NEW p \in Live', NEW o \in Outputs,
                        <<p, o>> \in Pending'
                 PROVE  /\ outcome'[p][o] = "none"
                        /\ <<p, o>> \notin requests' \intersect requests_wait'
      OBVIOUS
    <3>1. p \in Live /\ p \in Tasks /\ <<p, o>> \in Pending
      BY <1>3, <1>5 DEF Live
    <3>2. <<p, o>> # <<t.task, t.out>>
      BY <3>1 DEF EngineInv, RouteInv
    <3>3. outcome[p][o] = "none" /\ <<p, o>> \notin requests \intersect requests_wait
      BY <3>1 DEF EngineInv, RouteInv
    <3>4. outcome'[p][o] = "none"
      BY <2>1, <3>1, <3>2, <3>3
    <3>5. <<p, o>> \notin requests' \intersect requests_wait'
      BY <1>1, <3>3
    <3> QED
      BY <3>4, <3>5
  <2> QED
    BY <1>3, <2>2, <2>3, <2>4, <2>5 DEF RouteInv
<1>10. PipeInv'
  <2>1. /\ Len(pipe) \in Nat /\ Len(pipe') = Len(pipe) - 1
        /\ \A k \in 1..Len(pipe') : pipe'[k] = pipe[k + 1]
        /\ \A k \in 1..Len(pipe') : k + 1 \in 2..Len(pipe)
        /\ engine = "running"
    BY <1>1 DEF TypeOK, TaskResult, ManagerReads, Idle
  <2>2. ASSUME NEW k \in 1..Len(pipe'), pipe'[k].ret # "STOP"
        PROVE  \E u \in threads' \ active' : Names(pipe[k], u)'
    <3>1. PICK u \in threads \ active : u # t /\ Names(pipe[k + 1], u)
      BY <2>1, <2>2, HeadThread
    <3>2. u \in threads' \ active' /\ u.task \notin P
      BY <1>1, <1>4, <3>1
    <3>3. pipe[k + 1].task_id \in Ids
      <4>1. pipe[k + 1] \in Events
        BY <2>1 DEF TypeOK
      <4> QED
        BY <4>1 DEF Events
    <3>4. Names(pipe[k], u)'
      BY <1>1, <2>1, <3>1, <3>2, <3>3 DEF Names
    <3> QED
      BY <3>2, <3>4
  <2>3. ASSUME NEW j \in 1..Len(pipe'), NEW k \in 1..Len(pipe'),
               pipe'[j].ret # "STOP", pipe'[k].ret # "STOP",
               pipe'[j].task_id = pipe'[k].task_id,
               pipe'[j].thread_id = pipe'[k].thread_id
        PROVE  j = k
    <3>1. j + 1 \in 1..Len(pipe) /\ k + 1 \in 1..Len(pipe)
      BY <2>1
    <3>2. j + 1 = k + 1
      BY <2>1, <2>3, <3>1 DEF EngineInv, PipeInv
    <3> QED
      BY <2>1, <3>2
  <2> QED
    BY <2>2, <2>3 DEF PipeInv
<1> QED
  BY <1>6, <1>7, <1>8, <1>9, <1>10 DEF EngineInv

\* A result keeps the pipe's invariant when only its own thread goes.
LEMMA InvRetry ==
  ASSUME TypeOK, EngineInv, NEW t \in threads, TaskRetry(t)
  PROVE  EngineInv'
<1>1. /\ threads' = threads \ {t} /\ active' = active /\ engine' = engine
      /\ users' = [users EXCEPT ![t.task] = @ - 1]
      /\ UNCHANGED <<tasks_map, status, id, i_ins, n_threads, outcome>>
      /\ retries' = [retries EXCEPT ![t.task][t.out] = @ + 1]
      /\ pipe' = Tail(pipe)
      /\ TaskResult("RETRY", t)
      /\ "RETRY" \in Results
  BY DEF TaskRetry, flb_task_retry_create, TaskResult, ManagerReads, Results
<1>2. /\ t.task \in Live /\ t.task \in Tasks /\ t.out \in Outputs
      /\ t.id \in Nat
  BY WithoutRetryType DEF EngineInv, ThreadInv
<1>3. Live' = Live /\ Unused' = Unused
  BY <1>1 DEF Live, Unused
<1>4. /\ Pending' = Pending \union {<<t.task, t.out>>}
      /\ \/ requests' = requests \union {<<t.task, t.out>>}
            /\ requests_wait' = requests_wait
         \/ requests_wait' = requests_wait \union {<<t.task, t.out>>}
            /\ requests' = requests
  BY DEF TaskRetry, flb_sched_request_create, schedule_request_now,
         schedule_request_wait, Pending
<1>5. \A u \in threads' : u \in threads /\ u # t
  BY <1>1
<1>6. MapInv'
  BY <1>1, <1>3 DEF EngineInv, MapInv
<1>7. ThreadInv'
  <2>1. active \subseteq threads'
    BY <1>1, HeadThread DEF EngineInv, ThreadInv
  <2> QED
    BY <1>1, <1>3, <1>5, <2>1 DEF EngineInv, ThreadInv
<1>8. UserInv'
  <2>1. IsFiniteSet(threads')
    BY <1>1, FS_RemoveElement DEF EngineInv, UserInv
  <2>2. ASSUME NEW p \in Live' PROVE users'[p] = Cardinality(ThreadsOf(p)')
    <3>1. /\ p \in Live /\ p \in Tasks
          /\ users[p] = Cardinality(ThreadsOf(p))
          /\ IsFiniteSet(ThreadsOf(p))
      BY <1>3, <2>2, FS_Subset
      DEF EngineInv, UserInv, UsersCountThreads, ThreadsOf, Live
    <3>2. CASE p = t.task
      <4>1. ThreadsOf(p)' = ThreadsOf(p) \ {t} /\ t \in ThreadsOf(p)
        BY <1>1, <3>2 DEF ThreadsOf
      <4>2. Cardinality(ThreadsOf(p)') = Cardinality(ThreadsOf(p)) - 1
        BY <3>1, <4>1, FS_RemoveElement
      <4>3. users'[p] = users[p] - 1
        BY <1>1, <1>2, <3>2 DEF TypeOK
      <4> QED
        BY <3>1, <4>2, <4>3
    <3>3. CASE p # t.task
      <4>1. ThreadsOf(p)' = ThreadsOf(p)
        BY <1>1, <3>3 DEF ThreadsOf
      <4>2. users'[p] = users[p]
        BY <1>1, <3>1, <3>3 DEF TypeOK
      <4> QED
        BY <3>1, <4>1, <4>2
    <3> QED
      BY <3>2, <3>3
  <2> QED
    BY <2>1, <2>2 DEF UserInv, UsersCountThreads
<1>9. RouteInv'
  <2>1. \A p \in Tasks, o \in Outputs : retries'[p][o] > 0 => p \in Live
    BY <1>1, <1>2 DEF EngineInv, RouteInv, TypeOK
  <2>2. \A p \in Unused, o \in Outputs : <<p, o>> \notin Pending'
    <3>1. \A p \in Unused : p # t.task
      BY <1>2 DEF Unused, Live
    <3>2. \A p \in Unused, o \in Outputs : <<p, o>> \notin Pending
      BY DEF EngineInv, RouteInv
    <3> QED
      BY <1>4, <3>1, <3>2
  <2>3. \A u \in threads' : <<u.task, u.out>> \notin Pending'
    <3>1. \A u \in threads' : <<u.task, u.out>> # <<t.task, t.out>>
      BY <1>5 DEF EngineInv, ThreadInv
    <3>2. \A u \in threads : <<u.task, u.out>> \notin Pending
      BY DEF EngineInv, RouteInv
    <3> QED
      BY <1>4, <1>5, <3>1, <3>2
  <2>4. \A p \in Live, o \in Outputs : <<p, o>> \in Pending' =>
          /\ outcome[p][o] = "none"
          /\ <<p, o>> \notin requests' \intersect requests_wait'
    <3> SUFFICES ASSUME NEW p \in Live, NEW o \in Outputs,
                        <<p, o>> \in Pending'
                 PROVE  /\ outcome[p][o] = "none"
                        /\ <<p, o>> \notin requests' \intersect requests_wait'
      OBVIOUS
    <3>1. CASE <<p, o>> = <<t.task, t.out>>
      <4>1. <<t.task, t.out>> \notin requests \union requests_wait
        BY DEF EngineInv, RouteInv, Pending
      <4>2. outcome[t.task][t.out] = "none"
        BY DEF EngineInv, RouteInv
      <4> QED
        BY <1>4, <3>1, <4>1, <4>2
    <3>2. CASE <<p, o>> # <<t.task, t.out>>
      <4>1. <<p, o>> \in Pending
        BY <1>4, <3>2
      <4>2. /\ outcome[p][o] = "none"
            /\ <<p, o>> \notin requests \intersect requests_wait
        BY <4>1 DEF EngineInv, RouteInv
      <4> QED
        BY <1>4, <3>2, <4>2
    <3> QED
      BY <3>1, <3>2
  <2> QED
    BY <1>1, <1>3, <1>5, <2>1, <2>2, <2>3, <2>4 DEF EngineInv, RouteInv
<1>10. PipeInv'
  <2>1. /\ Len(pipe) \in Nat /\ Len(pipe') = Len(pipe) - 1
        /\ \A k \in 1..Len(pipe') : pipe'[k] = pipe[k + 1]
        /\ \A k \in 1..Len(pipe') : k + 1 \in 2..Len(pipe)
        /\ engine = "running"
    BY <1>1 DEF TypeOK, TaskResult, ManagerReads, Idle
  <2>2. ASSUME NEW k \in 1..Len(pipe'), pipe'[k].ret # "STOP"
        PROVE  \E u \in threads' \ active' : Names(pipe[k], u)'
    <3>1. PICK u \in threads \ active : u # t /\ Names(pipe[k + 1], u)
      BY <1>1, <2>1, <2>2, HeadThread
    <3>2. u \in threads' \ active' /\ Names(pipe[k], u)'
      BY <1>1, <2>1, <3>1 DEF Names
    <3> QED
      BY <3>2
  <2>3. ASSUME NEW j \in 1..Len(pipe'), NEW k \in 1..Len(pipe'),
               pipe'[j].ret # "STOP", pipe'[k].ret # "STOP",
               pipe'[j].task_id = pipe'[k].task_id,
               pipe'[j].thread_id = pipe'[k].thread_id
        PROVE  j = k
    <3>1. j + 1 \in 1..Len(pipe) /\ k + 1 \in 1..Len(pipe)
      BY <2>1
    <3>2. j + 1 = k + 1
      BY <2>1, <2>3, <3>1 DEF EngineInv, PipeInv
    <3> QED
      BY <2>1, <3>2
  <2> QED
    BY <2>2, <2>3 DEF PipeInv
<1> QED
  BY <1>6, <1>7, <1>8, <1>9, <1>10 DEF EngineInv

\* A co-routine reports its result: one more event, for a thread of its own.
LEMMA InvReturn ==
  ASSUME TypeOK, EngineInv, NEW t \in threads, NEW ret \in Results,
         flb_output_return(t, ret)
  PROVE  EngineInv'
<1> DEFINE e == [ret |-> ret, task_id |-> id[t.task], thread_id |-> t.id]
<1>1. /\ t \in active /\ active' = active \ {t} /\ pipe' = Append(pipe, e)
      /\ UNCHANGED <<requests, requests_wait, tasks_map, status, id, i_ins,
                     users, n_threads, retries, threads, outcome, engine>>
      /\ engine = "running"
  BY DEF flb_output_return, schedVars, taskVars, loopVars
<1>2. /\ Live' = Live /\ Unused' = Unused /\ Pending' = Pending
      /\ \A p \in Tasks : ThreadsOf(p)' = ThreadsOf(p)
  BY <1>1 DEF Live, Unused, Pending, ThreadsOf
<1>3. MapInv'
  BY <1>1, <1>2 DEF EngineInv, MapInv
<1>4. ThreadInv'
  BY <1>1, <1>2 DEF EngineInv, ThreadInv
<1>5. UserInv'
  BY <1>1, <1>2 DEF EngineInv, UserInv, UsersCountThreads, Live
<1>6. RouteInv'
  BY <1>1, <1>2 DEF EngineInv, RouteInv
<1>7. PipeInv'
  <2>1. /\ Len(pipe) \in Nat /\ Len(pipe') = Len(pipe) + 1
        /\ \A k \in 1..Len(pipe) : pipe'[k] = pipe[k]
        /\ pipe'[Len(pipe) + 1] = e
    BY <1>1 DEF TypeOK
  <2>2. tasks_map[id[t.task]] = t.task
    BY DEF EngineInv, MapInv, ThreadInv
  <2>3. ASSUME NEW k \in 1..Len(pipe), pipe[k].ret # "STOP",
               pipe[k].task_id = e.task_id, pipe[k].thread_id = e.thread_id
        PROVE  FALSE
    <3>1. PICK u \in threads \ active : Names(pipe[k], u)
      BY <1>1, <2>3 DEF EngineInv, PipeInv
    <3>2. u.task = t.task /\ u.id = t.id
      BY <2>2, <2>3, <3>1 DEF Names
    <3>3. u = t
      BY <3>1, <3>2 DEF EngineInv, ThreadInv
    <3> QED
      BY <1>1, <3>1, <3>3
  <2>4. ASSUME NEW k \in 1..Len(pipe'), pipe'[k].ret # "STOP"
        PROVE  \E u \in threads' \ active' : Names(pipe[k], u)'
    <3>1. CASE k = Len(pipe) + 1
      <4>1. t \in threads' \ active' /\ Names(pipe[k], t)'
        BY <1>1, <2>1, <2>2, <2>4, <3>1 DEF Names
      <4> QED
        BY <4>1
    <3>2. CASE k \in 1..Len(pipe)
      <4>1. PICK u \in threads \ active : Names(pipe[k], u)
        BY <1>1, <2>1, <2>4, <3>2 DEF EngineInv, PipeInv
      <4>2. u \in threads' \ active' /\ Names(pipe[k], u)'
        BY <1>1, <2>1, <3>2, <4>1 DEF Names
      <4> QED
        BY <4>2
    <3> QED
      BY <2>1, <3>1, <3>2
  <2>5. ASSUME NEW j \in 1..Len(pipe'), NEW k \in 1..Len(pipe'),
               pipe'[j].ret # "STOP", pipe'[k].ret # "STOP",
               pipe'[j].task_id = pipe'[k].task_id,
               pipe'[j].thread_id = pipe'[k].thread_id
        PROVE  j = k
    <3>1. CASE j \in 1..Len(pipe) /\ k \in 1..Len(pipe)
      BY <1>1, <2>1, <2>5, <3>1 DEF EngineInv, PipeInv
    <3>2. CASE j \notin 1..Len(pipe) \/ k \notin 1..Len(pipe)
      BY <2>1, <2>3, <2>5, <3>2
    <3> QED
      BY <3>1, <3>2
  <2> QED
    BY <2>4, <2>5 DEF PipeInv
<1> QED
  BY <1>3, <1>4, <1>5, <1>6, <1>7 DEF EngineInv

\* STOP is written to the pipe: no thread is named by it.
LEMMA InvExit ==
  ASSUME TypeOK, EngineInv, flb_engine_exit
  PROVE  EngineInv'
<1>1. /\ pipe' = Append(pipe, StopEvent) /\ engine = "running"
      /\ UNCHANGED <<requests, requests_wait, tasks_map, status, id, i_ins,
                     users, n_threads, retries, threads, active, outcome,
                     engine>>
  BY DEF flb_engine_exit, schedVars, taskVars
<1>2. /\ Live' = Live /\ Unused' = Unused /\ Pending' = Pending
      /\ \A p \in Tasks : ThreadsOf(p)' = ThreadsOf(p)
  BY <1>1 DEF Live, Unused, Pending, ThreadsOf
<1>3. MapInv'
  BY <1>1, <1>2 DEF EngineInv, MapInv
<1>4. ThreadInv'
  BY <1>1, <1>2 DEF EngineInv, ThreadInv
<1>5. UserInv'
  BY <1>1, <1>2 DEF EngineInv, UserInv, UsersCountThreads, Live
<1>6. RouteInv'
  BY <1>1, <1>2 DEF EngineInv, RouteInv
<1>7. PipeInv'
  <2>1. /\ Len(pipe) \in Nat /\ Len(pipe') = Len(pipe) + 1
        /\ \A k \in 1..Len(pipe) : pipe'[k] = pipe[k]
        /\ pipe'[Len(pipe) + 1].ret = "STOP"
    BY <1>1 DEF TypeOK, StopEvent
  <2>2. \A k \in 1..Len(pipe') : pipe'[k].ret # "STOP" => k \in 1..Len(pipe)
    BY <2>1
  <2> QED
    BY <1>1, <2>1, <2>2 DEF EngineInv, PipeInv, Names
<1> QED
  BY <1>3, <1>4, <1>5, <1>6, <1>7 DEF EngineInv

\* STOP is read from the pipe: the results behind it move up.
LEMMA InvStop ==
  ASSUME TypeOK, EngineInv, ManagerStop
  PROVE  EngineInv'
<1>1. /\ pipe' = Tail(pipe) /\ pipe # <<>> /\ engine = "running"
      /\ UNCHANGED <<requests, requests_wait, tasks_map, status, id, i_ins,
                     users, n_threads, retries, threads, active, outcome,
                     engine>>
  BY DEF ManagerStop, ManagerReads, Idle, schedVars, taskVars
<1>2. /\ Live' = Live /\ Unused' = Unused /\ Pending' = Pending
      /\ \A p \in Tasks : ThreadsOf(p)' = ThreadsOf(p)
  BY <1>1 DEF Live, Unused, Pending, ThreadsOf
<1>3. MapInv'
  BY <1>1, <1>2 DEF EngineInv, MapInv
<1>4. ThreadInv'
  BY <1>1, <1>2 DEF EngineInv, ThreadInv
<1>5. UserInv'
  BY <1>1, <1>2 DEF EngineInv, UserInv, UsersCountThreads, Live
<1>6. RouteInv'
  BY <1>1, <1>2 DEF EngineInv, RouteInv
<1>7. PipeInv'
  <2>1. /\ Len(pipe) \in Nat /\ Len(pipe') = Len(pipe) - 1
        /\ \A k \in 1..Len(pipe') : pipe'[k] = pipe[k + 1]
        /\ \A k \in 1..Len(pipe') : k + 1 \in 1..Len(pipe)
    BY <1>1 DEF TypeOK
  <2>2. ASSUME NEW k \in 1..Len(pipe'), pipe'[k].ret # "STOP"
        PROVE  \E u \in threads' \ active' : Names(pipe[k], u)'
    BY <1>1, <2>1, <2>2 DEF EngineInv, PipeInv, Names
  <2>3. ASSUME NEW j \in 1..Len(pipe'), NEW k \in 1..Len(pipe'),
               pipe'[j].ret # "STOP", pipe'[k].ret # "STOP",
               pipe'[j].task_id = pipe'[k].task_id,
               pipe'[j].thread_id = pipe'[k].thread_id
        PROVE  j = k
    <3>1. j + 1 = k + 1
      BY <1>1, <2>1, <2>3 DEF EngineInv, PipeInv
    <3> QED
      BY <2>1, <3>1
  <2> QED
    BY <2>2, <2>3 DEF PipeInv
<1> QED
  BY <1>3, <1>4, <1>5, <1>6, <1>7 DEF EngineInv

\* Requests that come into the frame change lists; some may be lost.
LEMMA InvFrame ==
  ASSUME TypeOK, EngineInv, NEW due, NEW refused, HandleFrame(due, refused)
  PROVE  EngineInv'
<1>1. /\ due \subseteq requests_wait /\ refused \subseteq due
      /\ requests' = requests \union (due \ refused)
      /\ requests_wait' = requests_wait \ due
      /\ UNCHANGED <<tasks_map, status, id, i_ins, users, n_threads, retries,
                     threads, active, pipe, outcome, engine>>
  BY DEF HandleFrame, schedule_request_promote, taskVars, loopVars
<1>2. /\ Live' = Live /\ Unused' = Unused /\ Pending' \subseteq Pending
      /\ \A p \in Tasks : ThreadsOf(p)' = ThreadsOf(p)
  BY <1>1 DEF Live, Unused, Pending, ThreadsOf
<1>3. MapInv'
  BY <1>1, <1>2 DEF EngineInv, MapInv
<1>4. ThreadInv'
  BY <1>1, <1>2 DEF EngineInv, ThreadInv
<1>5. UserInv'
  BY <1>1, <1>2 DEF EngineInv, UserInv, UsersCountThreads, Live
<1>6. RouteInv'
  <2>1. ASSUME NEW p \in Live, NEW o \in Outputs, <<p, o>> \in Pending'
        PROVE  /\ outcome[p][o] = "none"
               /\ <<p, o>> \notin requests' \intersect requests_wait'
    <3>1. /\ outcome[p][o] = "none"
          /\ <<p, o>> \notin requests \intersect requests_wait
      BY <1>2, <2>1 DEF EngineInv, RouteInv
    <3> QED
      BY <1>1, <3>1
  <2>2. \A p \in Tasks, o \in Outputs : retries[p][o] > 0 => p \in Live
    BY DEF EngineInv, RouteInv
  <2>3. \A p \in Unused, o \in Outputs :
          <<p, o>> \notin Pending' /\ outcome[p][o] = "none"
    <3>1. \A p \in Unused, o \in Outputs :
            <<p, o>> \notin Pending /\ outcome[p][o] = "none"
      BY DEF EngineInv, RouteInv
    <3> QED
      BY <1>2, <3>1
  <2>4. \A t \in threads : /\ <<t.task, t.out>> \notin Pending'
                           /\ outcome[t.task][t.out] = "none"
    <3>1. \A t \in threads : /\ <<t.task, t.out>> \notin Pending
                             /\ outcome[t.task][t.out] = "none"
      BY DEF EngineInv, RouteInv
    <3> QED
      BY <1>2, <3>1
  <2> QED
    BY <1>1, <1>2, <2>1, <2>2, <2>3, <2>4 DEF RouteInv
<1>7. PipeInv'
  BY <1>1 DEF EngineInv, PipeInv, Names
<1> QED
  BY <1>3, <1>4, <1>5, <1>6, <1>7 DEF EngineInv

\* A retry starts a new thread, whose id no earlier thread of its task had.
LEMMA InvTimer ==
  ASSUME TypeOK, EngineInv, NEW r \in timers, HandleTimer(r)
  PROVE  EngineInv'
<1> DEFINE q == r[1]
           t == [task |-> q, id |-> n_threads[q], out |-> r[2]]
<1>1. /\ r \in requests /\ requests' = requests \ {r}
      /\ threads' = threads \union {t} /\ active' = active \union {t}
      /\ n_threads' = [n_threads EXCEPT ![q] = @ + 1]
      /\ users' = [users EXCEPT ![q] = @ + 1]
      /\ UNCHANGED <<requests_wait, tasks_map, status, id, i_ins, retries,
                     pipe, engine, outcome>>
      /\ engine = "running"
  BY DEF HandleTimer, HandlingTimer, flb_task_add_thread, Idle
<1>2. /\ q \in Tasks /\ r[2] \in Outputs /\ n_threads[q] \in Nat
      /\ r = <<q, r[2]>>
  BY DEF TypeOK
<1>3. q \in Live
  <2>1. retries[q][r[2]] > 0
    BY DEF HandleTimer
  <2> QED
    BY <1>2, <2>1 DEF EngineInv, RouteInv
<1>4. /\ Live' = Live /\ Unused' = Unused /\ Pending' \subseteq Pending
      /\ r \in Pending
  BY <1>1 DEF Live, Unused, Pending
<1>5. \A u \in threads : /\ u.task = q => u.id < n_threads[q]
                         /\ u.id \in Nat /\ u.task \in Tasks
                         /\ n_threads[u.task] \in Nat
                         /\ u.task = q => u.out # r[2]
  <2>1. \A u \in threads : u.id < n_threads[u.task]
    BY DEF EngineInv, ThreadInv
  <2>2. \A u \in threads : u.id \in Nat /\ u.task \in Tasks
    BY DEF TypeOK, Threads
  <2>3. \A u \in threads : <<u.task, u.out>> # r
    BY <1>4 DEF EngineInv, RouteInv
  <2> QED
    BY <1>2, <2>1, <2>2, <2>3 DEF TypeOK
<1>6. MapInv'
  BY <1>1, <1>4 DEF EngineInv, MapInv
<1>7. ThreadInv'
  <2>1. active' \subseteq threads'
    BY <1>1 DEF EngineInv, ThreadInv
  <2>2. ASSUME NEW u \in threads'
        PROVE  u.task \in Live' /\ u.id < n_threads'[u.task]
    <3>1. CASE u = t
      BY <1>1, <1>2, <1>3, <1>4, <3>1 DEF TypeOK
    <3>2. CASE u \in threads
      <4>1. u.task \in Live /\ u.id < n_threads[u.task]
        BY <3>2 DEF EngineInv, ThreadInv
      <4>2. n_threads'[u.task] >= n_threads[u.task]
        BY <1>1, <1>2, <1>5, <3>2 DEF TypeOK
      <4>3. n_threads'[u.task] \in Nat
        BY <1>1, <1>2, <1>5, <3>2 DEF TypeOK
      <4> QED
        BY <1>4, <1>5, <3>2, <4>1, <4>2, <4>3
    <3> QED
      BY <1>1, <3>1, <3>2
  <2>3. \A u \in threads : u.task = t.task => u.id # t.id /\ u.out # t.out
    BY <1>2, <1>5
  <2>4. \A u, v \in threads' : u.task = v.task /\ u.id = v.id => u = v
    BY <1>1, <2>3 DEF EngineInv, ThreadInv
  <2>5. \A u, v \in threads' : u.task = v.task /\ u.out = v.out => u = v
    BY <1>1, <2>3 DEF EngineInv, ThreadInv
  <2> QED
    BY <2>1, <2>2, <2>4, <2>5 DEF ThreadInv
<1>8. UserInv'
  <2>1. IsFiniteSet(threads')
    BY <1>1, FS_AddElement DEF EngineInv, UserInv
  <2>2. ASSUME NEW p \in Live' PROVE users'[p] = Cardinality(ThreadsOf(p)')
    <3>1. /\ p \in Live /\ p \in Tasks
          /\ users[p] = Cardinality(ThreadsOf(p))
          /\ IsFiniteSet(ThreadsOf(p))
      BY <1>4, <2>2, FS_Subset
      DEF EngineInv, UserInv, UsersCountThreads, ThreadsOf, Live
    <3>2. CASE p = q
      <4>1. ThreadsOf(p)' = ThreadsOf(p) \union {t}
        BY <1>1, <3>2 DEF ThreadsOf
      <4>2. t \notin ThreadsOf(p)
        BY <1>2, <1>5 DEF ThreadsOf
      <4>3. Cardinality(ThreadsOf(p)') = Cardinality(ThreadsOf(p)) + 1
        BY <3>1, <4>1, <4>2, FS_AddElement
      <4>4. users'[p] = users[p] + 1
        BY <1>1, <1>2, <3>2 DEF TypeOK
      <4> QED
        BY <3>1, <4>3, <4>4
    <3>3. CASE p # q
      <4>1. ThreadsOf(p)' = ThreadsOf(p)
        BY <1>1, <3>3 DEF ThreadsOf
      <4>2. users'[p] = users[p]
        BY <1>1, <3>1, <3>3 DEF TypeOK
      <4> QED
        BY <3>1, <4>1, <4>2
    <3> QED
      BY <3>2, <3>3
  <2> QED
    BY <2>1, <2>2 DEF UserInv, UsersCountThreads
<1>9. RouteInv'
  <2>1. outcome[q][r[2]] = "none" /\ r \notin requests_wait
    <3>1. <<q, r[2]>> \in Pending
      BY <1>2, <1>4
    <3>2. /\ outcome[q][r[2]] = "none"
          /\ <<q, r[2]>> \notin requests \intersect requests_wait
      BY <1>2, <1>3, <3>1 DEF EngineInv, RouteInv
    <3> QED
      BY <1>1, <1>2, <3>2
  <2>2. r \notin Pending'
    BY <1>1, <2>1 DEF Pending
  <2>3. \A u \in threads' : /\ <<u.task, u.out>> \notin Pending'
                            /\ outcome[u.task][u.out] = "none"
    <3>1. \A u \in threads : /\ <<u.task, u.out>> \notin Pending
                             /\ outcome[u.task][u.out] = "none"
      BY DEF EngineInv, RouteInv
    <3>2. <<t.task, t.out>> \notin Pending' /\ outcome[t.task][t.out] = "none"
      BY <1>2, <2>1, <2>2
    <3> HIDE DEF t
    <3> QED
      BY <1>1, <1>4, <3>1, <3>2
  <2>4. \A p \in Unused, o \in Outputs :
          <<p, o>> \notin Pending' /\ outcome[p][o] = "none"
    <3>1. \A p \in Unused, o \in Outputs :
            <<p, o>> \notin Pending /\ outcome[p][o] = "none"
      BY DEF EngineInv, RouteInv
    <3> QED
      BY <1>4, <3>1
  <2>5. ASSUME NEW p \in Live, NEW o \in Outputs, <<p, o>> \in Pending'
        PROVE  /\ outcome[p][o] = "none"
               /\ <<p, o>> \notin requests' \intersect requests_wait'
    <3>1. /\ outcome[p][o] = "none"
          /\ <<p, o>> \notin requests \intersect requests_wait
      BY <1>4, <2>5 DEF EngineInv, RouteInv
    <3> QED
      BY <1>1, <3>1
  <2>6. \A p \in Tasks, o \in Outputs : retries[p][o] > 0 => p \in Live
    BY DEF EngineInv, RouteInv
  <2> QED
    BY <1>1, <1>4, <2>3, <2>4, <2>5, <2>6 DEF RouteInv
<1>10. PipeInv'
  <2>1. ASSUME NEW k \in 1..Len(pipe), pipe[k].ret # "STOP"
        PROVE  \E u \in threads' \ active' : Names(pipe[k], u)'
    <3>1. PICK u \in threads \ active : Names(pipe[k], u)
      BY <1>1, <2>1 DEF EngineInv, PipeInv
    <3>2. u # t
      BY <1>2, <1>5, <3>1
    <3>3. u \in threads' \ active' /\ Names(pipe[k], u)'
      BY <1>1, <3>1, <3>2 DEF Names
    <3> QED
      BY <3>3
  <2> QED
    BY <1>1, <2>1 DEF EngineInv, PipeInv
<1> QED
  BY <1>6, <1>7, <1>8, <1>9, <1>10 DEF EngineInv

\* The shutdown leaves nothing behind that the invariant speaks of.
LEMMA InvShutdown ==
  ASSUME TypeOK, EngineInv, flb_engine_shutdown
  PROVE  EngineInv'
<1>1. /\ threads' = {} /\ active' = {} /\ engine' = "stopped"
      /\ Pending' = {} /\ outcome' = outcome
      /\ tasks_map' = [k \in Ids |-> NoTask]
      /\ retries' = [p \in Tasks |-> [o \in Outputs |-> 0]]
  BY DEF flb_engine_shutdown, Pending
<1>2. Live' = {} /\ Unused' = Unused
  BY DEF flb_engine_shutdown, Live, Unused, TypeOK
<1>3. MapInv'
  BY <1>1, <1>2 DEF MapInv
<1>4. ThreadInv'
  BY <1>1 DEF ThreadInv
<1>5. UserInv'
  BY <1>1, <1>2, FS_EmptySet DEF UserInv, UsersCountThreads
<1>6. RouteInv'
  <2>1. \A p \in Tasks, o \in Outputs : retries'[p][o] = 0
    BY <1>1
  <2>2. \A p \in Unused, o \in Outputs : outcome[p][o] = "none"
    BY DEF EngineInv, RouteInv
  <2> QED
    BY <1>1, <1>2, <2>1, <2>2 DEF RouteInv
<1>7. PipeInv'
  BY <1>1 DEF PipeInv
<1> QED
  BY <1>3, <1>4, <1>5, <1>6, <1>7 DEF EngineInv

\* A new task has as many threads as routes.
LEMMA NewThreadsCount ==
  ASSUME NEW p \in Tasks, NEW i \in Inputs
  PROVE  /\ IsFiniteSet(NewThreads(p, i))
         /\ Cardinality(NewThreads(p, i)) = Len(Routes[i])
<1> DEFINE n == Len(Routes[i])
           f == [k \in 1..n |->
                   [task |-> p, id |-> k - 1, out |-> Routes[i][k]]]
<1>1. n \in Nat
  BY NewThreadsType
<1>2. f \in [1..n -> NewThreads(p, i)]
  BY DEF NewThreads
<1>3. \A j, k \in 1..n : f[j] = f[k] => j = k
  <2>1. \A k \in 1..n : f[k].id = k - 1
    OBVIOUS
  <2> QED
    BY <1>1, <2>1
<1>4. \A t \in NewThreads(p, i) : \E k \in 1..n : f[k] = t
  BY DEF NewThreads
<1>5. f \in Bijection(1..n, NewThreads(p, i))
  <2> HIDE DEF f, n
  <2>1. IsInjective(f)
    BY <1>2, <1>3 DEF IsInjective
  <2> QED
    BY <1>2, <1>4, <2>1 DEF Bijection, Injection, Surjection
<1>6. ExistsBijection(1..n, NewThreads(p, i))
  BY <1>5 DEF ExistsBijection
<1>7. IsFiniteSet(1..n) /\ Cardinality(1..n) = n
  BY <1>1, FS_Interval
<1> QED
  BY <1>6, <1>7, FS_Bijection

\* A new task: its id was free, its threads are told apart by their routes.
LEMMA InvDispatch ==
  ASSUME TypeOK, EngineInv, NEW i \in Inputs, DispatchTask(i)
  PROVE  EngineInv'
<1>1. PICK p \in Unused, k \in Ids :
             /\ flb_task_create(p, k, i)
             /\ active' = active \union NewThreads(p, i)
  BY DEF DispatchTask
<1> DEFINE N == NewThreads(p, i)
<1>2. /\ p \in Tasks /\ p \notin Live /\ k \in Ids
      /\ tasks_map[k] = NoTask
      /\ tasks_map' = [tasks_map EXCEPT ![k] = p]
      /\ status' = [status EXCEPT ![p] = "running"]
      /\ id' = [id EXCEPT ![p] = k]
      /\ users' = [users EXCEPT ![p] = Len(Routes[i])]
      /\ n_threads' = [n_threads EXCEPT ![p] = Len(Routes[i])]
      /\ threads' = threads \union N
      /\ active' = active \union N
      /\ UNCHANGED retries
  BY <1>1 DEF Unused, Live, flb_task_create, map_get_task_id, FreeIds
<1>3. /\ UNCHANGED <<requests, requests_wait, pipe, engine, outcome>>
      /\ engine = "running"
  BY DEF DispatchTask, Dispatching, schedVars
<1>4. /\ Live' = Live \union {p} /\ Unused' = Unused \ {p}
      /\ Pending' = Pending
  BY <1>2, <1>3 DEF Live, Unused, Pending, TypeOK
<1>5. \A u \in threads : /\ u.task \in Live /\ u.task \in Tasks
                         /\ u.task # p /\ u \notin N
  <2>1. \A u \in threads : u.task \in Live /\ u.task \in Tasks
    BY DEF EngineInv, ThreadInv, Live
  <2>2. \A u \in N : u.task = p
    BY DEF NewThreads
  <2> QED
    BY <1>2, <2>1, <2>2
<1>6. \A u \in N : \E j \in 1..Len(Routes[i]) :
        /\ u = [task |-> p, id |-> j - 1, out |-> Routes[i][j]]
        /\ Routes[i][j] \in Outputs
  BY TaskAssumption DEF TaskAssumption, NewThreads
<1>7. Len(Routes[i]) \in Nat
  BY NewThreadsType
<1>8. MapInv'
  <2>1. \A j \in Ids : tasks_map[j] # NoTask =>
          tasks_map[j] \in Live /\ id[tasks_map[j]] = j
    BY DEF EngineInv, MapInv
  <2>2. \A q \in Live : tasks_map[id[q]] = q /\ id[q] \in Ids /\ q \in Tasks
    BY DEF EngineInv, MapInv, TypeOK, Live
  <2>3. ASSUME NEW j \in Ids, tasks_map'[j] # NoTask
        PROVE  tasks_map'[j] \in Live' /\ id'[tasks_map'[j]] = j
    <3>1. CASE j = k
      BY <1>2, <1>4, <3>1 DEF TypeOK
    <3>2. CASE j # k
      BY <1>2, <1>4, <2>1, <2>3, <3>2 DEF TypeOK, Live
    <3> QED
      BY <3>1, <3>2
  <2>4. ASSUME NEW q \in Live' PROVE tasks_map'[id'[q]] = q
    <3>1. CASE q = p
      BY <1>2, <3>1 DEF TypeOK
    <3>2. CASE q # p
      <4>1. q \in Live /\ id'[q] = id[q]
        BY <1>2, <1>4, <2>2, <3>2 DEF TypeOK
      <4>2. id[q] # k
        BY <1>2, <2>2, <4>1, TaskAssumption DEF TaskAssumption
      <4> QED
        BY <1>2, <2>2, <4>1, <4>2 DEF TypeOK
    <3> QED
      BY <3>1, <3>2
  <2> QED
    BY <2>3, <2>4 DEF MapInv
<1>9. ThreadInv'
  <2>1. active' \subseteq threads'
    BY <1>2 DEF EngineInv, ThreadInv
  <2>2. ASSUME NEW u \in threads'
        PROVE  u.task \in Live' /\ u.id < n_threads'[u.task]
    <3>1. CASE u \in threads
      BY <1>2, <1>4, <1>5, <3>1 DEF EngineInv, ThreadInv, TypeOK
    <3>2. CASE u \in N
      BY <1>2, <1>4, <1>6, <1>7, <3>2 DEF TypeOK
    <3> QED
      BY <1>2, <3>1, <3>2
  <2>3. \A u, v \in N : u.id = v.id \/ u.out = v.out => u = v
    <3> SUFFICES ASSUME NEW u \in N, NEW v \in N,
                        u.id = v.id \/ u.out = v.out
                 PROVE  u = v
      OBVIOUS
    <3>1. PICK j \in 1..Len(Routes[i]) :
            u = [task |-> p, id |-> j - 1, out |-> Routes[i][j]]
      BY <1>6
    <3>2. PICK l \in 1..Len(Routes[i]) :
            v = [task |-> p, id |-> l - 1, out |-> Routes[i][l]]
      BY <1>6
    <3>3. j = l
      BY <1>7, <3>1, <3>2, TaskAssumption DEF TaskAssumption
    <3> QED
      BY <3>1, <3>2, <3>3
  <2>4. \A u \in N : u.task = p
    BY <1>6
  <2>5. \A u, v \in threads' : u.task = v.task /\ u.id = v.id => u = v
    BY <1>2, <1>5, <2>3, <2>4 DEF EngineInv, ThreadInv
  <2>6. \A u, v \in threads' : u.task = v.task /\ u.out = v.out => u = v
    BY <1>2, <1>5, <2>3, <2>4 DEF EngineInv, ThreadInv
  <2> QED
    BY <2>1, <2>2, <2>5, <2>6 DEF ThreadInv
<1>10. UserInv'
  <2>1. IsFiniteSet(threads')
    BY <1>2, NewThreadsCount, FS_Union DEF EngineInv, UserInv
  <2>2. ASSUME NEW q \in Live' PROVE users'[q] = Cardinality(ThreadsOf(q)')
    <3>1. CASE q = p
      <4>1. ThreadsOf(q)' = N
        BY <1>2, <1>5, <1>6, <3>1 DEF ThreadsOf
      <4> QED
        BY <1>2, <3>1, <4>1, NewThreadsCount DEF TypeOK
    <3>2. CASE q # p
      <4>1. ThreadsOf(q)' = ThreadsOf(q)
        BY <1>2, <1>6, <3>2 DEF ThreadsOf
      <4>2. q \in Live /\ q \in Tasks
        BY <1>4, <3>2 DEF Live
      <4>3. users'[q] = users[q]
        BY <1>2, <3>2, <4>2 DEF TypeOK
      <4> QED
        BY <4>1, <4>2, <4>3 DEF EngineInv, UserInv, UsersCountThreads
    <3> QED
      BY <3>1, <3>2
  <2> QED
    BY <2>1, <2>2 DEF UserInv, UsersCountThreads
<1>11. RouteInv'
  <2>1. \A o \in Outputs : <<p, o>> \notin Pending /\ outcome[p][o] = "none"
    BY <1>1 DEF EngineInv, RouteInv
  <2>2. \A u \in threads' : /\ <<u.task, u.out>> \notin Pending
                            /\ outcome[u.task][u.out] = "none"
    <3>1. \A u \in threads : /\ <<u.task, u.out>> \notin Pending
                             /\ outcome[u.task][u.out] = "none"
      BY DEF EngineInv, RouteInv
    <3>2. \A u \in N : u.task = p /\ u.out \in Outputs
      BY <1>6
    <3> QED
      BY <1>2, <2>1, <3>1, <3>2
  <2>3. \A q \in Tasks, o \in Outputs : retries[q][o] > 0 => q \in Live'
    BY <1>4 DEF EngineInv, RouteInv
  <2>4. \A q \in Unused', o \in Outputs :
          <<q, o>> \notin Pending /\ outcome[q][o] = "none"
    BY <1>4 DEF EngineInv, RouteInv
  <2>5. \A q \in Live', o \in Outputs : <<q, o>> \in Pending =>
          /\ outcome[q][o] = "none"
          /\ <<q, o>> \notin requests \intersect requests_wait
    BY <1>4, <2>1 DEF EngineInv, RouteInv
  <2> QED
    BY <1>2, <1>3, <1>4, <2>2, <2>3, <2>4, <2>5 DEF RouteInv
<1>12. PipeInv'
  <2>1. ASSUME NEW j \in 1..Len(pipe), pipe[j].ret # "STOP"
        PROVE  \E u \in threads' \ active' : Names(pipe[j], u)'
    <3>1. PICK u \in threads \ active : Names(pipe[j], u)
      BY <1>3, <2>1 DEF EngineInv, PipeInv
    <3>2. u \in threads' \ active'
      BY <1>2, <1>5, <3>1
    <3>3. pipe[j].task_id # k
      <4>1. u.task # NoTask
        BY <1>5, <3>1, TaskAssumption DEF TaskAssumption
      <4> QED
        BY <1>2, <3>1, <4>1 DEF Names
    <3>4. pipe[j].task_id \in Ids
      <4>1. pipe[j] \in Events
        BY DEF TypeOK
      <4> QED
        BY <4>1 DEF Events
    <3>5. Names(pipe[j], u)'
      BY <1>2, <1>3, <3>1, <3>3, <3>4 DEF Names, TypeOK
    <3> QED
      BY <3>2, <3>5
  <2> QED
    BY <1>3, <2>1 DEF EngineInv, PipeInv
<1> QED
  BY <1>8, <1>9, <1>10, <1>11, <1>12 DEF EngineInv

(***************************************************************************)
(* Every handler keeps the invariant.                                      *)
(***************************************************************************)
LEMMA InvNext == TypeOK /\ EngineInv /\ [Next]_vars => EngineInv'
<1> SUFFICES ASSUME TypeOK, EngineInv, [Next]_vars PROVE EngineInv'
  OBVIOUS
<1>1. ASSUME NEW i \in Inputs, Collect(i) PROVE EngineInv'
  BY <1>1, InvSame DEF Collect
<1>2. ASSUME NEW t \in threads, NEW ret \in Results, flb_output_return(t, ret)
      PROVE  EngineInv'
  BY <1>2, InvReturn
<1>3. CASE flb_engine_exit
  BY <1>3, InvExit
<1>4. ASSUME NEW T \in SUBSET requests, mk_event_wait(T) PROVE EngineInv'
  BY <1>4, InvSame DEF mk_event_wait
<1>5. CASE HandleFlush
  BY <1>5, InvSame DEF HandleFlush
<1>6. ASSUME NEW i \in Inputs, DispatchNothing(i) PROVE EngineInv'
  BY <1>6, InvSame DEF DispatchNothing, Dispatching
<1>7. ASSUME NEW i \in Inputs, DispatchDropped(i) PROVE EngineInv'
  BY <1>7, InvSame DEF DispatchDropped, Dispatching
<1>8. ASSUME NEW i \in Inputs, DispatchTask(i) PROVE EngineInv'
  BY <1>8, InvDispatch
<1>9. \A t \in threads :
        /\ WithoutRetry(t.task, t.out) \in [Tasks -> [Outputs -> Nat]]
        /\ flb_sched_request_invalidate({<<t.task, t.out>>}, requests)
             \in SUBSET requests
        /\ \A p \in Tasks, o \in Outputs :
             WithoutRetry(t.task, t.out)[p][o] > 0 => retries[p][o] > 0
  <2> SUFFICES ASSUME NEW t \in threads
               PROVE
        /\ WithoutRetry(t.task, t.out) \in [Tasks -> [Outputs -> Nat]]
        /\ flb_sched_request_invalidate({<<t.task, t.out>>}, requests)
             \in SUBSET requests
        /\ \A p \in Tasks, o \in Outputs :
             WithoutRetry(t.task, t.out)[p][o] > 0 => retries[p][o] > 0
    OBVIOUS
  <2>1. \A p \in Tasks, o \in Outputs :
          WithoutRetry(t.task, t.out)[p][o] > 0 => retries[p][o] > 0
    BY WithoutRetryType DEF WithoutRetry, TypeOK
  <2> QED
    BY <2>1, WithoutRetryType DEF flb_sched_request_invalidate
<1>10. ASSUME NEW t \in threads, TaskOk(t) PROVE EngineInv'
  <2>1. "ok" \in Final /\ "OK" \in Results
    BY DEF Final, Results
  <2> QED
    BY <1>9, <1>10, <2>1, InvRelease DEF TaskOk
<1>11. ASSUME NEW t \in threads, TaskError(t) PROVE EngineInv'
  <2>1. "error" \in Final /\ "ERROR" \in Results
    BY DEF Final, Results
  <2>2. retries \in [Tasks -> [Outputs -> Nat]] /\ requests \in SUBSET requests
    BY DEF TypeOK
  <2>3. \A p \in Tasks, o \in Outputs : retries[p][o] > 0 => retries[p][o] > 0
    OBVIOUS
  <2> QED
    BY <1>11, <2>1, <2>2, <2>3, InvRelease DEF TaskError
<1>12. ASSUME NEW t \in threads, TaskRetryRefused(t) PROVE EngineInv'
  <2>1. "exhausted" \in Final /\ "RETRY" \in Results
    BY DEF Final, Results
  <2> QED
    BY <1>9, <1>12, <2>1, InvRelease DEF TaskRetryRefused
<1>13. ASSUME NEW t \in threads, TaskRetry(t) PROVE EngineInv'
  BY <1>13, InvRetry
<1>14. ASSUME NEW t \in threads, TaskRetryUnscheduled(t) PROVE EngineInv'
  <2>1. "unscheduled" \in Final /\ "RETRY" \in Results
    BY DEF Final, Results
  <2> QED
    BY <1>9, <1>14, <2>1, InvRelease DEF TaskRetryUnscheduled
<1>15. CASE ManagerStop
  BY <1>15, InvStop
<1>16. ASSUME NEW due \in SUBSET requests_wait, NEW refused \in SUBSET due,
              HandleFrame(due, refused)
       PROVE  EngineInv'
  BY <1>16, InvFrame
<1>17. ASSUME NEW r \in timers, HandleTimer(r) PROVE EngineInv'
  BY <1>17, InvTimer
<1>18. ASSUME NEW r \in timers, HandleTimerFreed(r) PROVE EngineInv'
  BY <1>18, InvSame DEF HandleTimerFreed, HandlingTimer, Idle
<1>19. CASE flb_engine_shutdown
  BY <1>19, InvShutdown
<1>20. CASE UNCHANGED vars
  BY <1>20, InvSame DEF vars, loopVars
<1> QED
  BY <1>1, <1>2, <1>3, <1>4, <1>5, <1>6, <1>7, <1>8, <1>10, <1>11, <1>12,
     <1>13, <1>14, <1>15, <1>16, <1>17, <1>18, <1>19, <1>20 DEF Next

(***************************************************************************)
(* The inductive invariant holds in every state of the engine.             *)
(***************************************************************************)
THEOREM InvCorrect == Spec => [](TypeOK /\ EngineInv)
<1>1. Init => TypeOK /\ EngineInv
  BY TypeInit, InvInit
<1>2. TypeOK /\ EngineInv /\ [Next]_vars => (TypeOK /\ EngineInv)'
  BY TypeNext, InvNext
<1> QED
  BY <1>1, <1>2, PTL DEF Spec
-------------------------------------------------------------------------------
(* The properties that follow from it.                                     *)

(***************************************************************************)
(* task->users is the number of the task's output threads.                 *)
(***************************************************************************)
THEOREM UsersCorrect == Spec => []UsersCountThreads
<1>1. EngineInv => UsersCountThreads
  BY DEF EngineInv, UserInv
<1> QED
  BY <1>1, InvCorrect, PTL

(***************************************************************************)
(* Every result in the manager pipe names one finished output thread, and  *)
(* no other result names it.                                               *)
(***************************************************************************)
THEOREM EventsCorrect == Spec => []EventsResolve
<1>1. TypeOK /\ EngineInv => EventsResolve
  <2> SUFFICES ASSUME TypeOK, EngineInv, engine # "stopped",
                      NEW k \in 1..Len(pipe), pipe[k].ret # "STOP"
               PROVE  \E t \in threads \ active :
                        /\ \A j \in 1..Len(pipe) : Names(pipe[j], t) <=> j = k
                        /\ \A u \in threads : Names(pipe[k], u) => u = t
    BY DEF EventsResolve
  <2>1. PICK t \in threads \ active : Names(pipe[k], t)
    BY DEF EngineInv, PipeInv
  <2>2. ASSUME NEW j \in 1..Len(pipe), Names(pipe[j], t) PROVE j = k
    <3>1. pipe[j] \in Events /\ pipe[k] \in Events /\ t \in Threads
      BY DEF TypeOK
    <3>2. pipe[j].task_id \in Ids /\ pipe[k].task_id \in Ids /\ t.task # NoTask
      BY <3>1, TaskAssumption DEF TaskAssumption, Events, Threads
    <3>3. pipe[j].task_id = pipe[k].task_id
      BY <2>1, <2>2, <3>2 DEF EngineInv, MapInv, Names
    <3> QED
      BY <2>1, <2>2, <3>3 DEF EngineInv, PipeInv, Names
  <2>3. ASSUME NEW u \in threads, Names(pipe[k], u) PROVE u = t
    BY <2>1, <2>3 DEF EngineInv, ThreadInv, Names
  <2> QED
    BY <2>1, <2>2, <2>3
<1> QED
  BY <1>1, InvCorrect, PTL

(***************************************************************************)
(* A route of a living task is held by at most one thread or request, and  *)
(* by none once it has its final result.                                   *)
(***************************************************************************)
THEOREM HolderCorrect == Spec => []AtMostOneHolder
<1>1. TypeOK /\ EngineInv => AtMostOneHolder
  <2> SUFFICES ASSUME TypeOK, EngineInv, NEW p \in Live, NEW o \in Outputs
               PROVE  /\ \A x, y \in Holders(p, o) : x = y
                      /\ outcome[p][o] # "none" => Holders(p, o) = {}
    BY DEF AtMostOneHolder
  <2> DEFINE S == {u \in ThreadsOf(p) : u.out = o}
  <2>1. /\ \A u, v \in S : u = v
        /\ \A u \in S : outcome[p][o] = "none" /\ <<p, o>> \notin Pending
    BY DEF EngineInv, ThreadInv, RouteInv, ThreadsOf
  <2>2. <<p, o>> \in Pending =>
          /\ outcome[p][o] = "none"
          /\ <<p, o>> \notin requests \intersect requests_wait
    BY DEF EngineInv, RouteInv
  <2>3. Pending = requests \union requests_wait
    BY DEF Pending
  <2>4. Holders(p, o) = {<<"thread", t.id>> : t \in S}
          \union (IF <<p, o>> \in requests THEN {<<"request", 0>>} ELSE {})
          \union (IF <<p, o>> \in requests_wait THEN {<<"wait", 0>>} ELSE {})
    BY DEF Holders
  <2> HIDE DEF S
  <2>5. CASE S = {}
    <3>1. Holders(p, o) =
            (IF <<p, o>> \in requests THEN {<<"request", 0>>} ELSE {})
            \union (IF <<p, o>> \in requests_wait THEN {<<"wait", 0>>} ELSE {})
      BY <2>4, <2>5
    <3> QED
      BY <2>2, <2>3, <3>1
  <2>6. CASE S # {}
    <3>1. Holders(p, o) = {<<"thread", t.id>> : t \in S}
      BY <2>1, <2>3, <2>4, <2>6
    <3> QED
      BY <2>1, <2>6, <3>1
  <2> QED
    BY <2>5, <2>6
<1> QED
  BY <1>1, InvCorrect, PTL

\* A handler that releases a user frees the task only with its last thread.
LEMMA FreedByRelease ==
  ASSUME TypeOK, EngineInv, NEW ret \in Results, NEW t \in threads,
         TaskResult(ret, t), NEW rt, NEW rq, ReleaseUser(t, rt, rq),
         NEW p \in Live, status'[p] = "freed"
  PROVE  /\ ThreadsOf(p) \intersect active = {}
         /\ \A u \in threads' : u.task # p
<1>1. p \in Tasks /\ status[p] = "running"
  BY DEF Live
<1>2. users[t.task] = 1 /\ p = t.task
  BY <1>1 DEF ReleaseUser, flb_task_destroy
<1>3. ThreadsOf(p) = {t}
  BY <1>2, LastUser
<1>4. t \notin active
  BY HeadThread
<1> QED
  BY <1>3, <1>4 DEF ReleaseUser, ThreadsOf

(***************************************************************************)
(* Outside of the final shutdown a task is freed only when its co-routines *)
(* have all returned and are gone.                                         *)
(***************************************************************************)
THEOREM FreedCorrect == Spec => FreedOnlyWhenUnused
<1> DEFINE Good == \A p \in Live : status'[p] = "freed" /\ engine' # "stopped" =>
                     /\ ThreadsOf(p) \intersect active = {}
                     /\ \A t \in threads' : t.task # p
<1>1. TypeOK /\ EngineInv /\ [Next]_vars => [Good]_vars
  <2> SUFFICES ASSUME TypeOK, EngineInv, Next, NEW p \in Live,
                      status'[p] = "freed", engine' # "stopped"
               PROVE  /\ ThreadsOf(p) \intersect active = {}
                      /\ \A t \in threads' : t.task # p
    OBVIOUS
  <2>1. p \in Tasks /\ status[p] = "running"
    BY DEF Live
  <2>2. status' # status
    BY <2>1
  <2>3. ~ \E i \in Inputs : DispatchTask(i)
    <3>1. ASSUME NEW i \in Inputs, DispatchTask(i) PROVE FALSE
      <4>1. PICK q \in Unused, k \in Ids : flb_task_create(q, k, i)
        BY <3>1 DEF DispatchTask
      <4> QED
        BY <2>1, <4>1 DEF flb_task_create, TypeOK
    <3> QED
      BY <3>1
  <2>4. \E t \in threads : \/ TaskOk(t)
                           \/ TaskError(t)
                           \/ TaskRetryRefused(t)
                           \/ TaskRetryUnscheduled(t)
    BY <2>2, <2>3
    DEF Next, Collect, flb_output_return, flb_engine_exit, mk_event_wait,
        HandleFlush, DispatchNothing, DispatchDropped, TaskRetry, ManagerStop,
        HandleFrame, HandleTimer, HandleTimerFreed, flb_engine_shutdown,
        taskVars
  <2>5. PICK t \in threads : \/ TaskOk(t)
                             \/ TaskError(t)
                             \/ TaskRetryRefused(t)
                             \/ TaskRetryUnscheduled(t)
    BY <2>4
  <2>6. {"OK", "ERROR", "RETRY"} = Results
    BY DEF Results
  <2>7. CASE TaskOk(t)
    BY <2>6, <2>7, FreedByRelease DEF TaskOk
  <2>8. CASE TaskError(t)
    BY <2>6, <2>8, FreedByRelease DEF TaskError
  <2>9. CASE TaskRetryRefused(t)
    BY <2>6, <2>9, FreedByRelease DEF TaskRetryRefused
  <2>10. CASE TaskRetryUnscheduled(t)
    BY <2>6, <2>10, FreedByRelease DEF TaskRetryUnscheduled
  <2> QED
    BY <2>5, <2>7, <2>8, <2>9, <2>10
<1> QED
  BY <1>1, InvCorrect, PTL DEF Spec, FreedOnlyWhenUnused

\* A retry context that is kept or dropped stays within the bound.
LEMMA BoundKept ==
  ASSUME TypeOK, EngineInv, AttemptInv,
         \A p \in Tasks, o \in Outputs :
           retries'[p][o] \in {0, retries[p][o]}
  PROVE  AttemptInv'
<1> SUFFICES ASSUME NEW p \in Live', NEW o \in Outputs, RetryLimit[o] >= 0
             PROVE  retries'[p][o] <= RetryLimit[o] + 1
  BY DEF AttemptInv
<1>1. p \in Tasks /\ retries[p][o] \in Nat /\ RetryLimit[o] \in Int
  BY TaskAssumption DEF TaskAssumption, Live, TypeOK
<1>2. CASE retries[p][o] = 0
  BY <1>1, <1>2
<1>3. CASE retries[p][o] > 0
  <2>1. p \in Live
    BY <1>1, <1>3 DEF EngineInv, RouteInv
  <2>2. retries[p][o] <= RetryLimit[o] + 1
    BY <2>1 DEF AttemptInv
  <2> QED
    BY <1>1, <2>2
<1> QED
  BY <1>1, <1>2, <1>3

(***************************************************************************)
(* The attempts of a retry context (flb_task_retry_create()) go one beyond *)
(* the limit and no further; needed for the refinement.                    *)
(***************************************************************************)
LEMMA AttemptsBounded == Spec => []AttemptInv
<1>1. Init => AttemptInv
  <2> SUFFICES ASSUME Init PROVE AttemptInv
    OBVIOUS
  <2>1. Live = {}
    BY DEF Init, TaskInit, Live
  <2> QED
    BY <2>1 DEF AttemptInv
<1>2. TypeOK /\ EngineInv /\ AttemptInv /\ [Next]_vars => AttemptInv'
  <2> SUFFICES ASSUME TypeOK, EngineInv, AttemptInv, [Next]_vars
               PROVE  AttemptInv'
    OBVIOUS
  <2>1. CASE UNCHANGED retries
    BY <2>1, BoundKept
  <2>2. ASSUME NEW t \in threads, NEW rt, NEW rq, ReleaseUser(t, rt, rq),
               rt \in {retries, WithoutRetry(t.task, t.out)}
        PROVE  AttemptInv'
    <3>1. t.task \in Tasks /\ t.out \in Outputs
      BY WithoutRetryType
    <3>2. \A p \in Tasks, o \in Outputs : rt[p][o] \in {0, retries[p][o]}
      <4>1. CASE rt = retries
        BY <4>1
      <4>2. CASE rt = WithoutRetry(t.task, t.out)
        BY <3>1, <4>2 DEF WithoutRetry, TypeOK
      <4> QED
        BY <2>2, <4>1, <4>2
    <3>3. \A p \in Tasks, o \in Outputs :
            retries'[p][o] \in {0, retries[p][o]}
      BY <2>2, <3>2 DEF ReleaseUser, flb_task_destroy
    <3> QED
      BY <3>3, BoundKept
  <2>3. ASSUME NEW t \in threads, TaskRetry(t) PROVE AttemptInv'
    <3> SUFFICES ASSUME NEW p \in Live', NEW o \in Outputs, RetryLimit[o] >= 0
                 PROVE  retries'[p][o] <= RetryLimit[o] + 1
      BY DEF AttemptInv
    <3>1. /\ t.task \in Tasks /\ t.out \in Outputs /\ p \in Tasks
          /\ p \in Live /\ RetryLimit[o] \in Int /\ retries[p][o] \in Nat
      <4>1. t.task \in Tasks /\ t.out \in Outputs
        BY WithoutRetryType
      <4>2. p \in Live /\ p \in Tasks
        BY <2>3 DEF Live, TaskRetry
      <4> QED
        BY <4>1, <4>2, TaskAssumption DEF TaskAssumption, TypeOK
    <3>2. CASE p = t.task /\ o = t.out
      <4>1. retries'[p][o] = retries[p][o] + 1
        BY <2>3, <3>1, <3>2 DEF TaskRetry, flb_task_retry_create, TypeOK
      <4>2. ~RetryRefused(p, o)
        BY <2>3, <3>2 DEF TaskRetry
      <4> QED
        BY <3>1, <4>1, <4>2 DEF RetryRefused
    <3>3. CASE ~(p = t.task /\ o = t.out)
      <4>1. retries'[p][o] = retries[p][o]
        BY <2>3, <3>1, <3>3 DEF TaskRetry, flb_task_retry_create, TypeOK
      <4> QED
        BY <3>1, <4>1 DEF AttemptInv
    <3> QED
      BY <3>2, <3>3
  <2>4. CASE flb_engine_shutdown
    <3>1. Live' = {}
      BY <2>4 DEF flb_engine_shutdown, Live, TypeOK
    <3> QED
      BY <3>1 DEF AttemptInv
  <2>5. ASSUME NEW i \in Inputs, DispatchTask(i) PROVE UNCHANGED retries
    BY <2>5 DEF DispatchTask, flb_task_create
  <2>6. ASSUME NEW t \in threads,
               \/ TaskOk(t) \/ TaskError(t)
               \/ TaskRetryRefused(t) \/ TaskRetryUnscheduled(t)
        PROVE  AttemptInv'
    BY <2>2, <2>6
    DEF TaskOk, TaskError, TaskRetryRefused, TaskRetryUnscheduled
  <2>7. \/ UNCHANGED retries
        \/ \E t \in threads : TaskRetry(t)
        \/ flb_engine_shutdown
        \/ \E t \in threads : \/ TaskOk(t) \/ TaskError(t)
                              \/ TaskRetryRefused(t) \/ TaskRetryUnscheduled(t)
    BY <2>5
    DEF Next, Collect, flb_output_return, flb_engine_exit, mk_event_wait,
        HandleFlush, DispatchNothing, DispatchDropped, ManagerStop,
        HandleFrame, HandleTimer, HandleTimerFreed, taskVars, vars
  <2> QED
    BY <2>1, <2>3, <2>4, <2>6, <2>7
<1> QED
  BY <1>1, <1>2, InvCorrect, PTL DEF Spec
===============================================================================

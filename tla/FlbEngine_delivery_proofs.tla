----------------------- MODULE FlbEngine_delivery_proofs -----------------------
(***************************************************************************)
(* Proofs about what the engine does with the routes of a task: that it    *)
(* implements FlbDelivery, that no route is forgotten while every request  *)
(* gets its timer, and that nothing is lost or used after it was freed     *)
(* when every input has one route.                                         *)
(***************************************************************************)
EXTENDS FlbEngine_proofs

\* The handlers of flb_engine_manager() that settle the route of thread t.
Releases(t) == \/ TaskOk(t)
               \/ TaskError(t)
               \/ TaskRetryRefused(t)
               \/ TaskRetryUnscheduled(t)

\* The tasks that go with thread t.
GoneWith(t) == IF users[t.task] = 1 THEN {t.task} ELSE {}

\* Steps that leave the tasks, their threads and their results alone.
Quiet == /\ UNCHANGED <<taskVars, outcome>>
         /\ engine = "stopped" <=> engine' = "stopped"

\* What a handler that settles a route does to the routes of the tasks.
LEMMA ReleaseStep ==
  ASSUME TypeOK, EngineInv, NEW t \in threads, Releases(t)
  PROVE  /\ t.task \in Live /\ t.task \in Tasks /\ t.out \in Outputs
         /\ engine = "running" /\ UNCHANGED <<engine, timers, i_ins>>
         /\ threads' = threads \ {t}
         /\ status' = [p \in Tasks |->
                         IF p \in GoneWith(t) THEN "freed" ELSE status[p]]
         /\ requests_wait' = requests_wait
         /\ requests' \subseteq requests
         /\ \A r \in requests :
              \/ r \in requests'
              \/ r = <<t.task, t.out>>
              \/ r[1] \in GoneWith(t)
         /\ \A p \in Tasks, o \in Outputs :
              p \notin GoneWith(t) /\ <<p, o>> # <<t.task, t.out>>
                => retries'[p][o] = retries[p][o]
         /\ \E f \in Final :
              /\ outcome' = [outcome EXCEPT ![t.task][t.out] = f]
              /\ f = "exhausted" => RetryRefused(t.task, t.out)
<1>1. t.task \in Live /\ t.task \in Tasks /\ t.out \in Outputs
  BY WithoutRetryType DEF EngineInv, ThreadInv
<1>2. engine = "running" /\ UNCHANGED <<engine, timers>>
  BY DEF Releases, TaskOk, TaskError, TaskRetryRefused, TaskRetryUnscheduled,
         TaskResult, ManagerReads, Idle
<1> DEFINE I == flb_sched_request_invalidate({<<t.task, t.out>>}, requests)
           W == WithoutRetry(t.task, t.out)
<1>3. PICK rt \in {retries, W}, rq \in {requests, I} : ReleaseUser(t, rt, rq)
  BY DEF Releases, TaskOk, TaskError, TaskRetryRefused, TaskRetryUnscheduled
<1>4. PICK f \in Final : /\ Settled(t, f)
                         /\ f = "exhausted" => RetryRefused(t.task, t.out)
  BY DEF Releases, TaskOk, TaskError, TaskRetryRefused, TaskRetryUnscheduled,
         Final
<1>5. \A p \in Tasks, o \in Outputs :
        <<p, o>> # <<t.task, t.out>> => rt[p][o] = retries[p][o]
  <2>1. CASE rt = retries
    BY <2>1
  <2>2. CASE rt = W
    BY <1>1, <2>2 DEF WithoutRetry, TypeOK
  <2> QED
    BY <2>1, <2>2
<1>6. rq \subseteq requests /\ \A r \in requests \ rq : r = <<t.task, t.out>>
  BY DEF flb_sched_request_invalidate
<1> HIDE DEF I, W
<1>7. /\ threads' = threads \ {t} /\ UNCHANGED <<i_ins, requests_wait>>
      /\ status' = [p \in Tasks |->
                      IF p \in GoneWith(t) THEN "freed" ELSE status[p]]
      /\ retries' = [p \in Tasks |-> IF p \in GoneWith(t)
                                       THEN [o \in Outputs |-> 0] ELSE rt[p]]
      /\ requests' = rq \ {r \in GoneWith(t) \X Outputs : rt[r[1]][r[2]] > 0}
  BY <1>3 DEF ReleaseUser, flb_task_destroy, flb_sched_request_invalidate,
              GoneWith
<1>8. \A p \in Tasks, o \in Outputs :
        p \notin GoneWith(t) /\ <<p, o>> # <<t.task, t.out>>
          => retries'[p][o] = retries[p][o]
  BY <1>5, <1>7
<1>9. /\ requests' \subseteq requests
      /\ \A r \in requests : \/ r \in requests'
                             \/ r = <<t.task, t.out>>
                             \/ r[1] \in GoneWith(t)
  BY <1>6, <1>7
<1> QED
  BY <1>1, <1>2, <1>4, <1>7, <1>8, <1>9 DEF Settled

\* The steps that matter to the routes of the tasks.
LEMMA StepKinds ==
  ASSUME [Next]_vars
  PROVE  \/ Quiet /\ UNCHANGED schedVars
         \/ \E due \in SUBSET requests_wait : \E refused \in SUBSET due :
              HandleFrame(due, refused)
         \/ \E i \in Inputs : DispatchTask(i)
         \/ \E t \in threads : Releases(t)
         \/ \E t \in threads : TaskRetry(t)
         \/ \E r \in timers : HandleTimer(r)
         \/ flb_engine_shutdown
BY DEF Next, Quiet, Releases, Collect, flb_output_return, flb_engine_exit,
       mk_event_wait, HandleFlush, DispatchNothing, DispatchDropped,
       Dispatching, ManagerStop, ManagerReads, HandleTimerFreed, HandlingTimer,
       Idle, loopVars, vars
-------------------------------------------------------------------------------
(* Deliveries go to the routes of the input only.                          *)

\* A new task: its threads, and what it leaves alone.
LEMMA AcceptStep ==
  ASSUME TypeOK, EngineInv, NEW i \in Inputs, DispatchTask(i)
  PROVE  \E p \in Unused :
           /\ p \in Tasks /\ p \notin Live
           /\ engine = "running" /\ Routes[i] # <<>>
           /\ UNCHANGED <<schedVars, engine, timers, retries, outcome>>
           /\ threads' = threads \union NewThreads(p, i)
           /\ status' = [status EXCEPT ![p] = "running"]
           /\ i_ins' = [i_ins EXCEPT ![p] = i]
           /\ RoutesOf(p)' = {t.out : t \in NewThreads(p, i)}
           /\ Live' = Live \union {p}
           /\ \A q \in Tasks \ {p} : /\ RoutesOf(q)' = RoutesOf(q)
                                     /\ ThreadsOf(q)' = ThreadsOf(q)
           /\ ThreadsOf(p)' = NewThreads(p, i)
           /\ Unused' = Unused \ {p}
<1>1. PICK p \in Unused, k \in Ids : flb_task_create(p, k, i)
  BY DEF DispatchTask
<1>2. p \in Tasks /\ p \notin Live
  BY DEF Unused, Live
<1>3. /\ engine = "running" /\ Routes[i] # <<>>
      /\ UNCHANGED <<schedVars, engine, timers, retries, outcome>>
  BY <1>1 DEF DispatchTask, Dispatching, flb_task_create
<1>4. /\ threads' = threads \union NewThreads(p, i)
      /\ status' = [status EXCEPT ![p] = "running"]
      /\ i_ins' = [i_ins EXCEPT ![p] = i]
  BY <1>1 DEF flb_task_create
<1>5. i_ins'[p] = i /\ \A q \in Tasks \ {p} : i_ins'[q] = i_ins[q]
  BY <1>2, <1>4 DEF TypeOK
<1>6. RoutesOf(p)' = {t.out : t \in NewThreads(p, i)}
  <2>1. RoutesOf(p)' = {Routes[i][n] : n \in 1..Len(Routes[i])}
    BY <1>5 DEF RoutesOf
  <2>2. ASSUME NEW n \in 1..Len(Routes[i])
        PROVE  \E t \in NewThreads(p, i) : Routes[i][n] = t.out
    <3> DEFINE t == [task |-> p, id |-> n - 1, out |-> Routes[i][n]]
    <3>1. t \in NewThreads(p, i)
      BY DEF NewThreads
    <3>2. t.out = Routes[i][n]
      OBVIOUS
    <3> QED
      BY <3>1, <3>2
  <2>3. ASSUME NEW t \in NewThreads(p, i)
        PROVE  \E n \in 1..Len(Routes[i]) : t.out = Routes[i][n]
    BY DEF NewThreads
  <2> QED
    BY <2>1, <2>2, <2>3
<1>7. Live' = Live \union {p} /\ Unused' = Unused \ {p}
  BY <1>2, <1>4 DEF Live, Unused, TypeOK
<1>8. \A t \in NewThreads(p, i) : t.task = p
  BY DEF NewThreads
<1>9. \A t \in threads : t.task # p
  BY <1>2 DEF EngineInv, ThreadInv
<1>10. \A q \in Tasks \ {p} : /\ RoutesOf(q)' = RoutesOf(q)
                              /\ ThreadsOf(q)' = ThreadsOf(q)
  <2>1. \A q \in Tasks \ {p} : RoutesOf(q)' = RoutesOf(q)
    BY <1>5 DEF RoutesOf
  <2>2. \A q \in Tasks \ {p} : ThreadsOf(q)' = ThreadsOf(q)
    BY <1>4, <1>8 DEF ThreadsOf
  <2> QED
    BY <2>1, <2>2
<1>11. ThreadsOf(p)' = NewThreads(p, i)
  BY <1>4, <1>8, <1>9 DEF ThreadsOf
<1> QED
  BY <1>2, <1>3, <1>4, <1>6, <1>7, <1>10, <1>11

\* An expired timer whose request and retry context exist.
LEMMA TimerStep ==
  ASSUME TypeOK, EngineInv, NEW r \in timers, HandleTimer(r)
  PROVE  /\ r = <<r[1], r[2]>> /\ r[1] \in Live /\ r[2] \in Outputs
         /\ r \in requests /\ r[1] \in Tasks
         /\ engine = "running"
         /\ UNCHANGED <<engine, requests_wait, status, i_ins, retries, outcome>>
         /\ requests' = requests \ {r} /\ timers' = timers \ {r}
         /\ \E t : /\ t.task = r[1] /\ t.out = r[2]
                   /\ threads' = threads \union {t}
<1>1. r[1] \in Tasks /\ r[2] \in Outputs /\ r = <<r[1], r[2]>>
  BY DEF TypeOK
<1>2. r[1] \in Live
  BY <1>1 DEF HandleTimer, EngineInv, RouteInv
<1>3. /\ r \in requests /\ engine = "running"
      /\ UNCHANGED <<engine, requests_wait, status, i_ins, retries, outcome>>
      /\ requests' = requests \ {r} /\ timers' = timers \ {r}
  BY DEF HandleTimer, HandlingTimer, Idle
<1>4. \E t : /\ t.task = r[1] /\ t.out = r[2]
             /\ threads' = threads \union {t}
  <2> DEFINE t == [task |-> r[1], id |-> n_threads[r[1]], out |-> r[2]]
  <2>1. threads' = threads \union {t}
    BY DEF HandleTimer, flb_task_add_thread
  <2>2. t.task = r[1] /\ t.out = r[2]
    OBVIOUS
  <2> QED
    BY <2>1, <2>2
<1> QED
  BY <1>1, <1>2, <1>3, <1>4

\* A retry that is granted and scheduled.
LEMMA RetryStep ==
  ASSUME TypeOK, EngineInv, NEW t \in threads, TaskRetry(t)
  PROVE  /\ t.task \in Live /\ t.task \in Tasks /\ t.out \in Outputs
         /\ engine = "running" /\ ~RetryRefused(t.task, t.out)
         /\ UNCHANGED <<engine, timers, status, i_ins, outcome>>
         /\ threads' = threads \ {t}
         /\ requests \subseteq requests'
         /\ Pending' = Pending \union {<<t.task, t.out>>}
         /\ retries' = [retries EXCEPT ![t.task][t.out] = @ + 1]
<1>1. t.task \in Live /\ t.task \in Tasks /\ t.out \in Outputs
  BY WithoutRetryType DEF EngineInv, ThreadInv
<1>2. /\ engine = "running" /\ ~RetryRefused(t.task, t.out)
      /\ UNCHANGED <<engine, timers, status, i_ins, outcome>>
      /\ threads' = threads \ {t}
      /\ retries' = [retries EXCEPT ![t.task][t.out] = @ + 1]
  BY DEF TaskRetry, TaskResult, ManagerReads, Idle, flb_task_retry_create
<1>3. /\ requests \subseteq requests'
      /\ Pending' = Pending \union {<<t.task, t.out>>}
  BY DEF TaskRetry, flb_sched_request_create, schedule_request_now,
         schedule_request_wait, Pending
<1> QED
  BY <1>1, <1>2, <1>3
-------------------------------------------------------------------------------
(* Deliveries go to the routes of the input only.                          *)

LEMMA DestInit == Init => DestInv
BY DEF Init, TaskInit, DestInv, Live

LEMMA DestNext == TypeOK /\ EngineInv /\ DestInv /\ [Next]_vars => DestInv'
<1> SUFFICES ASSUME TypeOK, EngineInv, DestInv, [Next]_vars PROVE DestInv'
  OBVIOUS
<1>1. ASSUME i_ins' = i_ins, Live' \subseteq Live, threads' \subseteq threads,
             Pending' \subseteq Pending
      PROVE  DestInv'
  BY <1>1 DEF DestInv, RoutesOf
<1>2. CASE Quiet /\ UNCHANGED schedVars
  BY <1>1, <1>2 DEF Quiet, taskVars, schedVars, Live, Pending
<1>3. ASSUME NEW due \in SUBSET requests_wait, NEW refused \in SUBSET due,
             HandleFrame(due, refused)
      PROVE  DestInv'
  BY <1>1, <1>3
  DEF HandleFrame, schedule_request_promote, taskVars, Live, Pending
<1>4. ASSUME NEW i \in Inputs, DispatchTask(i) PROVE DestInv'
  <2>1. PICK p \in Unused :
          /\ p \in Tasks
          /\ UNCHANGED schedVars
          /\ threads' = threads \union NewThreads(p, i)
          /\ RoutesOf(p)' = {t.out : t \in NewThreads(p, i)}
          /\ Live' = Live \union {p}
          /\ \A q \in Tasks \ {p} : RoutesOf(q)' = RoutesOf(q)
    BY <1>4, AcceptStep
  <2>2. Pending' = Pending
    BY <2>1 DEF Pending, schedVars
  <2>3. \A o \in Outputs : <<p, o>> \notin Pending
    BY DEF EngineInv, RouteInv
  <2>4. \A t \in NewThreads(p, i) : t.task = p
    BY DEF NewThreads
  <2>5. \A t \in threads : t.task \in Tasks \ {p}
    BY DEF EngineInv, ThreadInv, Unused, Live
  <2>6. Live \subseteq Tasks \ {p}
    BY DEF Unused, Live
  <2>7. ASSUME NEW t \in threads' PROVE t.out \in RoutesOf(t.task)'
    BY <2>1, <2>4, <2>5 DEF DestInv
  <2>8. ASSUME NEW q \in Live', NEW o \in Outputs, <<q, o>> \in Pending'
        PROVE  o \in RoutesOf(q)'
    BY <2>1, <2>2, <2>3, <2>6, <2>8 DEF DestInv
  <2> QED
    BY <2>7, <2>8 DEF DestInv
<1>5. ASSUME NEW t \in threads, Releases(t) PROVE DestInv'
  <2>1. /\ i_ins' = i_ins /\ threads' \subseteq threads
        /\ Pending' \subseteq Pending
    BY <1>5, ReleaseStep DEF Pending
  <2>2. Live' \subseteq Live
    BY <1>5, ReleaseStep DEF Live
  <2> QED
    BY <1>1, <2>1, <2>2
<1>6. ASSUME NEW t \in threads, TaskRetry(t) PROVE DestInv'
  <2>1. /\ i_ins' = i_ins /\ status' = status /\ threads' = threads \ {t}
        /\ Pending' = Pending \union {<<t.task, t.out>>}
    BY <1>6, RetryStep
  <2> QED
    BY <2>1 DEF DestInv, RoutesOf, Live
<1>7. ASSUME NEW r \in timers, HandleTimer(r) PROVE DestInv'
  <2>1. /\ r = <<r[1], r[2]>> /\ r[1] \in Live /\ r[2] \in Outputs
        /\ r \in Pending /\ Pending' \subseteq Pending
        /\ i_ins' = i_ins /\ status' = status
    BY <1>7, TimerStep DEF Pending
  <2>2. PICK t : t.task = r[1] /\ t.out = r[2] /\ threads' = threads \union {t}
    BY <1>7, TimerStep
  <2>3. r[2] \in RoutesOf(r[1])
    BY <2>1 DEF DestInv
  <2> QED
    BY <2>1, <2>2, <2>3 DEF DestInv, RoutesOf, Live
<1>8. CASE flb_engine_shutdown
  BY <1>1, <1>8 DEF flb_engine_shutdown, Live, Pending
<1> QED
  BY <1>2, <1>3, <1>4, <1>5, <1>6, <1>7, <1>8, StepKinds

(***************************************************************************)
(* Only the routes of a task's input are ever tried or retried.            *)
(***************************************************************************)
THEOREM DestCorrect == Spec => []DestInv
BY DestInit, DestNext, InvCorrect, PTL DEF Spec
-------------------------------------------------------------------------------
(* No route is forgotten.                                                  *)

LEMMA HeldNext ==
  ASSUME ~TimerMayFail, TypeOK, EngineInv, HeldInv, [Next]_vars
  PROVE  HeldInv'
<1>0. HeldInv' <=>
        \A p \in Live' : \A o \in RoutesOf(p)' : outcome'[p][o] = "none" =>
          (\E t \in ThreadsOf(p)' : t.out = o) \/ <<p, o>> \in Pending'
  BY DEF HeldInv
<1>1. ASSUME UNCHANGED <<taskVars, outcome>>, Pending' = Pending PROVE HeldInv'
  BY <1>1 DEF HeldInv, Live, RoutesOf, ThreadsOf, taskVars
<1>2. CASE Quiet /\ UNCHANGED schedVars
  BY <1>1, <1>2 DEF Quiet, schedVars, Pending
<1>3. ASSUME NEW due \in SUBSET requests_wait, NEW refused \in SUBSET due,
             HandleFrame(due, refused)
      PROVE  HeldInv'
  <2>1. refused = {}
    BY <1>3 DEF HandleFrame, schedule_request_promote
  <2> QED
    BY <1>1, <1>3, <2>1 DEF HandleFrame, schedule_request_promote, Pending
<1>4. ASSUME NEW i \in Inputs, DispatchTask(i) PROVE HeldInv'
  <2>1. PICK p \in Unused :
          /\ p \in Tasks
          /\ UNCHANGED <<schedVars, outcome>>
          /\ RoutesOf(p)' = {t.out : t \in NewThreads(p, i)}
          /\ Live' = Live \union {p}
          /\ \A q \in Tasks \ {p} : /\ RoutesOf(q)' = RoutesOf(q)
                                    /\ ThreadsOf(q)' = ThreadsOf(q)
          /\ ThreadsOf(p)' = NewThreads(p, i)
    BY <1>4, AcceptStep
  <2>2. Pending' = Pending
    BY <2>1 DEF Pending, schedVars
  <2>3. Live \subseteq Tasks \ {p}
    BY DEF Unused, Live
  <2> SUFFICES ASSUME NEW q \in Live', NEW o \in RoutesOf(q)',
                      outcome'[q][o] = "none"
               PROVE  \/ \E t \in ThreadsOf(q)' : t.out = o
                      \/ <<q, o>> \in Pending'
    BY <1>0
  <2>4. CASE q = p
    BY <2>1, <2>4
  <2>5. CASE q # p
    <3>1. q \in Live /\ o \in RoutesOf(q) /\ outcome[q][o] = "none"
      BY <2>1, <2>3, <2>5
    <3>2. (\E t \in ThreadsOf(q) : t.out = o) \/ <<q, o>> \in Pending
      BY <3>1 DEF HeldInv
    <3> QED
      BY <2>1, <2>2, <2>3, <3>1, <3>2
  <2> QED
    BY <2>4, <2>5
<1>5. ASSUME NEW t \in threads, Releases(t) PROVE HeldInv'
  <2> SUFFICES ASSUME NEW p \in Live', NEW o \in RoutesOf(p)',
                      outcome'[p][o] = "none"
               PROVE  \/ \E u \in ThreadsOf(p)' : u.out = o
                      \/ <<p, o>> \in Pending'
    BY <1>0
  <2>1. p \in Live /\ p \in Tasks /\ p \notin GoneWith(t)
    BY <1>5, ReleaseStep DEF Live
  <2>2. o \in RoutesOf(p) /\ o \in Outputs
    <3>1. i_ins' = i_ins
      BY <1>5, ReleaseStep
    <3> QED
      BY <2>1, <3>1, TaskAssumption DEF RoutesOf, TaskAssumption, TypeOK
  <2>3. PICK f \in Final : outcome' = [outcome EXCEPT ![t.task][t.out] = f]
    BY <1>5, ReleaseStep
  <2>4. t.task \in Tasks /\ t.out \in Outputs
    BY <1>5, ReleaseStep
  <2>5. <<p, o>> # <<t.task, t.out>> /\ outcome[p][o] = "none"
    BY <2>1, <2>2, <2>3, <2>4 DEF TypeOK, Final
  <2>6. CASE <<p, o>> \in Pending
    BY <1>5, <2>1, <2>5, <2>6, ReleaseStep DEF Pending
  <2>7. CASE \E u \in ThreadsOf(p) : u.out = o
    <3>1. PICK u \in ThreadsOf(p) : u.out = o
      BY <2>7
    <3>2. u # t /\ u \in threads
      BY <2>5, <3>1 DEF ThreadsOf
    <3>3. threads' = threads \ {t}
      BY <1>5, ReleaseStep
    <3>4. u \in ThreadsOf(p)'
      BY <3>1, <3>2, <3>3 DEF ThreadsOf
    <3> QED
      BY <3>1, <3>4
  <2> QED
    BY <2>1, <2>2, <2>5, <2>6, <2>7 DEF HeldInv
<1>6. ASSUME NEW t \in threads, TaskRetry(t) PROVE HeldInv'
  <2>1. /\ UNCHANGED <<status, i_ins, outcome>> /\ threads' = threads \ {t}
        /\ Pending' = Pending \union {<<t.task, t.out>>}
    BY <1>6, RetryStep
  <2> SUFFICES ASSUME NEW p \in Live', NEW o \in RoutesOf(p)',
                      outcome'[p][o] = "none", <<p, o>> \notin Pending'
               PROVE  \E u \in ThreadsOf(p)' : u.out = o
    BY <1>0
  <2>2. p \in Live /\ o \in RoutesOf(p) /\ outcome[p][o] = "none"
    BY <2>1 DEF Live, RoutesOf
  <2>3. PICK u \in ThreadsOf(p) : u.out = o
    BY <2>1, <2>2 DEF HeldInv
  <2>4. u \in ThreadsOf(p)'
    BY <2>1, <2>3 DEF ThreadsOf
  <2> QED
    BY <2>3, <2>4
<1>7. ASSUME NEW r \in timers, HandleTimer(r) PROVE HeldInv'
  <2>1. /\ UNCHANGED <<status, i_ins, outcome>> /\ r = <<r[1], r[2]>>
        /\ \A x \in Pending : x \in Pending' \/ x = r
    BY <1>7, TimerStep DEF Pending
  <2>2. PICK t : t.task = r[1] /\ t.out = r[2] /\ threads' = threads \union {t}
    BY <1>7, TimerStep
  <2> SUFFICES ASSUME NEW p \in Live', NEW o \in RoutesOf(p)',
                      outcome'[p][o] = "none", <<p, o>> \notin Pending'
               PROVE  \E u \in ThreadsOf(p)' : u.out = o
    BY <1>0
  <2>3. p \in Live /\ o \in RoutesOf(p) /\ outcome[p][o] = "none"
    BY <2>1 DEF Live, RoutesOf
  <2>4. CASE <<p, o>> \in Pending
    <3>1. p = r[1] /\ o = r[2]
      BY <2>1, <2>4
    <3>2. t \in ThreadsOf(p)'
      BY <2>2, <3>1 DEF ThreadsOf
    <3> QED
      BY <2>2, <3>1, <3>2
  <2>5. CASE <<p, o>> \notin Pending
    <3>1. PICK u \in ThreadsOf(p) : u.out = o
      BY <2>3, <2>5 DEF HeldInv
    <3>2. u \in ThreadsOf(p)'
      BY <2>2, <3>1 DEF ThreadsOf
    <3> QED
      BY <3>1, <3>2
  <2> QED
    BY <2>4, <2>5
<1>8. CASE flb_engine_shutdown
  <2>1. Live' = {}
    BY <1>8 DEF flb_engine_shutdown, Live
  <2> QED
    BY <1>0, <2>1
<1> QED
  BY <1>2, <1>3, <1>4, <1>5, <1>6, <1>7, <1>8, StepKinds

(***************************************************************************)
(* While mk_event_timeout_create() always finds a descriptor, every route  *)
(* of a living task that has no final result yet is held by an output      *)
(* thread or by a request of the scheduler, however many routes there are. *)
(***************************************************************************)
THEOREM ForgottenCorrect == ~TimerMayFail => (Spec => []NoRouteForgotten)
<1> SUFFICES ASSUME ~TimerMayFail PROVE Spec => []NoRouteForgotten
  OBVIOUS
<1>1. Init => HeldInv
  BY DEF Init, TaskInit, HeldInv, Live
<1>2. TypeOK /\ EngineInv /\ HeldInv /\ [Next]_vars => HeldInv'
  BY HeldNext
<1>3. HeldInv => NoRouteForgotten
  <2> SUFFICES ASSUME HeldInv, NEW p \in Live, NEW o \in RoutesOf(p),
                      outcome[p][o] = "none"
               PROVE  Holders(p, o) # {}
    BY DEF NoRouteForgotten
  <2>1. CASE <<p, o>> \in Pending
    <3>1. <<"request", 0>> \in Holders(p, o) \/ <<"wait", 0>> \in Holders(p, o)
      BY <2>1 DEF Pending, Holders
    <3> QED
      BY <3>1
  <2>2. CASE \E t \in ThreadsOf(p) : t.out = o
    <3>1. PICK t \in ThreadsOf(p) : t.out = o
      BY <2>2
    <3>2. <<"thread", t.id>> \in Holders(p, o)
      BY <3>1 DEF Holders
    <3> QED
      BY <3>2
  <2> QED
    BY <2>1, <2>2 DEF HeldInv
<1> QED
  BY <1>1, <1>2, <1>3, InvCorrect, PTL DEF Spec
-------------------------------------------------------------------------------
(* One route per input: nothing dangles and nothing is lost.               *)

\* With one route per input, the routes of a task are the one of its thread.
LEMMA OnlyRoute ==
  ASSUME SingleRoute, TypeOK, EngineInv, DestInv, NEW t \in threads
  PROVE  /\ t.task \in Live /\ t.task \in Tasks /\ t.out \in Outputs
         /\ RoutesOf(t.task) = {t.out}
         /\ \A o \in Outputs : <<t.task, o>> \notin Pending
<1>1. t.task \in Live /\ t.task \in Tasks /\ t.out \in Outputs
  BY WithoutRetryType DEF EngineInv, ThreadInv
<1>2. t.out \in RoutesOf(t.task)
  BY DEF DestInv
<1>3. \A o \in RoutesOf(t.task) : o = t.out
  <2>1. i_ins[t.task] \in Inputs
    BY <1>1 DEF TypeOK
  <2>2. Len(Routes[i_ins[t.task]]) <= 1 /\ Len(Routes[i_ins[t.task]]) \in Nat
    BY <2>1, TaskAssumption DEF TaskAssumption, SingleRoute
  <2>3. \A j, k \in 1..Len(Routes[i_ins[t.task]]) : j = k
    BY <2>2
  <2> QED
    BY <1>2, <2>3 DEF RoutesOf
<1>4. <<t.task, t.out>> \notin Pending
  BY DEF EngineInv, RouteInv
<1>5. \A o \in Outputs : <<t.task, o>> \notin Pending
  BY <1>1, <1>3, <1>4 DEF DestInv
<1> QED
  BY <1>1, <1>2, <1>3, <1>5

LEMMA SingleInit == Init => SingleInv
<1> SUFFICES ASSUME Init PROVE SingleInv
  OBVIOUS
<1>1. NoDanglingRequest
  BY DEF Init, NoDanglingRequest
<1>2. NoSilentLoss
  BY DEF Init, TaskInit, NoSilentLoss
<1>3. NoUseAfterFree /\ timers \subseteq requests
  BY DEF Init, NoUseAfterFree
<1> QED
  BY <1>1, <1>2, <1>3 DEF SingleInv

LEMMA SingleNext ==
  ASSUME SingleRoute, TypeOK, EngineInv, DestInv, SingleInv, [Next]_vars
  PROVE  SingleInv'
<1>0. /\ \A r \in Pending : r[1] \in Live /\ retries[r[1]][r[2]] > 0
      /\ \A r \in Pending : /\ r[1] \in Tasks /\ r[2] \in Outputs
                            /\ r = <<r[1], r[2]>>
      /\ NoSilentLoss /\ engine # "undefined"
      /\ engine = "running" => timers \subseteq requests
      /\ requests \subseteq Pending
  BY DEF SingleInv, NoDanglingRequest, NoUseAfterFree, Pending, TypeOK
<1>1. ASSUME \A r \in Pending' : r[1] \in Live' /\ retries'[r[1]][r[2]] > 0,
             NoSilentLoss',
             engine' # "undefined",
             engine' = "running" => timers' \subseteq requests'
      PROVE  SingleInv'
  BY <1>1 DEF SingleInv, NoDanglingRequest, NoUseAfterFree, Pending
\* A step that settles nothing and frees nothing keeps NoSilentLoss.
<1>2. ASSUME UNCHANGED <<status, i_ins, outcome>>, engine = "running"
      PROVE  NoSilentLoss' /\ Live' = Live
  BY <1>0, <1>2 DEF NoSilentLoss, RoutesOf, Live
\* No timer of the batch belongs to a freed request.
<1>3. ASSUME NEW r \in timers, HandleTimerFreed(r) PROVE FALSE
  <2>1. engine = "running" /\ (r \notin requests \/ retries[r[1]][r[2]] = 0)
    BY <1>3 DEF HandleTimerFreed, HandlingTimer, Idle
  <2>2. r \in Pending
    BY <1>0, <2>1
  <2>3. retries[r[1]][r[2]] > 0 /\ retries[r[1]][r[2]] \in Nat
    BY <1>0, <2>2 DEF TypeOK
  <2> QED
    BY <1>0, <2>1, <2>3
<1>4. CASE UNCHANGED <<taskVars, schedVars, outcome, engine>>
           /\ (timers' = timers \/ timers' \subseteq requests)
  <2>1. NoSilentLoss' /\ Live' = Live /\ Pending' = Pending
    BY <1>0, <1>4
    DEF NoSilentLoss, RoutesOf, Live, Pending, taskVars, schedVars
  <2> QED
    BY <1>0, <1>1, <1>4, <2>1 DEF taskVars, schedVars
<1>5. ASSUME NEW due \in SUBSET requests_wait, NEW refused \in SUBSET due,
             HandleFrame(due, refused)
      PROVE  SingleInv'
  <2>1. /\ UNCHANGED <<status, i_ins, outcome, engine, retries, timers>>
        /\ engine = "running" /\ requests \subseteq requests'
        /\ Pending' \subseteq Pending
    BY <1>5 DEF HandleFrame, Idle, schedule_request_promote, taskVars,
                loopVars, Pending
  <2> QED
    BY <1>0, <1>1, <1>2, <2>1
<1>6. ASSUME NEW i \in Inputs, DispatchTask(i) PROVE SingleInv'
  <2>1. PICK p \in Unused :
          /\ p \in Tasks
          /\ engine = "running"
          /\ UNCHANGED <<schedVars, engine, timers, retries, outcome>>
          /\ status' = [status EXCEPT ![p] = "running"]
          /\ Live' = Live \union {p}
          /\ \A q \in Tasks \ {p} : RoutesOf(q)' = RoutesOf(q)
    BY <1>6, AcceptStep
  <2>2. Pending' = Pending /\ requests' = requests
    BY <2>1 DEF Pending, schedVars
  <2>3. \A q \in Tasks : status'[q] = "freed" => q # p /\ status[q] = "freed"
    BY <2>1 DEF TypeOK
  <2>4. NoSilentLoss'
    BY <1>0, <2>1, <2>3 DEF NoSilentLoss
  <2> QED
    BY <1>0, <1>1, <2>1, <2>2, <2>4
<1>7. ASSUME NEW t \in threads, Releases(t) PROVE SingleInv'
  <2>1. /\ engine = "running" /\ UNCHANGED <<engine, timers, i_ins>>
        /\ threads' = threads \ {t}
        /\ status' = [p \in Tasks |->
                        IF p \in GoneWith(t) THEN "freed" ELSE status[p]]
        /\ requests_wait' = requests_wait
        /\ requests' \subseteq requests
        /\ \A r \in requests : \/ r \in requests'
                               \/ r = <<t.task, t.out>>
                               \/ r[1] \in GoneWith(t)
        /\ \A p \in Tasks, o \in Outputs :
             p \notin GoneWith(t) /\ <<p, o>> # <<t.task, t.out>>
               => retries'[p][o] = retries[p][o]
    BY <1>7, ReleaseStep
  <2>2. PICK f \in Final : outcome' = [outcome EXCEPT ![t.task][t.out] = f]
    BY <1>7, ReleaseStep
  <2>3. /\ t.task \in Live /\ t.task \in Tasks /\ t.out \in Outputs
        /\ RoutesOf(t.task) = {t.out}
        /\ \A o \in Outputs : <<t.task, o>> \notin Pending
    BY OnlyRoute
  <2>4. \A r \in Pending : r[1] # t.task
    BY <1>0, <2>3
  <2>5. GoneWith(t) \subseteq {t.task}
    BY DEF GoneWith
  <2>6. requests' = requests /\ Pending' = Pending
    BY <1>0, <2>1, <2>4, <2>5 DEF Pending
  <2>7. \A r \in Pending' : r[1] \in Live' /\ retries'[r[1]][r[2]] > 0
    <3> SUFFICES ASSUME NEW r \in Pending
                 PROVE  r[1] \in Live' /\ retries'[r[1]][r[2]] > 0
      BY <2>6
    <3>1. /\ r[1] \in Live /\ r[1] \in Tasks /\ r[2] \in Outputs
          /\ r[1] # t.task /\ retries[r[1]][r[2]] > 0
      BY <1>0, <2>4
    <3>2. retries'[r[1]][r[2]] = retries[r[1]][r[2]]
      BY <2>1, <2>5, <3>1
    <3>3. status'[r[1]] = status[r[1]]
      BY <2>1, <2>5, <3>1
    <3> QED
      BY <3>1, <3>2, <3>3 DEF Live
  <2>8. NoSilentLoss'
    <3> SUFFICES ASSUME NEW p \in Tasks, status'[p] = "freed",
                        NEW o \in RoutesOf(p)'
                 PROVE  outcome'[p][o] # "none"
      BY DEF NoSilentLoss
    <3>1. o \in RoutesOf(p) /\ o \in Outputs
      BY <2>1, TaskAssumption DEF RoutesOf, TaskAssumption, TypeOK
    <3>2. CASE p = t.task
      <4>1. o = t.out
        BY <2>3, <3>1, <3>2
      <4>2. outcome'[p][o] = f
        BY <2>2, <2>3, <3>2, <4>1 DEF TypeOK
      <4> QED
        BY <4>2 DEF Final
    <3>3. CASE p # t.task
      <4>1. status[p] = "freed"
        BY <2>1, <2>5, <3>3
      <4>2. outcome[p][o] # "none"
        BY <1>0, <2>1, <3>1, <4>1 DEF NoSilentLoss
      <4>3. outcome'[p][o] = outcome[p][o]
        BY <2>2, <2>3, <3>1, <3>3 DEF TypeOK
      <4> QED
        BY <4>2, <4>3
    <3> QED
      BY <3>2, <3>3
  <2> QED
    BY <1>0, <1>1, <2>1, <2>6, <2>7, <2>8
<1>8. ASSUME NEW t \in threads, TaskRetry(t) PROVE SingleInv'
  <2>1. /\ t.task \in Live /\ t.task \in Tasks /\ t.out \in Outputs
        /\ UNCHANGED <<engine, timers, status, i_ins, outcome>>
        /\ engine = "running"
        /\ requests \subseteq requests'
        /\ Pending' = Pending \union {<<t.task, t.out>>}
        /\ retries' = [retries EXCEPT ![t.task][t.out] = @ + 1]
    BY <1>8, RetryStep
  <2>2. NoSilentLoss' /\ Live' = Live
    BY <1>2, <2>1
  <2>3. \A p \in Tasks, o \in Outputs :
          retries[p][o] \in Nat /\ retries'[p][o] \in Nat /\
          retries'[p][o] >= retries[p][o]
    BY <2>1 DEF TypeOK
  <2>4. retries'[t.task][t.out] > 0
    BY <2>1 DEF TypeOK
  <2>5. \A r \in Pending : retries'[r[1]][r[2]] > 0
    BY <1>0, <2>3
  <2>6. \A r \in Pending' : r[1] \in Live' /\ retries'[r[1]][r[2]] > 0
    BY <1>0, <2>1, <2>2, <2>4, <2>5
  <2> QED
    BY <1>0, <1>1, <2>1, <2>2, <2>6
<1>9. ASSUME NEW r \in timers, HandleTimer(r) PROVE SingleInv'
  <2>1. /\ engine = "running"
        /\ UNCHANGED <<engine, requests_wait, status, i_ins, retries, outcome>>
        /\ requests' = requests \ {r} /\ timers' = timers \ {r}
    BY <1>9, TimerStep
  <2>2. NoSilentLoss' /\ Live' = Live
    BY <1>2, <2>1
  <2>3. Pending' \subseteq Pending
    BY <2>1 DEF Pending
  <2> QED
    BY <1>0, <1>1, <2>1, <2>2, <2>3
<1>10. CASE flb_engine_shutdown
  <2>1. engine' = "stopped" /\ Pending' = {}
    BY <1>10 DEF flb_engine_shutdown, Pending
  <2>2. NoSilentLoss'
    BY <2>1 DEF NoSilentLoss
  <2> QED
    BY <1>1, <2>1, <2>2
<1>11. \/ UNCHANGED <<taskVars, schedVars, outcome, engine>>
          /\ (timers' = timers \/ timers' \subseteq requests)
       \/ \E due \in SUBSET requests_wait : \E refused \in SUBSET due :
            HandleFrame(due, refused)
       \/ \E i \in Inputs : DispatchTask(i)
       \/ \E t \in threads : Releases(t)
       \/ \E t \in threads : TaskRetry(t)
       \/ \E r \in timers : HandleTimer(r)
       \/ flb_engine_shutdown
  BY <1>3
  DEF Next, Releases, Collect, flb_output_return, flb_engine_exit,
      mk_event_wait, HandleFlush, DispatchNothing, DispatchDropped,
      Dispatching, ManagerStop, ManagerReads, loopVars, vars
<1> QED
  BY <1>1, <1>4, <1>5, <1>6, <1>7, <1>8, <1>9, <1>10, <1>11

(***************************************************************************)
(* When no input has more than one route, the timers of a batch belong to  *)
(* requests that exist, and the three properties below hold together.      *)
(***************************************************************************)
THEOREM SingleCorrect == SingleRoute => (Spec => []SingleInv)
<1> SUFFICES ASSUME SingleRoute PROVE Spec => []SingleInv
  OBVIOUS
<1>1. TypeOK /\ EngineInv /\ DestInv /\ SingleInv /\ [Next]_vars => SingleInv'
  BY SingleNext
<1> QED
  BY <1>1, SingleInit, DestCorrect, InvCorrect, PTL DEF Spec

(***************************************************************************)
(* One route per input: a request always points at a living retry context. *)
(***************************************************************************)
THEOREM DanglingCorrect == SingleRoute => (Spec => []NoDanglingRequest)
<1> SUFFICES ASSUME SingleRoute PROVE Spec => []NoDanglingRequest
  OBVIOUS
<1>1. SingleInv => NoDanglingRequest
  BY DEF SingleInv
<1> QED
  BY <1>1, SingleCorrect, PTL

(***************************************************************************)
(* One route per input: a running engine frees a task only once its route  *)
(* has a final result.                                                     *)
(***************************************************************************)
THEOREM LossCorrect == SingleRoute => (Spec => []NoSilentLoss)
<1> SUFFICES ASSUME SingleRoute PROVE Spec => []NoSilentLoss
  OBVIOUS
<1>1. SingleInv => NoSilentLoss
  BY DEF SingleInv
<1> QED
  BY <1>1, SingleCorrect, PTL

(***************************************************************************)
(* One route per input: no handler of a batch works on a freed timer.      *)
(***************************************************************************)
THEOREM UseCorrect == SingleRoute => (Spec => []NoUseAfterFree)
<1> SUFFICES ASSUME SingleRoute PROVE Spec => []NoUseAfterFree
  OBVIOUS
<1>1. SingleInv => NoUseAfterFree
  BY DEF SingleInv
<1> QED
  BY <1>1, SingleCorrect, PTL
-------------------------------------------------------------------------------
(* The engine implements FlbDelivery.                                      *)

\* The delivery of a route is what it was if nothing it is read off changes.
LEMMA PhaseSame ==
  ASSUME NEW p \in Tasks, NEW o \in Outputs,
         status'[p] = status[p], outcome'[p][o] = outcome[p][o],
         RoutesOf(p)' = RoutesOf(p),
         (\E t \in ThreadsOf(p)' : t.out = o) <=> (\E t \in ThreadsOf(p) : t.out = o)
  PROVE  /\ PhaseOf(p, o)' = PhaseOf(p, o)
         /\ retries'[p][o] = retries[p][o] => TriesOf(p, o)' = TriesOf(p, o)
<1>1. PhaseOf(p, o)' = PhaseOf(p, o)
  BY DEF PhaseOf
<1> QED
  BY <1>1 DEF TriesOf

\* A thread's route is being tried, and only there somebody tries.
LEMMA PhaseThread ==
  ASSUME TypeOK, EngineInv, DestInv, NEW t \in threads
  PROVE  /\ PhaseOf(t.task, t.out) = "trying"
         /\ TriesOf(t.task, t.out) = retries[t.task][t.out]
<1>1. outcome[t.task][t.out] = "none" /\ t.out \in RoutesOf(t.task)
  BY DEF EngineInv, RouteInv, DestInv
<1>2. status[t.task] = "running"
  BY DEF EngineInv, ThreadInv, Live
<1>3. t \in ThreadsOf(t.task)
  BY DEF ThreadsOf
<1>4. PhaseOf(t.task, t.out) = "trying"
  BY <1>1, <1>2, <1>3 DEF PhaseOf
<1> QED
  BY <1>4 DEF TriesOf

\* The values a settled route may have are those of FlbDelivery.
LEMMA PhaseValues ==
  ASSUME TypeOK, NEW p \in Tasks, NEW o \in Outputs
  PROVE  /\ outcome[p][o] # "none" => /\ PhaseOf(p, o) = outcome[p][o]
                                      /\ PhaseOf(p, o) \in Final
         /\ PhaseOf(p, o) \in Final \union {"idle", "abandoned", "trying", "backoff"}
BY DEF PhaseOf, TypeOK, Final

\* A step that concerns one task only.
LEMMA OneTask ==
  ASSUME NEW p \in Tasks,
         \A q \in Tasks \ {p}, o \in Outputs :
           PhaseOf(q, o)' = PhaseOf(q, o) /\ TriesOf(q, o)' = TriesOf(q, o),
         NEW ph, NEW tr,
         ph = [o \in Outputs |-> PhaseOf(p, o)'],
         tr = [o \in Outputs |-> TriesOf(p, o)']
  PROVE  /\ phaseBar' = [phaseBar EXCEPT ![p] = ph]
         /\ triesBar' = [triesBar EXCEPT ![p] = tr]
<1>1. phaseBar' = [phaseBar EXCEPT ![p] = ph]
  BY DEF phaseBar
<1>2. triesBar' = [triesBar EXCEPT ![p] = tr]
  BY DEF triesBar
<1> QED
  BY <1>1, <1>2

LEMMA BarValues ==
  ASSUME NEW p \in Tasks, NEW o \in Outputs
  PROVE  /\ phaseBar[p][o] = PhaseOf(p, o)
         /\ triesBar[p][o] = TriesOf(p, o)
         /\ phaseBar[p] = [q \in Outputs |-> PhaseOf(p, q)]
         /\ triesBar[p] = [q \in Outputs |-> TriesOf(p, q)]
BY DEF phaseBar, triesBar

\* A step that leaves every delivery alone.
LEMMA DeliverySame ==
  ASSUME UNCHANGED <<taskVars, outcome>>,
         engine = "stopped" <=> engine' = "stopped"
  PROVE  UNCHANGED <<phaseBar, triesBar, upBar>>
<1>1. \A p \in Tasks : RoutesOf(p)' = RoutesOf(p) /\ ThreadsOf(p)' = ThreadsOf(p)
  BY DEF taskVars, RoutesOf, ThreadsOf
<1>2. UNCHANGED <<status, outcome, retries>>
  BY DEF taskVars
<1>3. \A p \in Tasks, o \in Outputs :
        PhaseOf(p, o)' = PhaseOf(p, o) /\ TriesOf(p, o)' = TriesOf(p, o)
  BY <1>1, <1>2, PhaseSame
<1>4. phaseBar' = phaseBar
  BY <1>3 DEF phaseBar
<1>5. triesBar' = triesBar
  BY <1>3 DEF triesBar
<1>6. upBar' = upBar
  BY DEF upBar
<1> QED
  BY <1>4, <1>5, <1>6

\* flb_engine_dispatch() accepts a task for all the routes of the input.
LEMMA DispatchAccepts ==
  ASSUME TypeOK, EngineInv, NEW i \in Inputs, DispatchTask(i)
  PROVE  Delivery!Next
<1>1. PICK p \in Unused :
        /\ p \in Tasks /\ p \notin Live
        /\ engine = "running" /\ Routes[i] # <<>>
        /\ UNCHANGED <<schedVars, engine, timers, retries, outcome>>
        /\ status' = [status EXCEPT ![p] = "running"]
        /\ RoutesOf(p)' = {t.out : t \in NewThreads(p, i)}
        /\ \A q \in Tasks \ {p} : /\ RoutesOf(q)' = RoutesOf(q)
                                  /\ ThreadsOf(q)' = ThreadsOf(q)
        /\ ThreadsOf(p)' = NewThreads(p, i)
  BY AcceptStep
<1> DEFINE R == RoutesOf(p)'
           ph == [o \in Outputs |-> IF o \in R THEN "trying" ELSE "idle"]
<1>2. \A o \in Outputs : outcome[p][o] = "none" /\ retries[p][o] = 0
  <2>1. \A o \in Outputs : outcome[p][o] = "none"
    BY <1>1 DEF EngineInv, RouteInv
  <2>2. \A o \in Outputs : retries[p][o] \in Nat /\ ~(retries[p][o] > 0)
    BY <1>1 DEF EngineInv, RouteInv, TypeOK
  <2> QED
    BY <2>1, <2>2
<1>3. \A o \in Outputs : PhaseOf(p, o) = "idle" /\ TriesOf(p, o) = 0
  BY <1>1, <1>2 DEF PhaseOf, TriesOf, Unused
<1>4. \A o \in Outputs : /\ PhaseOf(p, o)' = ph[o]
                         /\ TriesOf(p, o)' = 0
  <2>1. status'[p] = "running" /\ outcome' = outcome /\ retries' = retries
    BY <1>1 DEF TypeOK
  <2>2. \A o \in Outputs : o \in R <=> \E t \in ThreadsOf(p)' : t.out = o
    BY <1>1
  <2>3. \A o \in Outputs : PhaseOf(p, o)' = ph[o]
    BY <1>2, <2>1, <2>2 DEF PhaseOf
  <2>4. \A o \in Outputs : TriesOf(p, o)' = 0
    BY <1>2, <2>1 DEF TriesOf
  <2> QED
    BY <2>3, <2>4
<1>5. \A q \in Tasks \ {p}, o \in Outputs :
        PhaseOf(q, o)' = PhaseOf(q, o) /\ TriesOf(q, o)' = TriesOf(q, o)
  <2>1. \A q \in Tasks \ {p} : status'[q] = status[q]
    BY <1>1 DEF TypeOK
  <2> QED
    BY <1>1, <2>1, PhaseSame
<1>6. R # {} /\ R \subseteq Outputs
  <2>1. Len(Routes[i]) \in Nat /\ Len(Routes[i]) # 0
    BY <1>1, TaskAssumption DEF TaskAssumption
  <2>2. [task |-> p, id |-> 1 - 1, out |-> Routes[i][1]] \in NewThreads(p, i)
    <3>1. 1 \in 1..Len(Routes[i])
      BY <2>1
    <3> QED
      BY <3>1 DEF NewThreads
  <2>3. NewThreads(p, i) \subseteq Threads
    BY <1>1, NewThreadsType
  <2> QED
    BY <1>1, <2>2, <2>3 DEF Threads
<1>7. phaseBar' = [phaseBar EXCEPT ![p] = ph]
  <2>1. ph = [o \in Outputs |-> PhaseOf(p, o)']
    BY <1>4
  <2> HIDE DEF ph
  <2> QED
    BY <1>1, <1>5, <2>1, OneTask
<1>8. triesBar' = triesBar
  <2>1. \A q \in Tasks, o \in Outputs : TriesOf(q, o)' = TriesOf(q, o)
    BY <1>3, <1>4, <1>5
  <2> QED
    BY <2>1 DEF triesBar
<1>9. upBar /\ upBar' = upBar
  BY <1>1 DEF upBar
<1>10. \A o \in Outputs : phaseBar[p][o] = "idle"
  BY <1>1, <1>3, BarValues
<1>11. Delivery!Accept(p, R)
  BY <1>6, <1>7, <1>8, <1>9, <1>10 DEF Delivery!Accept
<1>12. phaseBar'[p] # phaseBar[p]
  <2>1. PICK o \in Outputs : o \in R
    BY <1>6
  <2>2. phaseBar'[p][o] = "trying"
    BY <1>1, <1>7, <2>1 DEF phaseBar
  <2> QED
    BY <1>10, <2>2
<1>13. Delivery!Progress(p)
  BY <1>6, <1>11, <1>12 DEF Delivery!Progress
<1> QED
  BY <1>1, <1>13 DEF Delivery!Next

\* What a step on one route does to the deliveries of the task's others.
LEMMA OneRoute ==
  ASSUME TypeOK, NEW p \in Tasks, NEW o \in Outputs,
         UNCHANGED <<status, i_ins>>,
         \A q \in Tasks, w \in Outputs : <<q, w>> # <<p, o>> =>
           /\ outcome'[q][w] = outcome[q][w]
           /\ retries'[q][w] = retries[q][w]
           /\ (\E t \in ThreadsOf(q)' : t.out = w)
                <=> (\E t \in ThreadsOf(q) : t.out = w)
  PROVE  /\ phaseBar' = [phaseBar EXCEPT ![p][o] = PhaseOf(p, o)']
         /\ triesBar' = [triesBar EXCEPT ![p][o] = TriesOf(p, o)']
<1>1. \A q \in Tasks : RoutesOf(q)' = RoutesOf(q)
  BY DEF RoutesOf
<1>2. \A q \in Tasks, w \in Outputs : <<q, w>> # <<p, o>> =>
        PhaseOf(q, w)' = PhaseOf(q, w) /\ TriesOf(q, w)' = TriesOf(q, w)
  BY <1>1, PhaseSame
<1> DEFINE ph == [q \in Tasks |-> [w \in Outputs |->
                    IF q = p /\ w = o THEN PhaseOf(p, o)' ELSE PhaseOf(q, w)]]
           tr == [q \in Tasks |-> [w \in Outputs |->
                    IF q = p /\ w = o THEN TriesOf(p, o)' ELSE TriesOf(q, w)]]
<1>3. phaseBar' = ph /\ triesBar' = tr
  BY <1>2 DEF phaseBar, triesBar
<1>4. ph = [phaseBar EXCEPT ![p][o] = PhaseOf(p, o)']
  BY DEF phaseBar
<1>5. tr = [triesBar EXCEPT ![p][o] = TriesOf(p, o)']
  BY DEF triesBar
<1> QED
  BY <1>3, <1>4, <1>5

\* A granted retry: the route backs off and one more retry is counted.
LEMMA RetryBacksOff ==
  ASSUME TypeOK, EngineInv, DestInv, NEW t \in threads, TaskRetry(t)
  PROVE  Delivery!Next
<1> DEFINE p == t.task
           o == t.out
<1>1. /\ p \in Live /\ p \in Tasks /\ o \in Outputs
      /\ engine = "running" /\ ~RetryRefused(p, o)
      /\ UNCHANGED <<engine, status, i_ins, outcome>>
      /\ threads' = threads \ {t}
      /\ retries' = [retries EXCEPT ![p][o] = @ + 1]
  BY RetryStep
<1>2. PhaseOf(p, o) = "trying" /\ TriesOf(p, o) = retries[p][o]
  BY PhaseThread
<1>3. /\ \A u \in ThreadsOf(p)' : u.out # o
      /\ \A q \in Tasks, w \in Outputs : <<q, w>> # <<p, o>> =>
           ((\E u \in ThreadsOf(q)' : u.out = w)
              <=> (\E u \in ThreadsOf(q) : u.out = w))
  <2>1. \A u \in threads \ {t} : <<u.task, u.out>> # <<p, o>>
    BY DEF EngineInv, ThreadInv
  <2> QED
    BY <1>1, <2>1 DEF ThreadsOf
<1>4. PhaseOf(p, o)' = "backoff" /\ TriesOf(p, o)' = TriesOf(p, o) + 1
  <2>1. outcome[p][o] = "none" /\ o \in RoutesOf(p) /\ status[p] = "running"
    BY <1>1 DEF EngineInv, RouteInv, DestInv, Live
  <2>2. PhaseOf(p, o)' = "backoff"
    BY <1>1, <1>3, <2>1 DEF PhaseOf, RoutesOf
  <2>3. retries'[p][o] = retries[p][o] + 1
    BY <1>1 DEF TypeOK
  <2> QED
    BY <1>2, <2>2, <2>3 DEF TriesOf
<1>5. \A q \in Tasks, w \in Outputs : <<q, w>> # <<p, o>> =>
        outcome'[q][w] = outcome[q][w] /\ retries'[q][w] = retries[q][w]
  BY <1>1 DEF TypeOK
<1> HIDE DEF p, o
<1>6. /\ phaseBar' = [phaseBar EXCEPT ![p][o] = "backoff"]
      /\ triesBar' = [triesBar EXCEPT ![p][o] = TriesOf(p, o) + 1]
  <2>1. \A q \in Tasks, w \in Outputs : <<q, w>> # <<p, o>> =>
          /\ outcome'[q][w] = outcome[q][w]
          /\ retries'[q][w] = retries[q][w]
          /\ (\E u \in ThreadsOf(q)' : u.out = w)
               <=> (\E u \in ThreadsOf(q) : u.out = w)
    BY <1>1, <1>3, <1>5
  <2>2. p \in Tasks /\ o \in Outputs /\ UNCHANGED <<status, i_ins>>
    BY <1>1
  <2>3. /\ phaseBar' = [phaseBar EXCEPT ![p][o] = PhaseOf(p, o)']
        /\ triesBar' = [triesBar EXCEPT ![p][o] = TriesOf(p, o)']
    BY <2>1, <2>2, OneRoute
  <2> QED
    BY <1>4, <2>3
<1>7. phaseBar[p][o] = "trying" /\ triesBar[p][o] = TriesOf(p, o)
  BY <1>1, <1>2, BarValues
<1>8. Granted[o] >= 0 => triesBar[p][o] < Granted[o]
  <2>1. retries[p][o] \in Nat /\ RetryLimit[o] \in Int
    BY <1>1, TaskAssumption DEF TaskAssumption, TypeOK
  <2>2. RetryLimit[o] >= 0 => triesBar[p][o] <= RetryLimit[o]
    BY <1>1, <1>2, <1>7, <2>1 DEF RetryRefused
  <2>3. triesBar[p][o] \in Nat
    BY <1>2, <1>7, <2>1 DEF TriesOf
  <2> QED
    BY <1>1, <2>1, <2>2, <2>3 DEF Granted
<1>9. upBar /\ upBar' = upBar
  BY <1>1 DEF upBar
<1>10. triesBar' = [triesBar EXCEPT ![p][o] = @ + 1]
  BY <1>6, <1>7
<1>11. Delivery!Backoff(p, o)
  BY <1>6, <1>7, <1>8, <1>9, <1>10 DEF Delivery!Backoff
<1>12. phaseBar'[p] # phaseBar[p]
  <2>1. phaseBar'[p][o] = "backoff"
    BY <1>1, <1>4 DEF phaseBar
  <2> QED
    BY <1>7, <2>1
<1>13. Delivery!Progress(p)
  BY <1>1, <1>11, <1>12 DEF Delivery!Progress
<1> QED
  BY <1>1, <1>13 DEF Delivery!Next

\* An expired timer: the route is tried again.
LEMMA TimerTriesAgain ==
  ASSUME TypeOK, EngineInv, DestInv, NEW r \in timers, HandleTimer(r)
  PROVE  Delivery!Next
<1> DEFINE p == r[1]
           o == r[2]
<1>1. /\ r = <<p, o>> /\ p \in Live /\ p \in Tasks /\ o \in Outputs
      /\ r \in Pending
      /\ engine = "running"
      /\ UNCHANGED <<engine, status, i_ins, retries, outcome>>
  BY TimerStep DEF Pending
<1>2. PICK t : t.task = p /\ t.out = o /\ threads' = threads \union {t}
  BY TimerStep
<1>3. /\ t \in ThreadsOf(p)'
      /\ \A u \in ThreadsOf(p) : u.out # o
      /\ \A q \in Tasks, w \in Outputs : <<q, w>> # <<p, o>> =>
           ((\E u \in ThreadsOf(q)' : u.out = w)
              <=> (\E u \in ThreadsOf(q) : u.out = w))
  <2>1. \A u \in threads : <<u.task, u.out>> # <<p, o>>
    BY <1>1 DEF EngineInv, RouteInv
  <2> QED
    BY <1>2, <2>1 DEF ThreadsOf
<1>4. outcome[p][o] = "none" /\ o \in RoutesOf(p) /\ status[p] = "running"
  BY <1>1 DEF EngineInv, RouteInv, DestInv, Live
<1>5. PhaseOf(p, o) = "backoff" /\ PhaseOf(p, o)' = "trying"
  BY <1>1, <1>2, <1>3, <1>4 DEF PhaseOf, RoutesOf
<1>6. TriesOf(p, o)' = TriesOf(p, o)
  BY <1>1, <1>5 DEF TriesOf
<1> HIDE DEF p, o
<1>7. /\ phaseBar' = [phaseBar EXCEPT ![p][o] = "trying"]
      /\ triesBar' = [triesBar EXCEPT ![p][o] = TriesOf(p, o)]
  <2>1. \A q \in Tasks, w \in Outputs : <<q, w>> # <<p, o>> =>
          /\ outcome'[q][w] = outcome[q][w]
          /\ retries'[q][w] = retries[q][w]
          /\ (\E u \in ThreadsOf(q)' : u.out = w)
               <=> (\E u \in ThreadsOf(q) : u.out = w)
    BY <1>1, <1>3
  <2>2. p \in Tasks /\ o \in Outputs /\ UNCHANGED <<status, i_ins>>
    BY <1>1
  <2>3. /\ phaseBar' = [phaseBar EXCEPT ![p][o] = PhaseOf(p, o)']
        /\ triesBar' = [triesBar EXCEPT ![p][o] = TriesOf(p, o)']
    BY <2>1, <2>2, OneRoute
  <2> QED
    BY <1>5, <1>6, <2>3
<1>8. phaseBar[p][o] = "backoff" /\ triesBar' = triesBar
  <2>1. triesBar[p][o] = TriesOf(p, o) /\ phaseBar[p][o] = "backoff"
    BY <1>1, <1>5, BarValues
  <2> QED
    BY <1>7, <2>1 DEF triesBar
<1>9. upBar /\ upBar' = upBar
  BY <1>1 DEF upBar
<1>10. Delivery!TryAgain(p, o)
  BY <1>7, <1>8, <1>9 DEF Delivery!TryAgain
<1>11. phaseBar'[p] # phaseBar[p]
  <2>1. phaseBar'[p][o] = "trying"
    BY <1>1, <1>5 DEF phaseBar
  <2> QED
    BY <1>8, <2>1
<1>12. Delivery!Progress(p)
  BY <1>1, <1>10, <1>11 DEF Delivery!Progress
<1> QED
  BY <1>1, <1>12 DEF Delivery!Next

\* flb_engine_shutdown() abandons what is not settled.
LEMMA ShutdownStops ==
  ASSUME TypeOK, EngineInv, flb_engine_shutdown
  PROVE  Delivery!Next
<1>1. /\ engine = "running" /\ engine' = "stopped" /\ threads' = {}
      /\ status' = [p \in Tasks |-> IF p \in Live THEN "freed" ELSE status[p]]
      /\ UNCHANGED <<i_ins, outcome>>
  BY DEF flb_engine_shutdown, Idle
<1>2. ASSUME NEW p \in Tasks, NEW o \in Outputs
      PROVE  /\ PhaseOf(p, o)' = IF PhaseOf(p, o) \in {"trying", "backoff"}
                                   THEN "abandoned" ELSE PhaseOf(p, o)
             /\ TriesOf(p, o)' = 0
  <2>1. RoutesOf(p)' = RoutesOf(p) /\ outcome'[p][o] = outcome[p][o]
    BY <1>1 DEF RoutesOf
  <2>2. outcome[p][o] \in Final \union {"none"}
    BY DEF TypeOK
  <2>3. status[p] \in {"unused", "running", "freed"}
    BY DEF TypeOK
  <2>4. status'[p] = IF status[p] = "running" THEN "freed" ELSE status[p]
    BY <1>1 DEF Live
  <2>5. PhaseOf(p, o)' = IF PhaseOf(p, o) \in {"trying", "backoff"}
                           THEN "abandoned" ELSE PhaseOf(p, o)
    BY <2>1, <2>2, <2>3, <2>4 DEF PhaseOf, Final
  <2>6. PhaseOf(p, o)' \notin {"trying", "backoff"}
    BY <2>5
  <2> QED
    BY <2>5, <2>6 DEF TriesOf
<1>3. phaseBar' = [p \in Tasks |-> [o \in Outputs |->
                     IF phaseBar[p][o] \in {"trying", "backoff"}
                       THEN "abandoned" ELSE phaseBar[p][o]]]
  BY <1>2 DEF phaseBar
<1>4. triesBar' = [p \in Tasks |-> [o \in Outputs |-> 0]]
  BY <1>2 DEF triesBar
<1>5. upBar /\ upBar' = FALSE
  BY <1>1 DEF upBar
<1> QED
  BY <1>3, <1>4, <1>5 DEF Delivery!Next, Delivery!Stop

\* A task keeps its users exactly when another of its routes is being tried.
LEMMA LastTried ==
  ASSUME TypeOK, EngineInv, DestInv, NEW t \in threads
  PROVE  users[t.task] = 1 <=>
           \A q \in Outputs \ {t.out} : PhaseOf(t.task, q) # "trying"
<1>1. /\ t.task \in Live /\ t.task \in Tasks /\ t.out \in Outputs
      /\ t \in ThreadsOf(t.task)
  BY WithoutRetryType DEF EngineInv, ThreadInv, ThreadsOf
<1>2. ASSUME users[t.task] = 1, NEW q \in Outputs \ {t.out}
      PROVE  PhaseOf(t.task, q) # "trying"
  <2>1. ThreadsOf(t.task) = {t}
    BY <1>2, LastUser
  <2>2. outcome[t.task][q] \in Final \union {"none"}
    BY <1>1 DEF TypeOK
  <2> QED
    BY <2>1, <2>2 DEF PhaseOf, Final
<1>3. ASSUME users[t.task] # 1
      PROVE  \E q \in Outputs \ {t.out} : PhaseOf(t.task, q) = "trying"
  <2>1. users[t.task] = Cardinality(ThreadsOf(t.task))
    BY <1>1 DEF EngineInv, UserInv, UsersCountThreads
  <2>2. ThreadsOf(t.task) # {t}
    BY <1>3, <2>1, FS_Singleton
  <2>3. PICK u \in ThreadsOf(t.task) : u # t
    BY <1>1, <2>2
  <2>4. u \in threads /\ u.task = t.task
    BY DEF ThreadsOf
  <2>5. u.out # t.out
    BY <2>3, <2>4 DEF EngineInv, ThreadInv
  <2>6. PhaseOf(u.task, u.out) = "trying" /\ u.out \in Outputs
    BY <2>4, PhaseThread, WithoutRetryType
  <2> QED
    BY <2>4, <2>5, <2>6
<1> QED
  BY <1>2, <1>3

\* The end of a thread with a final result settles its route.
LEMMA ReleaseSettles ==
  ASSUME TypeOK, EngineInv, DestInv, AttemptInv,
         NEW t \in threads, Releases(t)
  PROVE  Delivery!Next
<1> DEFINE p == t.task
           o == t.out
           last == \A q \in Outputs \ {o} : phaseBar[p][q] # "trying"
           Drops(q) == last /\ phaseBar[p][q] = "backoff"
<1>1. /\ p \in Live /\ p \in Tasks /\ o \in Outputs
      /\ engine = "running" /\ UNCHANGED <<engine, i_ins>>
      /\ threads' = threads \ {t}
      /\ status' = [q \in Tasks |->
                      IF q \in GoneWith(t) THEN "freed" ELSE status[q]]
      /\ \A q \in Tasks, w \in Outputs :
           q \notin GoneWith(t) /\ <<q, w>> # <<p, o>>
             => retries'[q][w] = retries[q][w]
  BY ReleaseStep
<1>2. PICK f \in Final :
        /\ outcome' = [outcome EXCEPT ![p][o] = f]
        /\ f = "exhausted" => RetryRefused(p, o)
  BY ReleaseStep
<1>3. PhaseOf(p, o) = "trying" /\ TriesOf(p, o) = retries[p][o]
  BY PhaseThread
<1>4. GoneWith(t) = IF last THEN {p} ELSE {}
  <2>1. \A q \in Outputs : phaseBar[p][q] = PhaseOf(p, q)
    BY <1>1, BarValues
  <2> QED
    BY <2>1, LastTried DEF GoneWith
<1>5. /\ outcome'[p][o] = f
      /\ \A q \in Tasks, w \in Outputs : <<q, w>> # <<p, o>> =>
           outcome'[q][w] = outcome[q][w]
  BY <1>1, <1>2 DEF TypeOK
<1>6. \A q \in Tasks : RoutesOf(q)' = RoutesOf(q)
  BY <1>1 DEF RoutesOf
<1>7. \A q \in Tasks, w \in Outputs : <<q, w>> # <<p, o>> =>
        ((\E u \in ThreadsOf(q)' : u.out = w)
           <=> (\E u \in ThreadsOf(q) : u.out = w))
  BY <1>1 DEF ThreadsOf
<1> HIDE DEF p, o, last
\* The other tasks.
<1>8. \A q \in Tasks \ {p}, w \in Outputs :
        PhaseOf(q, w)' = PhaseOf(q, w) /\ TriesOf(q, w)' = TriesOf(q, w)
  <2> SUFFICES ASSUME NEW q \in Tasks \ {p}, NEW w \in Outputs
               PROVE  /\ PhaseOf(q, w)' = PhaseOf(q, w)
                      /\ TriesOf(q, w)' = TriesOf(q, w)
    OBVIOUS
  <2>1. q \notin GoneWith(t) /\ <<q, w>> # <<p, o>>
    BY <1>4
  <2>2. /\ status'[q] = status[q] /\ retries'[q][w] = retries[q][w]
        /\ outcome'[q][w] = outcome[q][w] /\ RoutesOf(q)' = RoutesOf(q)
        /\ (\E u \in ThreadsOf(q)' : u.out = w)
             <=> (\E u \in ThreadsOf(q) : u.out = w)
    BY <1>1, <1>5, <1>6, <1>7, <2>1
  <2> QED
    BY <2>2, PhaseSame
\* The settled route.
<1>9. PhaseOf(p, o)' = f /\ TriesOf(p, o)' = 0
  <2>1. PhaseOf(p, o)' = f
    BY <1>5 DEF PhaseOf, Final
  <2> QED
    BY <2>1 DEF TriesOf, Final
\* The other routes of the task.
<1>10. ASSUME NEW q \in Outputs, q # o
       PROVE  /\ PhaseOf(p, q)' = IF Drops(q) THEN "abandoned" ELSE PhaseOf(p, q)
              /\ TriesOf(p, q)' = IF Drops(q) THEN 0 ELSE TriesOf(p, q)
  <2>1. /\ <<p, q>> # <<p, o>> /\ outcome'[p][q] = outcome[p][q]
        /\ outcome[p][q] \in Final \union {"none"}
        /\ phaseBar[p][q] = PhaseOf(p, q)
        /\ RoutesOf(p)' = RoutesOf(p) /\ status[p] = "running"
    BY <1>1, <1>5, <1>6, <1>10, BarValues, ZenonT(30) DEF TypeOK, Live
  <2>2. (\E u \in ThreadsOf(p)' : u.out = q)
          <=> (\E u \in ThreadsOf(p) : u.out = q)
    BY <1>1, <1>7, <2>1
  <2>3. CASE ~last
    <3>1. status'[p] = status[p] /\ retries'[p][q] = retries[p][q]
      BY <1>1, <1>4, <2>1, <2>3
    <3>2. PhaseOf(p, q)' = PhaseOf(p, q) /\ TriesOf(p, q)' = TriesOf(p, q)
      BY <1>1, <2>1, <2>2, <3>1, PhaseSame
    <3> QED
      BY <2>3, <3>2
  <2>4. CASE last
    <3>1. status'[p] = "freed"
      BY <1>1, <1>4, <2>4
    <3>2. PhaseOf(p, q) # "trying"
      BY <1>10, <2>1, <2>4 DEF last
    <3>3. PhaseOf(p, q)' = IF PhaseOf(p, q) = "backoff" THEN "abandoned"
                                                        ELSE PhaseOf(p, q)
      BY <2>1, <3>1, <3>2 DEF PhaseOf, Final
    <3>4. PhaseOf(p, q)' \notin {"trying", "backoff"}
      BY <3>2, <3>3
    <3>5. TriesOf(p, q)' = 0
      BY <3>4 DEF TriesOf
    <3>6. ~Drops(q) => TriesOf(p, q) = 0
      BY <2>1, <2>4, <3>2 DEF TriesOf
    <3> QED
      BY <2>1, <2>4, <3>3, <3>5, <3>6
  <2> QED
    BY <2>3, <2>4
<1> DEFINE ph == [q \in Outputs |->
                    IF q = o THEN f
                    ELSE IF Drops(q) THEN "abandoned" ELSE phaseBar[p][q]]
           tr == [q \in Outputs |->
                    IF q = o \/ Drops(q) THEN 0 ELSE triesBar[p][q]]
<1>11. /\ ph = [q \in Outputs |-> PhaseOf(p, q)']
       /\ tr = [q \in Outputs |-> TriesOf(p, q)']
  <2>1. \A q \in Outputs : /\ phaseBar[p][q] = PhaseOf(p, q)
                           /\ triesBar[p][q] = TriesOf(p, q)
    BY <1>1, BarValues
  <2> HIDE DEF Drops
  <2> QED
    BY <1>9, <1>10, <2>1
<1>12. /\ phaseBar' = [phaseBar EXCEPT ![p] = ph]
       /\ triesBar' = [triesBar EXCEPT ![p] = tr]
  <2> HIDE DEF ph, tr
  <2> QED
    BY <1>1, <1>8, <1>11, OneTask
<1>13. upBar /\ upBar' = upBar
  BY <1>1 DEF upBar
<1>14. phaseBar[p][o] = "trying" /\ triesBar[p][o] = retries[p][o]
  BY <1>1, <1>3, BarValues
<1>15. f = "exhausted" => Granted[o] >= 0 /\ triesBar[p][o] = Granted[o]
  <2>1. retries[p][o] \in Nat /\ RetryLimit[o] \in Int
    BY <1>1, TaskAssumption DEF TaskAssumption, TypeOK
  <2>2. RetryLimit[o] >= 0 => retries[p][o] <= RetryLimit[o] + 1
    BY <1>1 DEF AttemptInv
  <2>3. f = "exhausted" => RetryLimit[o] >= 0 /\ triesBar[p][o] = RetryLimit[o] + 1
    BY <1>2, <1>14, <2>1, <2>2 DEF RetryRefused
  <2> QED
    BY <1>1, <2>1, <2>3 DEF Granted
<1>16. Delivery!Settle(p, o, f)
  BY <1>12, <1>13, <1>14, <1>15 DEF Delivery!Settle, last
<1>17. phaseBar'[p] # phaseBar[p]
  <2>1. phaseBar'[p][o] = f
    BY <1>1, <1>9 DEF phaseBar
  <2> QED
    BY <1>14, <2>1 DEF Final
<1>18. f \in Delivery!Final
  BY DEF Final, Delivery!Final
<1>19. Delivery!Progress(p)
  BY <1>1, <1>16, <1>17, <1>18 DEF Delivery!Progress
<1> QED
  BY <1>1, <1>19 DEF Delivery!Next

(***************************************************************************)
(* The engine implements FlbDelivery: whatever the threads, the pipe, the  *)
(* timers and the order of a batch, a step of the engine accepts a task,   *)
(* moves one route of one task on, stops everything, or changes no         *)
(* delivery at all.                                                        *)
(***************************************************************************)
THEOREM DeliveryCorrect == Spec => ImplementsDelivery
<1>1. Init => Delivery!Init
  <2> SUFFICES ASSUME Init PROVE Delivery!Init
    OBVIOUS
  <2>1. \A p \in Tasks, o \in Outputs : PhaseOf(p, o) = "idle"
    BY DEF Init, TaskInit, PhaseOf
  <2>2. \A p \in Tasks, o \in Outputs : TriesOf(p, o) = 0
    BY <2>1 DEF TriesOf
  <2>3. phaseBar = [p \in Tasks |-> [o \in Outputs |-> "idle"]]
    BY <2>1 DEF phaseBar
  <2>4. triesBar = [p \in Tasks |-> [o \in Outputs |-> 0]]
    BY <2>2 DEF triesBar
  <2>5. upBar = TRUE
    BY DEF Init, upBar
  <2> QED
    BY <2>3, <2>4, <2>5 DEF Delivery!Init
<1>2. TypeOK /\ EngineInv /\ DestInv /\ AttemptInv /\ [Next]_vars
        => [Delivery!Next]_<<phaseBar, triesBar, upBar>>
  <2> SUFFICES ASSUME TypeOK, EngineInv, DestInv, AttemptInv, [Next]_vars
               PROVE  Delivery!Next \/ UNCHANGED <<phaseBar, triesBar, upBar>>
    OBVIOUS
  <2>1. CASE Quiet
    BY <2>1, DeliverySame DEF Quiet
  <2>2. ASSUME NEW due \in SUBSET requests_wait, NEW refused \in SUBSET due,
               HandleFrame(due, refused)
        PROVE  UNCHANGED <<phaseBar, triesBar, upBar>>
    BY <2>2, DeliverySame DEF HandleFrame, loopVars
  <2> QED
    BY <2>1, <2>2, DispatchAccepts, ReleaseSettles, RetryBacksOff,
       TimerTriesAgain, ShutdownStops, StepKinds
<1> QED
  BY <1>1, <1>2, InvCorrect, DestCorrect, AttemptsBounded, PTL
  DEF Spec, ImplementsDelivery, Delivery!Spec
===============================================================================

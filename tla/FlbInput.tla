------------------------------- MODULE FlbInput -------------------------------
(***************************************************************************)
(* One input instance (src/flb_input.c, include/fluent-bit/flb_input.h):   *)
(* the buffers its plugin appends records to, the memory limit that pauses *)
(* and resumes it, and the way a flush turns buffers into tasks.           *)
(*                                                                         *)
(* A plugin with a fixed tag writes to the buffer of the instance; one     *)
(* with dynamic tags writes to a node per tag, which the task that takes   *)
(* its records destroys with itself.  Buffers are represented by their     *)
(* sizes.  What becomes of a task is FlbEngine's matter: here it ends some *)
(* time after it was created.                                              *)
(*                                                                         *)
(* flb_engine_exit() runs in a signal handler or in another thread, so it  *)
(* can come between the steps in which flb_input_buf_size_set() resumes    *)
(* the instance; everything else happens in the engine's own thread.       *)
(***************************************************************************)
EXTENDS Integers, FiniteSets

CONSTANTS
  Tags,         \* tags the plugin reports records under
  Matched,      \* the tags that some output matches
  Nodes,        \* dyntag structures that may be allocated at a time (a bound)
  Limit,        \* in->mp_buf_limit, 0: no limit
  LockSize,     \* a node that is larger takes no more records
  Sizes,        \* bound: sizes of what one call appends
  MaxTasks,     \* bound: tasks a fixed tag instance has at a time
  TableMayFill, \* whether other inputs may occupy all ids of tasks_map
  Plugins       \* "tail", "systemd": how cb_pause works; "none": no callback

VARIABLES
  dyn,               \* in->flags & FLB_INPUT_DYN_TAG
  routed,            \* has an instance with a fixed tag any route?
  plugin,            \* which plugin the instance belongs to
  mp_sbuf,           \* size of the buffer of a fixed tag instance
  dyntags,           \* in->dyntags: the nodes on the list
  tag, size, busy, lock,    \* their fields
  mp_total_buf_size, \* in->mp_total_buf_size
  mp_buf_status,     \* in->mp_buf_status
  armed,             \* is the collector's event registered in the loop?
  running,           \* coll->running
  tasks,             \* nodes whose records belong to a task
  n_tasks,           \* tasks with records of the fixed tag
  flushing,          \* what the flush in progress has still to visit
  resuming,          \* where flb_input_buf_size_set() stands
  is_running,        \* config->is_running
  exited,            \* has flb_input_pause_all() visited the instance?
  dropped            \* history: a flush found tasks_map full

bufVars  == <<mp_sbuf, dyntags, tag, size, busy, lock>>
collVars == <<armed, running>>
taskVars == <<tasks, n_tasks>>
exitVars == <<is_running, exited>>
kind     == <<dyn, routed, plugin>>
vars == <<kind, bufVars, mp_total_buf_size, mp_buf_status, collVars, taskVars,
          flushing, resuming, exitVars, dropped>>

ASSUME InputAssumption ==
  /\ Matched \subseteq Tags
  /\ Limit \in Nat /\ LockSize \in Nat /\ MaxTasks \in Nat
  /\ Sizes \subseteq Nat \ {0} /\ Sizes # {}
  /\ Tags # {} /\ IsFiniteSet(Nodes)
  /\ TableMayFill \in BOOLEAN
  /\ Plugins \subseteq {"tail", "systemd", "none"}
  /\ "fixed" \notin Nodes

TypeOK ==
  /\ dyn \in BOOLEAN /\ routed \in BOOLEAN /\ plugin \in Plugins
  /\ mp_sbuf \in Nat /\ mp_total_buf_size \in Nat
  /\ dyntags \subseteq Nodes /\ tasks \subseteq dyntags
  /\ tag \in [Nodes -> Tags] /\ size \in [Nodes -> Nat]
  /\ busy \in [Nodes -> BOOLEAN] /\ lock \in [Nodes -> BOOLEAN]
  /\ mp_buf_status \in {"RUNNING", "PAUSED"}
  /\ armed \in BOOLEAN /\ running \in BOOLEAN
  /\ n_tasks \in 0..MaxTasks
  /\ flushing \subseteq Nodes \union {"fixed"}
  /\ resuming \in {"no", "status", "callback"}
  /\ is_running \in BOOLEAN /\ exited \in BOOLEAN /\ dropped \in BOOLEAN

\* flb_input_new() and flb_input_collectors_start().
Init ==
  /\ dyn \in BOOLEAN /\ routed \in BOOLEAN /\ plugin \in Plugins
  /\ mp_sbuf = 0 /\ mp_total_buf_size = 0
  /\ dyntags = {} /\ tasks = {} /\ n_tasks = 0
  /\ tag = [d \in Nodes |-> CHOOSE g \in Tags : TRUE]
  /\ size = [d \in Nodes |-> 0]
  /\ busy = [d \in Nodes |-> FALSE] /\ lock = [d \in Nodes |-> FALSE]
  /\ mp_buf_status = "RUNNING"
  /\ armed = TRUE /\ running = TRUE
  /\ flushing = {} /\ resuming = "no"
  /\ is_running = TRUE /\ exited = FALSE /\ dropped = FALSE
-----------------------------------------------------------------------------
(* Collectors, memory limit, pause and resume.                             *)

\* The engine's thread is at its event loop.
Idle == flushing = {} /\ resuming = "no"

\* The bytes in the buffers of the nodes, each a node and an offset.
Bytes(nodes, sizes) == UNION {{d} \X (1..sizes[d]) : d \in nodes}

\* What the loop over in->dyntags adds up, on top of the fixed tag's buffer.
BufSize(fixed, nodes, sizes) == fixed + Cardinality(Bytes(nodes, sizes))

\* Seeded fault: only above the limit.
OverlimitLate(total) == Limit > 0 /\ total > Limit

\* flb_input_buf_overlimit()
Overlimit(total) == Limit > 0 /\ total >= Limit

\* flb_input_collector_pause()
flb_input_collector_pause == armed' = FALSE /\ running' = FALSE

\* Seeded fault: the test of `running' is inverted.
ResumeTestInverted == /\ armed' = (armed \/ running)
                      /\ UNCHANGED running

\* flb_input_collector_resume(): `running' is tested, and not set.
flb_input_collector_resume == /\ armed' = (armed \/ ~running)
                              /\ UNCHANGED running

\* The plugin's cb_pause.  in_tail pauses each of its collectors in any case;
\* in_systemd asks whether the one of the journal is running.
cb_pause == IF plugin = "tail" \/ (plugin = "systemd" /\ running)
            THEN flb_input_collector_pause
            ELSE UNCHANGED collVars

\* The plugin's cb_resume.
cb_resume == IF plugin = "tail" \/ (plugin = "systemd" /\ ~running)
             THEN flb_input_collector_resume
             ELSE UNCHANGED collVars

\* The instance is paused, with the callback unless it was paused before.
Pause == /\ mp_buf_status' = "PAUSED"
         /\ IF mp_buf_status = "PAUSED" THEN UNCHANGED collVars ELSE cb_pause

\* Seeded fault: config->is_running is not consulted.
SizeSetIgnoresExit(nodes) ==
  LET total == BufSize(mp_sbuf', nodes, size')
  IN  /\ mp_total_buf_size' = total
      /\ resuming' = IF ~Overlimit(total) /\ mp_buf_status = "PAUSED"
                     THEN "status" ELSE "no"

\* Seeded fault: the limit is compared with the total of the last write.
SizeSetStale(nodes) ==
  /\ mp_total_buf_size' = mp_total_buf_size
  /\ resuming' = IF /\ ~Overlimit(mp_total_buf_size)
                    /\ mp_buf_status = "PAUSED" /\ is_running
                 THEN "status" ELSE "no"

(***************************************************************************)
(* flb_input_buf_size_set() after a task of the instance was destroyed:    *)
(* the total is computed anew and the instance may have to be resumed.     *)
(***************************************************************************)
flb_input_buf_size_set(nodes) ==
  LET total == BufSize(mp_sbuf', nodes, size')
  IN  /\ mp_total_buf_size' = total
      /\ resuming' = IF /\ ~Overlimit(total) /\ mp_buf_status = "PAUSED"
                        /\ is_running
                     THEN "status" ELSE "no"

\* ... the status first,
ResumeStatus ==
  /\ resuming = "status"
  /\ mp_buf_status' = "RUNNING"
  /\ resuming' = "callback"
  /\ UNCHANGED <<kind, bufVars, mp_total_buf_size, collVars, taskVars, flushing,
                 exitVars, dropped>>

\* ... then the callback.
ResumeCallback ==
  /\ resuming = "callback"
  /\ cb_resume
  /\ resuming' = "no"
  /\ UNCHANGED <<kind, bufVars, mp_total_buf_size, mp_buf_status, taskVars,
                 flushing, exitVars, dropped>>
-----------------------------------------------------------------------------
(* Writing records.                                                        *)

(***************************************************************************)
(* The end of a write, flb_input_buf_write_end() and                       *)
(* flb_input_dbuf_write_end(), of an instance that is not paused: the      *)
(* total is computed and flb_input_buf_check() pauses over the limit.      *)
(***************************************************************************)
write_end ==
  LET total == BufSize(mp_sbuf', dyntags', size')
  IN  /\ mp_total_buf_size' = total
      /\ IF Overlimit(total) THEN Pause
         ELSE UNCHANGED <<mp_buf_status, collVars>>

\* The collector runs when its event is registered.
Collecting == Idle /\ armed

(***************************************************************************)
(* A plugin with a fixed tag appends bytes; the filters leave n of them.   *)
(* (A paused instance takes back what was appended: nothing changes.)      *)
(***************************************************************************)
Write(n) ==
  /\ Collecting /\ ~dyn
  /\ mp_buf_status = "RUNNING"
  /\ mp_sbuf' = mp_sbuf + n
  /\ UNCHANGED <<dyntags, tag, size, busy, lock>>
  /\ write_end
  /\ UNCHANGED <<kind, taskVars, flushing, resuming, exitVars, dropped>>

\* flb_input_dyntag_get(): the open node of tag g, or a new one.
Open(d) == d \in dyntags /\ ~busy[d] /\ ~lock[d]

flb_input_dyntag_get(g, d) ==
  \/ Open(d) /\ tag[d] = g /\ UNCHANGED <<dyntags, tag, busy>>
  \/ /\ \A e \in Nodes : Open(e) => tag[e] # g
     /\ d \in Nodes \ dyntags
     /\ dyntags' = dyntags \union {d}
     /\ tag' = [tag EXCEPT ![d] = g]
     /\ busy' = [busy EXCEPT ![d] = FALSE]

\* flb_input_dyntag_append_obj() / _raw(), of an instance that is not paused.
Append(g, d, n) ==
  /\ Collecting /\ dyn
  /\ mp_buf_status = "RUNNING"
  /\ flb_input_dyntag_get(g, d)
  /\ LET old == IF d \in dyntags THEN size[d] ELSE 0
     IN  /\ size' = [size EXCEPT ![d] = old + n]
         /\ lock' = [lock EXCEPT ![d] = old + n > LockSize]
  /\ UNCHANGED mp_sbuf
  /\ write_end
  /\ UNCHANGED <<kind, taskVars, flushing, resuming, exitVars, dropped>>

\* The same when it is paused: the node stays, the records do not.
AppendPaused(g, d) ==
  /\ Collecting /\ dyn
  /\ mp_buf_status = "PAUSED"
  /\ flb_input_dyntag_get(g, d)
  /\ size' = IF d \in dyntags THEN size ELSE [size EXCEPT ![d] = 0]
  /\ lock' = IF d \in dyntags THEN lock ELSE [lock EXCEPT ![d] = FALSE]
  /\ UNCHANGED <<kind, mp_sbuf, mp_total_buf_size, mp_buf_status, collVars,
                 taskVars, flushing, resuming, exitVars, dropped>>
-----------------------------------------------------------------------------
(* Flushing: flb_engine_dispatch() of this instance.                       *)

FlushBegin ==
  /\ Idle
  /\ flushing' = IF dyn THEN {d \in dyntags : ~busy[d]} ELSE {"fixed"}
  /\ UNCHANGED <<kind, bufVars, mp_total_buf_size, mp_buf_status, collVars,
                 taskVars, resuming, exitVars, dropped>>

Visiting(x) == /\ resuming = "no"
               /\ x \in flushing
               /\ flushing' = flushing \ {x}
               /\ UNCHANGED <<kind, mp_buf_status, collVars, exitVars>>

\* Seeded fault: the node is left open.
DyntagFlushNotBusy(d) ==
  /\ lock' = [lock EXCEPT ![d] = FALSE]
  /\ size' = [size EXCEPT ![d] = 0]
  /\ UNCHANGED <<mp_sbuf, tag, busy>>

\* flb_input_dyntag_flush(): the buffer is taken out, the node becomes busy.
flb_input_dyntag_flush(d) ==
  /\ busy' = [busy EXCEPT ![d] = TRUE]
  /\ lock' = [lock EXCEPT ![d] = FALSE]
  /\ size' = [size EXCEPT ![d] = 0]
  /\ UNCHANGED <<mp_sbuf, tag>>

\* Nothing in the buffer, or no id left in tasks_map: the records are freed.
FlushNoTask(d) ==
  /\ d # "fixed" /\ Visiting(d)
  /\ flb_input_dyntag_flush(d)
  /\ size[d] > 0 => TableMayFill
  /\ dropped' = (dropped \/ size[d] > 0)
  /\ UNCHANGED <<dyntags, mp_total_buf_size, taskVars, resuming>>

\* Seeded fault: the node is destroyed when the task is created.
FlushTaskFreesNode(d) ==
  /\ d # "fixed" /\ Visiting(d)
  /\ size[d] > 0 /\ tag[d] \in Matched
  /\ flb_input_dyntag_flush(d)
  /\ tasks' = tasks \union {d}
  /\ dyntags' = dyntags \ {d}
  /\ UNCHANGED <<mp_total_buf_size, n_tasks, resuming, dropped>>

\* A task takes the records.
FlushTask(d) ==
  /\ d # "fixed" /\ Visiting(d)
  /\ size[d] > 0 /\ tag[d] \in Matched
  /\ flb_input_dyntag_flush(d)
  /\ tasks' = tasks \union {d}
  /\ UNCHANGED <<dyntags, mp_total_buf_size, n_tasks, resuming, dropped>>

\* No output matches: flb_task_create() destroys the task, hence the node.
FlushUnmatched(d) ==
  /\ d # "fixed" /\ Visiting(d)
  /\ size[d] > 0 /\ tag[d] \notin Matched
  /\ flb_input_dyntag_flush(d)
  /\ dyntags' = dyntags \ {d}
  /\ flb_input_buf_size_set(dyntags')
  /\ UNCHANGED <<taskVars, dropped>>

\* flb_input_flush() of a fixed tag instance, with the same outcomes.
FlushFixedNoTask ==
  /\ Visiting("fixed")
  /\ mp_sbuf > 0 => TableMayFill
  /\ mp_sbuf' = 0
  /\ dropped' = (dropped \/ mp_sbuf > 0)
  /\ UNCHANGED <<dyntags, tag, size, busy, lock, mp_total_buf_size, taskVars,
                 resuming>>

FlushFixedTask ==
  /\ Visiting("fixed")
  /\ mp_sbuf > 0 /\ routed /\ n_tasks < MaxTasks
  /\ mp_sbuf' = 0
  /\ n_tasks' = n_tasks + 1
  /\ UNCHANGED <<dyntags, tag, size, busy, lock, mp_total_buf_size, tasks,
                 resuming, dropped>>

FlushFixedUnmatched ==
  /\ Visiting("fixed")
  /\ mp_sbuf > 0 /\ ~routed
  /\ mp_sbuf' = 0
  /\ UNCHANGED <<dyntags, tag, size, busy, lock>>
  /\ flb_input_buf_size_set(dyntags)
  /\ UNCHANGED <<taskVars, dropped>>

\* flb_task_destroy(): the node of the task goes, the total is set.
TaskEnd(d) ==
  /\ Idle /\ d \in tasks
  /\ tasks' = tasks \ {d}
  /\ dyntags' = dyntags \ {d}
  /\ UNCHANGED <<mp_sbuf, tag, size, busy, lock>>
  /\ flb_input_buf_size_set(dyntags')
  /\ UNCHANGED <<kind, mp_buf_status, collVars, n_tasks, flushing, exitVars,
                 dropped>>

TaskEndFixed ==
  /\ Idle /\ n_tasks > 0
  /\ n_tasks' = n_tasks - 1
  /\ UNCHANGED bufVars
  /\ flb_input_buf_size_set(dyntags)
  /\ UNCHANGED <<kind, mp_buf_status, collVars, tasks, flushing, exitVars,
                 dropped>>
-----------------------------------------------------------------------------
\* flb_engine_exit() (bound: its first call): first is_running ...
ExitBegin ==
  /\ is_running
  /\ is_running' = FALSE
  /\ UNCHANGED <<kind, bufVars, mp_total_buf_size, mp_buf_status, collVars,
                 taskVars, flushing, resuming, exited, dropped>>

\* ... then flb_input_pause_all().
flb_input_pause_all ==
  /\ ~is_running /\ ~exited
  /\ exited' = TRUE
  /\ Pause
  /\ UNCHANGED <<kind, bufVars, mp_total_buf_size, taskVars, flushing, resuming,
                 is_running, dropped>>

Next ==
  \/ \E n \in Sizes \union {0} : Write(n)
  \/ \E g \in Tags, d \in Nodes, n \in Sizes \union {0} : Append(g, d, n)
  \/ \E g \in Tags, d \in Nodes : AppendPaused(g, d)
  \/ ResumeStatus
  \/ ResumeCallback
  \/ FlushBegin
  \/ \E d \in Nodes : FlushNoTask(d)
  \/ \E d \in Nodes : FlushTask(d)
  \/ \E d \in Nodes : FlushUnmatched(d)
  \/ FlushFixedNoTask
  \/ FlushFixedTask
  \/ FlushFixedUnmatched
  \/ \E d \in Nodes : TaskEnd(d)
  \/ TaskEndFixed
  \/ ExitBegin
  \/ flb_input_pause_all

Spec == Init /\ [][Next]_vars

(***************************************************************************)
(* Fairness: the flush timer ticks and a flush ends, the loop goes on with *)
(* what it has begun, and tasks end.  A collector may keep the loop busy   *)
(* between any two of these, hence strong fairness for tasks and flushes.  *)
(***************************************************************************)
FlushStep == \/ \E d \in Nodes : \/ FlushNoTask(d)
                                 \/ FlushTask(d)
                                 \/ FlushUnmatched(d)
             \/ FlushFixedNoTask
             \/ FlushFixedTask
             \/ FlushFixedUnmatched

Fairness == /\ WF_vars(ResumeStatus) /\ WF_vars(ResumeCallback)
            /\ SF_vars(FlushBegin /\ flushing' # {})
            /\ WF_vars(FlushStep)
            /\ \A d \in Nodes : SF_vars(TaskEnd(d))
            /\ SF_vars(TaskEndFixed)

FairSpec == Spec /\ Fairness
-----------------------------------------------------------------------------
(***************************************************************************)
(* The memory limit works: whatever is written, filtered, flushed and      *)
(* resumed, the buffers never hold more than the limit and one write.      *)
(***************************************************************************)
LimitHolds ==
  Limit > 0 =>
    \E n \in Sizes : BufSize(mp_sbuf, dyntags, size) < Limit + n

(***************************************************************************)
(* A node whose records belong to a task takes no more records, so none is *)
(* freed with the node when the task ends; and no tag has two open nodes.  *)
(***************************************************************************)
NoAppendInFlight ==
  /\ \A d \in tasks : busy[d] /\ size[d] = 0
  /\ \A d, e \in dyntags : Open(d) /\ Open(e) /\ tag[d] = tag[e] => d = e

(***************************************************************************)
(* While the service runs, the status of an instance agrees with its       *)
(* collector: a paused plugin collects nothing, a running one collects.    *)
(* A plugin that asks coll->running (in_systemd) loses this with its first *)
(* resume, which registers the collector and leaves the flag as it was.    *)
(***************************************************************************)
StatusMatchesCollector ==
  plugin # "none" /\ is_running /\ resuming = "no"
    /\ ~(plugin = "systemd" /\ armed /\ ~running) =>
      (armed <=> mp_buf_status = "RUNNING")

(***************************************************************************)
(* After flb_engine_exit() has paused the instance, only a resume that was *)
(* already under way can start it again.                                   *)
(***************************************************************************)
StaysPaused ==
  [][exited /\ mp_buf_status = "PAUSED" /\ resuming = "no" =>
       mp_buf_status' = "PAUSED" /\ resuming' = "no"]_vars

(***************************************************************************)
(* A paused instance is resumed, unless the service stops or the task      *)
(* table was full when its records were flushed.                           *)
(***************************************************************************)
ResumesUnlessDropped ==
  mp_buf_status = "PAUSED" ~>
    (mp_buf_status = "RUNNING" \/ ~is_running \/ dropped)
-----------------------------------------------------------------------------
(* The inductive invariants behind these properties.                       *)

\* A flush only visits nodes that no task owns.
FlushInv == \A d \in flushing : d = "fixed" \/ (d \in dyntags /\ ~busy[d])

NodeInv == FlushInv /\ NoAppendInFlight

\* An instance that may collect, now or when its resume ends, is below the limit.
LimitInv ==
  Limit > 0 /\ (mp_buf_status = "RUNNING" \/ resuming = "status") =>
    BufSize(mp_sbuf, dyntags, size) < Limit

\* How the status, the collector's event and coll->running go together while
\* the service runs; a resumed in_systemd has left these states for good.
CollInv ==
  is_running /\ plugin # "none" =>
    \/ plugin = "systemd" /\ armed /\ ~running
    \/ /\ resuming = "no" => (armed <=> mp_buf_status = "RUNNING")
       /\ resuming # "no" => ~armed
       /\ resuming = "callback" => mp_buf_status = "RUNNING"
       /\ running => armed

ExitInv == exited => ~is_running
=============================================================================

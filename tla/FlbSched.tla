------------------------------ MODULE FlbSched ------------------------------
(***************************************************************************)
(* The retry scheduler (src/flb_scheduler.c) as the engine and the tasks   *)
(* use it: the list of requests that own an armed timer, the list of       *)
(* requests that wait for their frame, and the length a back-off may have. *)
(* The clock is abstracted here: an armed timer may expire at any moment   *)
(* and a waiting request may come into the frame at any tick.  FlbSchedClock *)
(* models the same code with its clock.                                    *)
(*                                                                         *)
(* A request is named by the retry context its `data' field points at.     *)
(***************************************************************************)
EXTENDS Integers

CONSTANTS
  Cap,           \* FLB_SCHED_CAP: the longest back-off, in seconds
  Frame,         \* FLB_SCHED_REQUEST_FRAME: the frame, in seconds
  TimerMayFail   \* whether mk_event_timeout_create() may find no descriptor

VARIABLES
  requests,      \* sched->requests: requests whose timer is armed
  requests_wait  \* sched->requests_wait: requests without a timer yet

schedVars == <<requests, requests_wait>>

ASSUME SchedAssumption == /\ Cap \in Nat
                          /\ Frame \in Nat
                          /\ TimerMayFail \in BOOLEAN
-----------------------------------------------------------------------------
(***************************************************************************)
(* The value of bit k of a 32-bit int: the sign bit counts negatively and  *)
(* the bits beyond it are lost.                                            *)
(***************************************************************************)
Bit(k) == IF k > 31 THEN 0
          ELSE IF k = 31 THEN (-(2 ^ 30)) - 2 ^ 30 ELSE 2 ^ k

(***************************************************************************)
(* (1 << n) * FLB_SCHED_BASE as the build computes it: the shift count is  *)
(* taken modulo 32, the base is 5 (bits 0 and 2), the product wraps.       *)
(***************************************************************************)
ShiftedBase(n) == Bit(n % 32) + Bit((n % 32) + 2)

(***************************************************************************)
(* exp of backoff_full_jitter(): the jitter then picks a value between 0   *)
(* and exp, both included, on either side of zero.                         *)
(***************************************************************************)
BackoffExp(n) == IF ShiftedBase(n) < Cap THEN ShiftedBase(n) ELSE Cap

(***************************************************************************)
(* What flb_sched_request_create() may do for the n-th attempt: queue the  *)
(* request on requests_wait when the seconds can exceed the frame, or fail *)
(* when no timer can be created (timerfd_settime() refuses a negative      *)
(* time).  Zero seconds is always a possible draw, so arming a timer at    *)
(* once always is possible as well.                                        *)
(***************************************************************************)
MayWait(n)   == BackoffExp(n) > Frame
MayRefuse(n) == TimerMayFail \/ BackoffExp(n) < 0

schedule_request_now(r) == /\ requests' = requests \union {r}
                           /\ UNCHANGED requests_wait

schedule_request_wait(r) == /\ requests_wait' = requests_wait \union {r}
                            /\ UNCHANGED requests

flb_sched_request_create(r, n) ==
  \/ schedule_request_now(r)
  \/ MayWait(n) /\ schedule_request_wait(r)

\* Seeded fault: a promoted request is not unlinked from requests_wait.
PromoteKeepsWaiting(due, refused) ==
  /\ due \subseteq requests_wait
  /\ refused \subseteq due
  /\ refused # {} => TimerMayFail
  /\ requests' = requests \union (due \ refused)
  /\ UNCHANGED requests_wait

\* Seeded fault: a promoted request gets no timer and is on neither list.
PromoteForgets(due, refused) ==
  /\ due \subseteq requests_wait
  /\ refused \subseteq due
  /\ requests_wait' = requests_wait \ due
  /\ UNCHANGED requests

(***************************************************************************)
(* One tick of the frame timer: the waiting requests in `due' leave        *)
(* requests_wait; the ones in `refused' get no timer and are not listed    *)
(* anywhere any more, because the result of schedule_request_now() is      *)
(* ignored.                                                                *)
(***************************************************************************)
schedule_request_promote(due, refused) ==
  /\ due \subseteq requests_wait
  /\ refused \subseteq due
  /\ refused # {} => TimerMayFail
  /\ requests' = requests \union (due \ refused)
  /\ requests_wait' = requests_wait \ due

(***************************************************************************)
(* flb_sched_request_invalidate(), for each retry context in R: only the   *)
(* requests list (rq) is searched.                                         *)
(***************************************************************************)
flb_sched_request_invalidate(R, rq) == rq \ R
=============================================================================

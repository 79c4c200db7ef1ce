---------------------------- MODULE FlbSchedClock ----------------------------
(***************************************************************************)
(* The retry scheduler (src/flb_scheduler.c) with its clock.  time(NULL)   *)
(* counts seconds.  A request of at most Frame seconds gets a timer at     *)
(* once; a longer one waits until a tick of the frame timer finds that it  *)
(* expires within the next frame.  The event loop handles an expired timer *)
(* late when it is busy, by up to MaxLag seconds.                          *)
(***************************************************************************)
EXTENDS FlbSched, FiniteSets

CONSTANTS
  Requests,    \* retry contexts that ask for requests
  MaxLag,      \* bound: seconds the loop may be late in handling a timer
  MaxTime,     \* bound: the last second of the clock
  MaxTries     \* bound: requests created for one retry context

VARIABLES
  now,         \* time(NULL)
  frame_at,    \* when the frame timer expires next
  created,     \* request->created
  timeout,     \* request->timeout
  expires,     \* when the timer of an armed request expires
  tries,       \* requests created so far for the retry (retry->attemps)
  refused      \* retries for which flb_sched_request_create() returned -1

reqVars == <<created, timeout, expires, tries, refused>>
vars == <<schedVars, reqVars, now, frame_at>>

ASSUME ClockAssumption == /\ Frame > 0
                          /\ MaxLag \in 0..(Frame - 1)
                          /\ MaxTime \in Nat
                          /\ MaxTries \in Nat

TypeOK ==
  /\ requests \subseteq Requests /\ requests_wait \subseteq Requests
  /\ requests \intersect requests_wait = {}
  /\ refused \subseteq Requests
  /\ now \in Nat /\ frame_at \in Nat
  /\ created \in [Requests -> Nat]
  /\ timeout \in [Requests -> Nat]
  /\ expires \in [Requests -> Nat]
  /\ tries \in [Requests -> Nat]

\* flb_sched_init(): empty lists, the first frame begins now.
flb_sched_init ==
  /\ requests = {} /\ requests_wait = {} /\ refused = {}
  /\ now = 0
  /\ frame_at = Frame
  /\ created = [r \in Requests |-> 0]
  /\ timeout = [r \in Requests |-> 0]
  /\ expires = [r \in Requests |-> 0]
  /\ tries = [r \in Requests |-> 0]
-----------------------------------------------------------------------------
(***************************************************************************)
(* backoff_full_jitter(): any number of seconds from 0 to BackoffExp(n);   *)
(* when that is negative, the draw is negative (-1 stands for all of them) *)
(* or 0.  The clock's bound: no request beyond MaxTime.                    *)
(***************************************************************************)
backoff_full_jitter(n) ==
  IF BackoffExp(n) < 0 THEN {-1, 0}
  ELSE {s \in 0..(MaxTime - now) : s <= BackoffExp(n)}

Unlisted(r) == r \notin requests \union requests_wait

\* flb_sched_request_create(), when the request is listed.
Create(r, s) ==
  /\ Unlisted(r) /\ tries[r] < MaxTries
  /\ s \in backoff_full_jitter(tries[r] + 1) /\ s >= 0
  /\ tries' = [tries EXCEPT ![r] = @ + 1]
  /\ created' = [created EXCEPT ![r] = now]
  /\ timeout' = [timeout EXCEPT ![r] = s]
  /\ IF s > Frame
     THEN schedule_request_wait(r) /\ UNCHANGED expires
     ELSE /\ schedule_request_now(r)
          /\ expires' = [expires EXCEPT ![r] = now + s]
  /\ UNCHANGED <<now, frame_at, refused>>

\* flb_sched_request_create(), when no timer can be created for it.
CreateRefused(r) ==
  /\ Unlisted(r) /\ tries[r] < MaxTries
  /\ TimerMayFail \/ \E s \in backoff_full_jitter(tries[r] + 1) : s < 0
  /\ tries' = [tries EXCEPT ![r] = @ + 1]
  /\ refused' = refused \union {r}
  /\ UNCHANGED <<schedVars, created, timeout, expires, now, frame_at>>

(***************************************************************************)
(* schedule_request_promote(): which waiting requests leave the list on a  *)
(* tick at second `now', and the seconds their timers are armed for.       *)
(***************************************************************************)
Passed(r) == now - created[r]
Late(r)   == Passed(r) > timeout[r]

\* Seeded fault: only a request that is late already is promoted.
DueWhenLate(r) == Late(r)

\* Seeded fault: every promoted request gets the shortest timer.
ShortestNext(r) == 1

Due(r)    == Late(r) \/ Passed(r) + Frame >= timeout[r]
Next_s(r) == IF Late(r) THEN 1 ELSE timeout[r] - Passed(r)

FrameTick ==
  LET due == {r \in requests_wait : Due(r)}
  IN  /\ now >= frame_at
      /\ frame_at' = frame_at + Frame
      /\ \E lost \in SUBSET due : schedule_request_promote(due, lost)
      /\ expires' = [r \in Requests |->
                       IF r \in due THEN now + Next_s(r) ELSE expires[r]]
      /\ UNCHANGED <<created, timeout, tries, refused, now>>

\* flb_sched_event_handler(): the retry is dispatched, the request destroyed.
Fire(r) ==
  /\ r \in requests /\ now >= expires[r]
  /\ requests' = requests \ {r}
  /\ UNCHANGED <<requests_wait, reqVars, now, frame_at>>

\* flb_sched_request_invalidate() of a request that is found.
Invalidate(r) ==
  /\ r \in requests
  /\ requests' = flb_sched_request_invalidate({r}, requests)
  /\ UNCHANGED <<requests_wait, reqVars, now, frame_at>>

\* A second passes; the loop is never more than MaxLag seconds late.
Second ==
  /\ now < MaxTime
  /\ now < frame_at + MaxLag
  /\ \A r \in requests : now < expires[r] + MaxLag
  /\ now' = now + 1
  /\ UNCHANGED <<schedVars, reqVars, frame_at>>

Next == \/ \E r \in Requests : \E s \in 0..MaxTime : Create(r, s)
        \/ \E r \in Requests : CreateRefused(r)
        \/ FrameTick
        \/ \E r \in Requests : Fire(r)
        \/ \E r \in Requests : Invalidate(r)
        \/ Second

Spec == flb_sched_init /\ [][Next]_vars
-----------------------------------------------------------------------------
(***************************************************************************)
(* No listed request is overdue by more than twice the lag of the loop:    *)
(* once for the tick that promotes it, once for its own timer.  A loop     *)
(* that is not late fires every retry in the second its back-off ends,     *)
(* waiting list or not.                                                    *)
(***************************************************************************)
OnTime == \A r \in requests \union requests_wait :
            now <= created[r] + timeout[r] + 2 * MaxLag

(***************************************************************************)
(* A retry is never dispatched before its back-off is over, whether its    *)
(* timer was armed at creation or by a tick of the frame.                  *)
(***************************************************************************)
NeverEarly == [][\A r \in requests :
                   Fire(r) => now >= created[r] + timeout[r]]_vars

(***************************************************************************)
(* As long as timers can be created, every retry that asks for a request   *)
(* gets one, however many it had before.                                   *)
(***************************************************************************)
NeverRefused == refused = {}
-----------------------------------------------------------------------------
(* The inductive invariant behind OnTime and NeverEarly.                   *)

Expiry(r) == created[r] + timeout[r]

\* The clock stands within the current frame, or the loop is late with it.
FrameInv == frame_at - Frame <= now /\ now <= frame_at + MaxLag

\* A timer is armed for the end of the back-off or, by a late tick, a little
\* later; and the loop is not too late with it.
ArmedInv ==
  \A r \in requests : /\ Expiry(r) <= expires[r]
                      /\ expires[r] <= Expiry(r) + MaxLag
                      /\ now <= expires[r] + MaxLag

\* Whoever still waits ends after the next tick of the frame.
WaitInv == \A r \in requests_wait : frame_at < Expiry(r)

ClockInv == FrameInv /\ ArmedInv /\ WaitInv
=============================================================================

------------------------- MODULE FlbSchedClock_proofs -------------------------
(***************************************************************************)
(* Proofs about FlbSchedClock, for any set of requests, any back-off cap,  *)
(* frame and lag of the loop below the frame, and an unbounded clock.      *)
(***************************************************************************)
EXTENDS FlbSchedClock, TLAPS

\* The constants are numbers, and the loop is late by less than a frame.
LEMMA Numbers == /\ Frame \in Nat /\ Frame > 0 /\ Cap \in Nat
                 /\ MaxLag \in Nat /\ MaxLag < Frame
                 /\ MaxTime \in Nat
BY SchedAssumption, ClockAssumption DEF SchedAssumption, ClockAssumption

\* Types and the times of one request.
LEMMA RequestType ==
  ASSUME TypeOK, NEW r \in Requests
  PROVE  /\ now \in Nat /\ frame_at \in Nat
         /\ created[r] \in Nat /\ timeout[r] \in Nat /\ expires[r] \in Nat
BY DEF TypeOK

\* What a tick of the frame does.
LEMMA TickStep ==
  ASSUME TypeOK, FrameTick
  PROVE  /\ now >= frame_at /\ frame_at' = frame_at + Frame
         /\ UNCHANGED <<created, timeout, tries, refused, now>>
         /\ requests' \subseteq requests \union {r \in requests_wait : Due(r)}
         /\ requests_wait' = {r \in requests_wait : ~Due(r)}
         /\ \A r \in Requests : expires'[r] =
              IF r \in requests_wait /\ Due(r) THEN now + Next_s(r) ELSE expires[r]
         /\ expires' \in [Requests -> Nat]
<1> DEFINE due == {r \in requests_wait : Due(r)}
<1>1. /\ now >= frame_at /\ frame_at' = frame_at + Frame
      /\ UNCHANGED <<created, timeout, tries, refused, now>>
      /\ expires' = [r \in Requests |->
                       IF r \in due THEN now + Next_s(r) ELSE expires[r]]
  BY DEF FrameTick
<1>2. PICK lost \in SUBSET due : schedule_request_promote(due, lost)
  BY DEF FrameTick
<1>3. /\ requests' \subseteq requests \union due
      /\ requests_wait' = requests_wait \ due
  BY <1>2 DEF schedule_request_promote
<1>4. \A r \in Requests : now + Next_s(r) \in Nat
  <2> SUFFICES ASSUME NEW r \in Requests PROVE now + Next_s(r) \in Nat
    OBVIOUS
  <2> QED
    BY RequestType DEF Next_s, Late, Passed
<1>5. expires' \in [Requests -> Nat]
  BY <1>1, <1>4 DEF TypeOK
<1> QED
  BY <1>1, <1>3, <1>5

LEMMA TypeInit == flb_sched_init => TypeOK
BY Numbers DEF flb_sched_init, TypeOK

LEMMA TypeNext == TypeOK /\ [Next]_vars => TypeOK'
<1> SUFFICES ASSUME TypeOK, [Next]_vars PROVE TypeOK'
  OBVIOUS
<1>1. ASSUME NEW r \in Requests, NEW s \in 0..MaxTime, Create(r, s) PROVE TypeOK'
  <2>1. s \in Nat /\ now + s \in Nat
    BY Numbers DEF TypeOK
  <2> QED
    BY <1>1, <2>1
    DEF Create, Unlisted, schedule_request_now, schedule_request_wait, TypeOK
<1>2. ASSUME NEW r \in Requests, CreateRefused(r) PROVE TypeOK'
  BY <1>2 DEF CreateRefused, schedVars, TypeOK
<1>3. CASE FrameTick
  BY <1>3, TickStep, Numbers DEF TypeOK
<1>4. ASSUME NEW r \in Requests, Fire(r) PROVE TypeOK'
  BY <1>4 DEF Fire, reqVars, TypeOK
<1>5. ASSUME NEW r \in Requests, Invalidate(r) PROVE TypeOK'
  BY <1>5 DEF Invalidate, flb_sched_request_invalidate, reqVars, TypeOK
<1>6. CASE Second
  BY <1>6 DEF Second, schedVars, reqVars, TypeOK
<1>7. CASE UNCHANGED vars
  BY <1>7 DEF vars, schedVars, reqVars, TypeOK
<1> QED
  BY <1>1, <1>2, <1>3, <1>4, <1>5, <1>6, <1>7 DEF Next

(***************************************************************************)
(* The scheduler's variables keep their types, and no request is on both   *)
(* of its lists.                                                           *)
(***************************************************************************)
THEOREM TypeCorrect == Spec => []TypeOK
BY TypeInit, TypeNext, PTL DEF Spec
-------------------------------------------------------------------------------
(* The times of the requests.                                              *)

LEMMA ClockInit == flb_sched_init => ClockInv
BY Numbers DEF flb_sched_init, ClockInv, FrameInv, ArmedInv, WaitInv

LEMMA ClockNext == TypeOK /\ ClockInv /\ [Next]_vars => ClockInv'
<1> SUFFICES ASSUME TypeOK, ClockInv, [Next]_vars PROVE ClockInv'
  OBVIOUS
<1> USE Numbers
\* A step that only takes requests off their lists.
<1>1. ASSUME requests' \subseteq requests, requests_wait' \subseteq requests_wait,
             UNCHANGED <<created, timeout, expires, now, frame_at>>
      PROVE  ClockInv'
  BY <1>1 DEF ClockInv, FrameInv, ArmedInv, WaitInv, Expiry
<1>2. ASSUME NEW r \in Requests, NEW s \in 0..MaxTime, Create(r, s)
      PROVE  ClockInv'
  <2>1. /\ r \notin requests /\ r \notin requests_wait
        /\ UNCHANGED <<now, frame_at>> /\ s \in Nat
        /\ Expiry(r)' = now + s
        /\ \A q \in Requests \ {r} : Expiry(q)' = Expiry(q)
    BY <1>2 DEF Create, Unlisted, Expiry, TypeOK
  <2>2. CASE s > Frame
    <3>1. /\ UNCHANGED <<requests, expires>>
          /\ requests_wait' = requests_wait \union {r}
      BY <1>2, <2>2 DEF Create, schedule_request_wait
    <3>2. frame_at < Expiry(r)'
      BY <2>1, <2>2, RequestType DEF ClockInv, FrameInv
    <3>3. ArmedInv'
      BY <2>1, <3>1 DEF ClockInv, ArmedInv, TypeOK
    <3>4. WaitInv'
      BY <2>1, <3>1, <3>2 DEF ClockInv, WaitInv, TypeOK
    <3> QED
      BY <2>1, <3>3, <3>4 DEF ClockInv, FrameInv
  <2>3. CASE ~(s > Frame)
    <3>1. /\ UNCHANGED requests_wait
          /\ requests' = requests \union {r}
          /\ expires' = [expires EXCEPT ![r] = now + s]
      BY <1>2, <2>3 DEF Create, schedule_request_now
    <3>2. expires'[r] = now + s /\ \A q \in Requests \ {r} : expires'[q] = expires[q]
      BY <3>1 DEF TypeOK
    <3>3. ASSUME NEW q \in requests'
          PROVE  /\ Expiry(q)' <= expires'[q]
                 /\ expires'[q] <= Expiry(q)' + MaxLag
                 /\ now' <= expires'[q] + MaxLag
      <4>1. CASE q = r
        BY <2>1, <3>2, <4>1, RequestType
      <4>2. CASE q # r
        <5>1. q \in requests /\ q \in Requests \ {r}
          BY <3>1, <4>2 DEF TypeOK
        <5> QED
          BY <2>1, <3>2, <5>1 DEF ClockInv, ArmedInv
      <4> QED
        BY <4>1, <4>2
    <3>4. ArmedInv'
      BY <3>3 DEF ArmedInv
    <3>5. WaitInv'
      BY <2>1, <3>1 DEF ClockInv, WaitInv, TypeOK
    <3> QED
      BY <2>1, <3>4, <3>5 DEF ClockInv, FrameInv
  <2> QED
    BY <2>2, <2>3
<1>3. ASSUME NEW r \in Requests, CreateRefused(r) PROVE ClockInv'
  BY <1>1, <1>3 DEF CreateRefused, schedVars
<1>4. CASE FrameTick
  <2>1. /\ now >= frame_at /\ frame_at' = frame_at + Frame
        /\ UNCHANGED <<created, timeout, now>>
        /\ requests' \subseteq requests \union {r \in requests_wait : Due(r)}
        /\ requests_wait' = {r \in requests_wait : ~Due(r)}
        /\ \A r \in Requests : expires'[r] =
             IF r \in requests_wait /\ Due(r) THEN now + Next_s(r) ELSE expires[r]
    BY <1>4, TickStep
  <2>2. \A r \in Requests : Expiry(r)' = Expiry(r)
    BY <2>1 DEF Expiry
  <2>3. now \in Nat /\ frame_at \in Nat
    BY DEF TypeOK
  <2>4. FrameInv'
    BY <2>1, <2>3 DEF ClockInv, FrameInv
  <2>5. ASSUME NEW r \in requests_wait' PROVE frame_at' < Expiry(r)'
    <3>1. r \in Requests /\ ~Due(r)
      BY <2>1 DEF TypeOK
    <3> QED
      BY <2>1, <2>2, <3>1, RequestType DEF Due, Passed, Expiry
  <2>6. ASSUME NEW r \in requests'
        PROVE  /\ Expiry(r)' <= expires'[r]
               /\ expires'[r] <= Expiry(r)' + MaxLag
               /\ now' <= expires'[r] + MaxLag
    <3>1. CASE r \in requests_wait /\ Due(r)
      <4>1. r \in Requests /\ expires'[r] = now + Next_s(r)
        BY <2>1, <3>1 DEF TypeOK
      <4>2. frame_at < Expiry(r) /\ now <= frame_at + MaxLag
        BY <3>1 DEF ClockInv, WaitInv, FrameInv
      <4> QED
        BY <2>1, <2>2, <4>1, <4>2, RequestType DEF Next_s, Late, Passed, Expiry
    <3>2. CASE ~(r \in requests_wait /\ Due(r))
      <4>1. r \in requests /\ r \in Requests /\ expires'[r] = expires[r]
        BY <2>1, <3>2 DEF TypeOK
      <4> QED
        BY <2>1, <2>2, <4>1 DEF ClockInv, ArmedInv
    <3> QED
      BY <3>1, <3>2
  <2> QED
    BY <2>4, <2>5, <2>6 DEF ClockInv, ArmedInv, WaitInv
<1>5. ASSUME NEW r \in Requests, Fire(r) PROVE ClockInv'
  BY <1>1, <1>5 DEF Fire, reqVars
<1>6. ASSUME NEW r \in Requests, Invalidate(r) PROVE ClockInv'
  BY <1>1, <1>6 DEF Invalidate, flb_sched_request_invalidate, reqVars
<1>7. CASE Second
  <2>1. /\ now' = now + 1 /\ now < frame_at + MaxLag
        /\ \A r \in requests : now < expires[r] + MaxLag
        /\ UNCHANGED <<requests, requests_wait, created, timeout, expires, frame_at>>
    BY <1>7 DEF Second, schedVars, reqVars
  <2>2. now \in Nat /\ frame_at \in Nat /\ \A r \in requests : expires[r] \in Nat
    BY DEF TypeOK
  <2>3. FrameInv'
    BY <2>1, <2>2 DEF ClockInv, FrameInv
  <2>4. ArmedInv'
    BY <2>1, <2>2 DEF ClockInv, ArmedInv, Expiry
  <2>5. WaitInv'
    BY <2>1 DEF ClockInv, WaitInv, Expiry
  <2> QED
    BY <2>3, <2>4, <2>5 DEF ClockInv
<1>8. CASE UNCHANGED vars
  BY <1>1, <1>8 DEF vars, schedVars, reqVars
<1> QED
  BY <1>2, <1>3, <1>4, <1>5, <1>6, <1>7, <1>8 DEF Next

(***************************************************************************)
(* The inductive invariant about the times of schedule_request_wait(),     *)
(* schedule_request_promote() and armed timers holds in every behaviour.   *)
(***************************************************************************)
THEOREM ClockCorrect == Spec => [](TypeOK /\ ClockInv)
<1>1. flb_sched_init => TypeOK /\ ClockInv
  BY TypeInit, ClockInit
<1>2. TypeOK /\ ClockInv /\ [Next]_vars => (TypeOK /\ ClockInv)'
  BY TypeNext, ClockNext
<1> QED
  BY <1>1, <1>2, PTL DEF Spec

(***************************************************************************)
(* No request that is listed is overdue by more than twice the lag of the  *)
(* loop, whether it waits for its frame or its timer is armed.             *)
(***************************************************************************)
THEOREM OnTimeCorrect == Spec => []OnTime
<1>1. TypeOK /\ ClockInv => OnTime
  <2> SUFFICES ASSUME TypeOK, ClockInv, NEW r \in requests \union requests_wait
               PROVE  now <= created[r] + timeout[r] + 2 * MaxLag
    BY DEF OnTime
  <2>1. r \in Requests
    BY DEF TypeOK
  <2>2. CASE r \in requests
    BY <2>1, <2>2, Numbers, RequestType DEF ClockInv, ArmedInv, Expiry
  <2>3. CASE r \in requests_wait
    BY <2>1, <2>3, Numbers, RequestType DEF ClockInv, WaitInv, FrameInv, Expiry
  <2> QED
    BY <2>2, <2>3
<1> QED
  BY <1>1, ClockCorrect, PTL

(***************************************************************************)
(* No retry is dispatched before its back-off is over.                     *)
(***************************************************************************)
THEOREM EarlyCorrect == Spec => NeverEarly
<1>1. TypeOK /\ ClockInv =>
        \A r \in requests : Fire(r) => now >= created[r] + timeout[r]
  <2> SUFFICES ASSUME TypeOK, ClockInv, NEW r \in requests, Fire(r)
               PROVE  now >= created[r] + timeout[r]
    OBVIOUS
  <2>1. r \in Requests /\ now >= expires[r]
    BY DEF TypeOK, Fire
  <2> QED
    BY <2>1, RequestType DEF ClockInv, ArmedInv, Expiry
<1> QED
  BY <1>1, ClockCorrect, PTL DEF Spec, NeverEarly
===============================================================================

----------------------------- MODULE FlbDelivery -----------------------------
(***************************************************************************)
(* What the engine promises about the delivery of one buffer of records    *)
(* (a task) to its routes, without threads, ids, pipes, timers or batches. *)
(* Each route of an accepted task is tried, backs off between tries, and   *)
(* is settled once with a final result.  What the engine does not promise  *)
(* is stated as well: when the last try that is running is settled, routes *)
(* that only back off are abandoned, and stopping abandons everything.     *)
(* How many retries a route gets is a parameter: FlbEngine implements this *)
(* with one more than retry_limit.                                         *)
(***************************************************************************)
EXTENDS Integers

CONSTANTS
  Tasks, Outputs,
  Granted         \* Granted[o]: retries of a route, negative: unlimited

VARIABLES
  phase,          \* phase[p][o]: where the delivery of p to o stands
  tries,          \* tries[p][o]: retries granted so far, while unsettled
  up              \* the engine has not been shut down

Final == {"ok", "error", "exhausted", "unscheduled"}

Init == /\ phase = [p \in Tasks |-> [o \in Outputs |-> "idle"]]
        /\ tries = [p \in Tasks |-> [o \in Outputs |-> 0]]
        /\ up = TRUE

\* A task is accepted for the routes R and all of them are tried.
Accept(p, R) ==
  /\ up /\ R # {}
  /\ \A o \in Outputs : phase[p][o] = "idle"
  /\ phase' = [phase EXCEPT ![p] = [o \in Outputs |->
                                      IF o \in R THEN "trying" ELSE "idle"]]
  /\ UNCHANGED <<tries, up>>

\* A try asks to be repeated; at most Granted[o] times.
Backoff(p, o) ==
  /\ up /\ phase[p][o] = "trying"
  /\ Granted[o] >= 0 => tries[p][o] < Granted[o]
  /\ phase' = [phase EXCEPT ![p][o] = "backoff"]
  /\ tries' = [tries EXCEPT ![p][o] = @ + 1]
  /\ UNCHANGED up

\* The back-off is over: the route is tried again.
TryAgain(p, o) ==
  /\ up /\ phase[p][o] = "backoff"
  /\ phase' = [phase EXCEPT ![p][o] = "trying"]
  /\ UNCHANGED <<tries, up>>

(***************************************************************************)
(* A try ends with a final result, `exhausted' only after all the retries  *)
(* it is granted.  If no other route is being tried, the task is finished.  *)
(***************************************************************************)
Settle(p, o, result) ==
  LET last      == \A q \in Outputs \ {o} : phase[p][q] # "trying"
      Drops(q)  == last /\ phase[p][q] = "backoff"
  IN  /\ up /\ phase[p][o] = "trying"
      /\ result = "exhausted" => Granted[o] >= 0 /\ tries[p][o] = Granted[o]
      /\ phase' = [phase EXCEPT ![p] = [q \in Outputs |->
                     IF q = o THEN result
                     ELSE IF Drops(q) THEN "abandoned" ELSE phase[p][q]]]
      /\ tries' = [tries EXCEPT ![p] = [q \in Outputs |->
                     IF q = o \/ Drops(q) THEN 0 ELSE tries[p][q]]]
      /\ UNCHANGED up

\* The engine is shut down.
Stop ==
  /\ up
  /\ up' = FALSE
  /\ phase' = [p \in Tasks |-> [o \in Outputs |->
                 IF phase[p][o] \in {"trying", "backoff"}
                   THEN "abandoned" ELSE phase[p][o]]]
  /\ tries' = [p \in Tasks |-> [o \in Outputs |-> 0]]

\* The delivery of a route moves on.
Progress(p) ==
  /\ phase'[p] # phase[p]
  /\ \/ \E R \in SUBSET Outputs : Accept(p, R)
     \/ \E o \in Outputs : Backoff(p, o) \/ TryAgain(p, o)
     \/ \E o \in Outputs, f \in Final : Settle(p, o, f)

Next == (\E p \in Tasks : Progress(p)) \/ Stop

Spec == Init /\ [][Next]_<<phase, tries, up>>
=============================================================================

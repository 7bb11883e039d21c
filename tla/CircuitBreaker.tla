--------------------------- MODULE CircuitBreaker ---------------------------
(***************************************************************************)
(* The circuit breaker that guards one function: CircuitBreaker in         *)
(* services/gateway/core/circuit_breaker.py.  call() has one suspension,   *)
(* the await of the guarded function; calls overlap there, and a call may  *)
(* finish in a state other than the one it was admitted in.                *)
(*                                                                         *)
(* Time is discrete.  last_failure_time is kept as the time passed since,  *)
(* saturating one tick past recovery_timeout, and failures saturates at    *)
(* the threshold: call() only compares them with these two bounds.         *)
(***************************************************************************)
EXTENDS Integers, FiniteSets

CONSTANTS Calls,             \* slots for concurrent calls
          FailureThreshold,  \* failure_threshold
          RecoveryTimeout    \* recovery_timeout, in ticks

ASSUME ThresholdAssumption == FailureThreshold \in Nat \ {0}
ASSUME RecoveryAssumption == RecoveryTimeout \in Nat

VARIABLES state,         \* "CLOSED", "OPEN", "HALF_OPEN"
          failures,      \* failures, saturating
          sinceFailure,  \* time.time() - last_failure_time, saturating
          call           \* "idle", "running" (func awaited), "rejected"

vars == <<state, failures, sinceFailure, call>>

Elapsed == RecoveryTimeout + 1

Init == /\ state = "CLOSED"
        /\ failures = 0
        /\ sinceFailure = Elapsed
        /\ call = [c \in Calls |-> "idle"]

----------------------------------------------------------------------------
(* call() up to the await *)

\* The circuit refuses calls.
Blocked == state = "OPEN" /\ sinceFailure <= RecoveryTimeout

Admit(c) == /\ call[c] = "idle"
            /\ state # "OPEN"
            /\ call' = [call EXCEPT ![c] = "running"]
            /\ UNCHANGED <<state, failures, sinceFailure>>

Probe(c) == /\ call[c] = "idle"
            /\ state = "OPEN"
            /\ sinceFailure > RecoveryTimeout
            /\ state' = "HALF_OPEN"
            /\ call' = [call EXCEPT ![c] = "running"]
            /\ UNCHANGED <<failures, sinceFailure>>

RejectRestartingTimer(c) ==
  /\ call[c] = "idle"
  /\ Blocked
  /\ call' = [call EXCEPT ![c] = "rejected"]
  /\ sinceFailure' = 0
  /\ UNCHANGED <<state, failures>>

Reject(c) == /\ call[c] = "idle"
             /\ Blocked
             /\ call' = [call EXCEPT ![c] = "rejected"]
             /\ UNCHANGED <<state, failures, sinceFailure>>

\* The caller has seen CircuitBreakerOpenError.
Forget(c) == /\ call[c] = "rejected"
             /\ call' = [call EXCEPT ![c] = "idle"]
             /\ UNCHANGED <<state, failures, sinceFailure>>

----------------------------------------------------------------------------
(* call() after the await *)

resetToUnknownState == /\ failures' = 0
                       /\ state' = "closed"
                       /\ sinceFailure' = Elapsed

reset == /\ failures' = 0
         /\ state' = "CLOSED"
         /\ sinceFailure' = Elapsed

SucceedKeepingCount(c) ==
  /\ call[c] = "running"
  /\ call' = [call EXCEPT ![c] = "idle"]
  /\ IF state = "HALF_OPEN" THEN state' = "CLOSED" /\ UNCHANGED <<failures, sinceFailure>>
     ELSE UNCHANGED <<state, failures, sinceFailure>>

Succeed(c) == /\ call[c] = "running"
              /\ call' = [call EXCEPT ![c] = "idle"]
              /\ IF state = "HALF_OPEN" THEN reset
                 ELSE UNCHANGED <<state, failures, sinceFailure>>

Fail(c) == /\ call[c] = "running"
           /\ call' = [call EXCEPT ![c] = "idle"]
           /\ failures' = IF failures < FailureThreshold THEN failures + 1 ELSE failures
           /\ sinceFailure' = 0
           /\ state' = IF failures' >= FailureThreshold \/ state = "HALF_OPEN"
                       THEN "OPEN" ELSE state

\* CancelledError is no Exception: the breaker does not hear of it.
Cancel(c) == /\ call[c] = "running"
             /\ call' = [call EXCEPT ![c] = "idle"]
             /\ UNCHANGED <<state, failures, sinceFailure>>

Tick == /\ sinceFailure < Elapsed
        /\ sinceFailure' = sinceFailure + 1
        /\ UNCHANGED <<state, failures, call>>

Start(c) == Admit(c) \/ Probe(c)
Finish(c) == Succeed(c) \/ Fail(c) \/ Cancel(c)

Next == \/ \E c \in Calls : Start(c) \/ Reject(c) \/ Forget(c) \/ Finish(c)
        \/ Tick

Spec == Init /\ [][Next]_vars

\* Time passes, a guarded call ends (httpx applies its timeout), and callers
\* come back: a rejected one returns and some call is made again and again.
Fairness == /\ WF_vars(Tick)
            /\ WF_vars(\E c \in Calls : Start(c))
            /\ \A c \in Calls : WF_vars(Finish(c)) /\ WF_vars(Forget(c))

LiveSpec == Spec /\ Fairness

----------------------------------------------------------------------------
(* Properties *)

\* Types of the breaker's fields; state is a plain string in the code, and the
\* comparisons of call() know these three.
TypeOK == /\ state \in {"CLOSED", "OPEN", "HALF_OPEN"}
          /\ failures \in 0..FailureThreshold
          /\ sinceFailure \in 0..Elapsed
          /\ call \in [Calls -> {"idle", "running", "rejected"}]

\* State and counter agree whatever order overlapping calls finish in: a
\* closed circuit is still below the threshold (one more failure is needed
\* before the count can be ignored), and one that is not closed has counted
\* a failure since its last reset().
StateMatchesCount == /\ state = "CLOSED" => failures < FailureThreshold
                     /\ state # "CLOSED" => failures > 0

\* The circuit does not stay open for ever: failures of calls admitted before
\* it opened restart the timer, but rejected calls do not, so a call is let
\* through again.
OpenEnds == state = "OPEN" ~> state = "HALF_OPEN"
=============================================================================

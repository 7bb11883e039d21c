------------------------ MODULE CircuitBreakerProofs ------------------------
(***************************************************************************)
(* The breaker's state and its failure count agree for every threshold,    *)
(* every recovery time and any number of overlapping calls.                *)
(***************************************************************************)
EXTENDS CircuitBreaker, TLAPS

BreakerInv == TypeOK /\ StateMatchesCount

\* Types and counts are preserved by every step of call().
LEMMA BreakerStep == BreakerInv /\ [Next]_vars => BreakerInv'
<1> SUFFICES ASSUME BreakerInv, [Next]_vars PROVE BreakerInv'
  OBVIOUS
<1> USE ThresholdAssumption, RecoveryAssumption
        DEF BreakerInv, TypeOK, StateMatchesCount, Elapsed
<1>1. ASSUME NEW c \in Calls, Admit(c) PROVE BreakerInv'
  BY <1>1 DEF Admit
<1>2. ASSUME NEW c \in Calls, Probe(c) PROVE BreakerInv'
  BY <1>2 DEF Probe
<1>3. ASSUME NEW c \in Calls, Reject(c) PROVE BreakerInv'
  BY <1>3 DEF Reject
<1>4. ASSUME NEW c \in Calls, Forget(c) PROVE BreakerInv'
  BY <1>4 DEF Forget
<1>5. ASSUME NEW c \in Calls, Succeed(c) PROVE BreakerInv'
  <2>1. CASE state = "HALF_OPEN"
    BY <1>5, <2>1 DEF Succeed, reset
  <2>2. CASE state # "HALF_OPEN"
    BY <1>5, <2>2 DEF Succeed
  <2> QED
    BY <2>1, <2>2
<1>6. ASSUME NEW c \in Calls, Fail(c) PROVE BreakerInv'
  <2>1. failures' \in 1..FailureThreshold
    BY <1>6 DEF Fail
  <2>2. CASE failures' >= FailureThreshold \/ state = "HALF_OPEN"
    BY <1>6, <2>1, <2>2 DEF Fail
  <2>3. CASE ~(failures' >= FailureThreshold \/ state = "HALF_OPEN")
    BY <1>6, <2>1, <2>3 DEF Fail
  <2> QED
    BY <2>2, <2>3
<1>7. ASSUME NEW c \in Calls, Cancel(c) PROVE BreakerInv'
  BY <1>7 DEF Cancel
<1>8. CASE Tick
  BY <1>8 DEF Tick
<1>9. CASE UNCHANGED vars
  BY <1>9 DEF vars
<1> QED
  BY <1>1, <1>2, <1>3, <1>4, <1>5, <1>6, <1>7, <1>8, <1>9 DEF Next, Start, Finish

\* The fields of a breaker keep their types: __init__() establishes them, and no
\* path through call() or reset() writes a fourth state or counts past the
\* threshold.
THEOREM BreakerTypeCorrect == Spec => []TypeOK
<1>1. Init => BreakerInv
  BY ThresholdAssumption, RecoveryAssumption
  DEF Init, BreakerInv, TypeOK, StateMatchesCount, Elapsed
<1> QED
  BY <1>1, BreakerStep, PTL DEF Spec, BreakerInv

\* A closed circuit is below its threshold; any other has counted a failure.
THEOREM StateAlwaysMatchesCount == Spec => []StateMatchesCount
<1>1. Init => BreakerInv
  BY ThresholdAssumption, RecoveryAssumption
  DEF Init, BreakerInv, TypeOK, StateMatchesCount, Elapsed
<1> QED
  BY <1>1, BreakerStep, PTL DEF Spec, BreakerInv
=============================================================================

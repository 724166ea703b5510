------------------------- MODULE CircuitBreakerProofs -------------------------
(***************************************************************************)
(* The safety of the circuit breaker for every set of callers, threshold   *)
(* and cooldown.                                                           *)
(***************************************************************************)
EXTENDS CircuitBreaker, TLAPS

(* The conjunction is inductive as it stands. *)
IInv == TypeOK /\ HalfOpenIsRested /\ ClosedCountsConsecutiveFailures

(* The initial breaker is CLOSED with nothing on record (fields 65-68). *)
LEMMA InitEstablishesIInv == Init => IInv
BY ThresholdAssumption, CooldownAssumption, CountCapAssumption
   DEF Init, BreakerInit, IInv, TypeOK, HalfOpenIsRested,
       ClosedCountsConsecutiveFailures, Ages, Counts

(* An outcome, success or failure, recorded in any state keeps the         *)
(* breaker's invariant: record_success and record_failure.                 *)
LEMMA OutcomesPreserveIInv ==
    ASSUME IInv, calling' \subseteq Callers, RecordSuccess \/ RecordFailure
    PROVE  IInv'
<1> USE ThresholdAssumption, CooldownAssumption, CountCapAssumption, NoFailureAssumption
    DEF Ages, Counts, Bump
<1>1. CASE RecordSuccess
  <2>1. TypeOK'
    BY <1>1 DEF IInv, TypeOK, RecordSuccess, TransitionTo, StateAfterSuccess, CountAfterSuccess
  <2>2. HalfOpenIsRested'
    BY <1>1 DEF IInv, TypeOK, HalfOpenIsRested, RecordSuccess, TransitionTo,
                StateAfterSuccess, CooldownElapsed
  <2>3. ClosedCountsConsecutiveFailures'
    BY <1>1 DEF IInv, TypeOK, ClosedCountsConsecutiveFailures, RecordSuccess,
                TransitionTo, StateAfterSuccess, CountAfterSuccess
  <2> QED BY <2>1, <2>2, <2>3 DEF IInv
<1>2. CASE RecordFailure
  <2>1. TypeOK'
    BY <1>2 DEF IInv, TypeOK, RecordFailure, TransitionTo
  <2>2. HalfOpenIsRested'
    BY <1>2 DEF IInv, TypeOK, HalfOpenIsRested, RecordFailure, TransitionTo, Trips
  <2>3. ClosedCountsConsecutiveFailures'
    BY <1>2 DEF IInv, TypeOK, ClosedCountsConsecutiveFailures, RecordFailure,
                TransitionTo, Trips
  <2> QED BY <2>1, <2>2, <2>3 DEF IInv
<1> QED BY <1>1, <1>2

(* The operations that record no outcome keep it too: allow_call,          *)
(* force_open, reset and the passing of time.                              *)
LEMMA OtherOperationsPreserveIInv ==
    ASSUME IInv, calling' \subseteq Callers,
           AllowCall \/ ForceOpen \/ Reset \/ Tick \/ UNCHANGED breaker
    PROVE  IInv'
<1> USE ThresholdAssumption, CooldownAssumption, CountCapAssumption, NoFailureAssumption
    DEF Ages, Counts, IInv, TypeOK, HalfOpenIsRested, ClosedCountsConsecutiveFailures,
        CooldownElapsed
<1>1. CASE AllowCall
  BY <1>1 DEF AllowCall, TransitionTo
<1>2. CASE ForceOpen
  BY <1>2 DEF ForceOpen, TransitionTo
<1>3. CASE Reset
  BY <1>3 DEF Reset, TransitionTo
<1>4. CASE Tick
  BY <1>4 DEF Tick, OneOlder
<1>5. CASE UNCHANGED breaker
  BY <1>5 DEF breaker
<1> QED BY <1>1, <1>2, <1>3, <1>4, <1>5

(* Every step of the composed system is one of those operations. *)
LEMMA NextPreservesIInv == IInv /\ [Next]_vars => IInv'
<1> SUFFICES ASSUME IInv, [Next]_vars PROVE IInv'
  OBVIOUS
<1>0. calling \subseteq Callers
  BY DEF IInv, TypeOK
<1>1. ASSUME NEW c \in Callers, Begin(c) \/ Rejected(c) \/ Finish(c)
      PROVE  IInv'
  <2>0. calling' \subseteq Callers
    BY <1>0, <1>1 DEF Begin, Rejected, Finish, Succeed, Fail, Leave
  <2>1. CASE Succeed(c) \/ Fail(c)
    BY <2>0, <2>1, OutcomesPreserveIInv DEF Succeed, Fail
  <2>2. CASE Begin(c) \/ Rejected(c) \/ Leave(c)
    BY <2>0, <2>2, OtherOperationsPreserveIInv DEF Begin, Rejected, Leave, RejectCall
  <2> QED BY <1>1, <2>1, <2>2 DEF Finish
<1>2. CASE Operate(Tick) \/ Operate(ForceOpen) \/ Operate(Reset)
  BY <1>0, <1>2, OtherOperationsPreserveIInv DEF Operate
<1>3. CASE UNCHANGED vars
  BY <1>0, <1>3, OtherOperationsPreserveIInv DEF vars
<1> QED BY <1>1, <1>2, <1>3 DEF Next

(* The breaker never leaves its types, whatever the callers do.            *)
THEOREM TypeCorrect == Spec => []TypeOK
<1>1. IInv => TypeOK
  BY DEF IInv
<1> QED BY <1>1, InitEstablishesIInv, NextPreservesIInv, PTL DEF Spec

(* A probing breaker has always rested for the cooldown (allow_call).      *)
THEOREM RestedBeforeProbe == Spec => []HalfOpenIsRested
<1>1. IInv => HalfOpenIsRested
  BY DEF IInv
<1> QED BY <1>1, InitEstablishesIInv, NextPreservesIInv, PTL DEF Spec

(* A CLOSED breaker counts exactly the consecutive failures, fewer than    *)
(* the threshold (record_success, record_failure, reset).                  *)
THEOREM ConsecutiveFailures == Spec => []ClosedCountsConsecutiveFailures
<1>1. IInv => ClosedCountsConsecutiveFailures
  BY DEF IInv
<1> QED BY <1>1, InitEstablishesIInv, NextPreservesIInv, PTL DEF Spec

(* Only a manual reset takes the breaker from OPEN straight to CLOSED.     *)
THEOREM OpenIsClosedOnlyByReset == Spec => OpenClosesOnlyByReset
<1> DEFINE P == state = "OPEN" /\ state' = "CLOSED"
                    => last_failure_age' = NoFailure /\ calling' = calling
<1>1. [Next]_vars => [P]_vars
  <2> SUFFICES ASSUME Next, state = "OPEN", state' = "CLOSED"
               PROVE  last_failure_age' = NoFailure /\ calling' = calling
    BY DEF vars
  <2>1. ASSUME NEW c \in Callers, Begin(c) \/ Rejected(c) \/ Finish(c)
        PROVE  FALSE
    BY <2>1 DEF Begin, Rejected, Finish, Succeed, Fail, Leave, AllowCall, RejectCall,
                RecordSuccess, RecordFailure, TransitionTo, StateAfterSuccess, breaker
  <2>2. CASE Operate(Tick)
    BY <2>2 DEF Operate, Tick
  <2>3. CASE Operate(ForceOpen)
    BY <2>3 DEF Operate, ForceOpen, TransitionTo
  <2>4. CASE Operate(Reset)
    BY <2>4 DEF Operate, Reset
  <2> QED BY <2>1, <2>2, <2>3, <2>4 DEF Next
<1>2. [][Next]_vars => [][P]_vars
  BY <1>1, PTL
<1> QED BY <1>2 DEF Spec, OpenClosesOnlyByReset

(***************************************************************************)
(* While the breaker stays OPEN nobody is admitted, and its cooldown is    *)
(* set back only by a call that was in flight and thereby ends: as many    *)
(* late failures as there were calls at the trip can restart it, no more   *)
(* (allow_call, record_failure).  Where it is not set back it passes.      *)
(***************************************************************************)
THEOREM LateFailuresRunOut ==
    Spec => [][state = "OPEN" /\ state' = "OPEN" =>
                  /\ calling' \subseteq calling
                  /\ calling' = calling =>
                       \/ last_failure_age' = last_failure_age
                       \/ last_failure_age' = OneOlder(last_failure_age)]_vars
<1> DEFINE P == state = "OPEN" /\ state' = "OPEN" =>
                  /\ calling' \subseteq calling
                  /\ calling' = calling =>
                       \/ last_failure_age' = last_failure_age
                       \/ last_failure_age' = OneOlder(last_failure_age)
<1>1. [Next]_vars => [P]_vars
  <2> SUFFICES ASSUME Next, state = "OPEN", state' = "OPEN"
               PROVE  /\ calling' \subseteq calling
                      /\ calling' = calling =>
                           \/ last_failure_age' = last_failure_age
                           \/ last_failure_age' = OneOlder(last_failure_age)
    OBVIOUS
  <2>1. ASSUME NEW c \in Callers, Begin(c) \/ Rejected(c) PROVE UNCHANGED <<calling, last_failure_age>>
    BY <2>1 DEF Begin, Rejected, AllowCall, RejectCall, TransitionTo, breaker
  <2>2. ASSUME NEW c \in Callers, Finish(c) PROVE calling' \subseteq calling /\ calling' # calling
    BY <2>2 DEF Finish, Succeed, Fail, Leave
  <2>3. CASE Operate(Tick)
    BY <2>3 DEF Operate, Tick
  <2>4. CASE Operate(ForceOpen) \/ Operate(Reset)
    BY <2>4 DEF Operate, ForceOpen, Reset, TransitionTo
  <2> QED
    BY <2>1, <2>2, <2>3, <2>4 DEF Next
<1>2. [][Next]_vars => [][P]_vars
  BY <1>1, PTL
<1> QED
  BY <1>2 DEF Spec
=============================================================================

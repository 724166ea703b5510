---------------------------- MODULE ToolCallProofs ----------------------------
(***************************************************************************)
(* A connector's calls, with their attempts and reconnections, implement   *)
(* the circuit breaker's specification; and an attempt runs the tool at    *)
(* most once.  For every set of callers and every configuration.           *)
(***************************************************************************)
EXTENDS ToolCall, TLAPS

CBP == INSTANCE CircuitBreakerProofs WITH calling <- Outstanding

(* The part of TypeOK that is about the callers, and what ties the runs of *)
(* a tool to the attempts: a caller before its attempt's request has used  *)
(* up only the attempts before it.                                         *)
CallersOK ==
    /\ pc \in [Callers -> Points]
    /\ attempt \in [Callers -> 0..MaxAttempts]
    /\ executed \in [Callers -> 0..MaxAttempts]

IdleIsFresh == \A c \in Callers : pc[c] \in {"idle", "lookup"} => executed[c] = 0

ReconnectHasAttemptsLeft ==
    \A c \in Callers :
        pc[c] \in {"closing", "releasing", "opening", "initializing"} => ~LastAttempt(c)

RanHasRun == \A c \in Callers : pc[c] = "ran" => executed[c] > 0

IInv == CallersOK /\ IdleIsFresh /\ ReconnectHasAttemptsLeft /\ RanHasRun /\ RunsOncePerAttempt

(* At the start nobody is calling. *)
LEMMA InitEstablishesIInv == Init => IInv
BY RetryAssumption
   DEF Init, IInv, CallersOK, IdleIsFresh, ReconnectHasAttemptsLeft, RanHasRun,
       RunsOncePerAttempt, Points, MaxAttempts

(* A caller's own step keeps the invariant, for itself and for the others. *)
LEMMA CallerPreservesIInv ==
    ASSUME IInv, NEW c \in Callers, Start(c) \/ Continue(c)
    PROVE  IInv'
<1> USE RetryAssumption
    DEF IInv, CallersOK, IdleIsFresh, ReconnectHasAttemptsLeft, RanHasRun,
        RunsOncePerAttempt, Points, MaxAttempts, Goto, LastAttempt
<1>1. CASE Unconnected(c) \/ Rejected(c)
  BY <1>1 DEF Unconnected, Rejected
<1>2. CASE Admitted(c)
  BY <1>2 DEF Admitted
<1>3. CASE CacheHit(c)
  BY <1>3 DEF CacheHit, Return
<1>4. CASE CacheMiss(c)
  BY <1>4 DEF CacheMiss
<1>5. CASE ServerRuns(c)
  BY <1>5 DEF ServerRuns
<1>6. CASE Answered(c)
  BY <1>6 DEF Answered
<1>7. CASE Stored(c)
  BY <1>7 DEF Stored, Return
<1>8. CASE AttemptFails(c)
  BY <1>8 DEF AttemptFails, StartReconnect
<1>9. CASE CallFails(c)
  BY <1>9 DEF CallFails, Return
<1>10. CASE Reconnect(c)
  <2>1. CASE CloseSession(c)
    BY <2>1 DEF CloseSession
  <2>2. CASE CloseSessionRaises(c)
    BY <2>2 DEF CloseSessionRaises, NextAttempt
  <2>3. CASE ReleaseTransport(c)
    BY <2>3 DEF ReleaseTransport, NextAttempt
  <2>4. CASE OpenTransport(c)
    BY <2>4 DEF OpenTransport
  <2>5. CASE Initialize(c)
    BY <2>5 DEF Initialize, NextAttempt
  <2>6. CASE ReconnectRaises(c)
    BY <2>6 DEF ReconnectRaises, NextAttempt
  <2> QED BY <1>10, <2>1, <2>2, <2>3, <2>4, <2>5, <2>6 DEF Reconnect
<1> QED BY <1>1, <1>2, <1>3, <1>4, <1>5, <1>6, <1>7, <1>8, <1>9, <1>10 DEF Start, Continue

(* The environment touches no caller. *)
LEMMA NextPreservesIInv == IInv /\ [Next]_vars => IInv'
<1> SUFFICES ASSUME IInv, [Next]_vars PROVE IInv'
  OBVIOUS
<1>1. CASE \E c \in Callers : Start(c) \/ Continue(c)
  BY <1>1, CallerPreservesIInv
<1>2. CASE ServerDown \/ ServerUp \/ Expire \/ Tick \/ UNCHANGED vars
  <2>1. UNCHANGED <<pc, attempt, executed>>
    BY <1>2 DEF ServerDown, ServerUp, Expire, Tick, vars
  <2> QED BY <2>1 DEF IInv, CallersOK, IdleIsFresh, ReconnectHasAttemptsLeft, RanHasRun,
                      RunsOncePerAttempt, LastAttempt
<1> QED BY <1>1, <1>2 DEF Next

(* In every state the callers' invariant holds. *)
LEMMA Invariance == Spec => []IInv
BY InitEstablishesIInv, NextPreservesIInv, PTL DEF Spec

(* A tool runs at most once per attempt, and before its success is         *)
(* recorded (_call_tool, the loop of lines 254-283).                       *)
THEOREM OneRunPerAttempt == Spec => []RunsOncePerAttempt
<1>1. IInv => RunsOncePerAttempt
  BY DEF IInv
<1> QED BY <1>1, Invariance, PTL

-----------------------------------------------------------------------------
(* Refinement *)

(* What a caller's step does to the breaker and to the set of admitted     *)
(* callers that owe it an outcome is one step of the breaker's module, or  *)
(* nothing.                                                                *)
LEMMA CallerRefines ==
    ASSUME CallersOK, NEW c \in Callers, Start(c) \/ Continue(c)
    PROVE  [CB!Next]_(CB!vars)
<1> USE DEF CallersOK, Goto, Outstanding
<1>0. ASSUME Outstanding' = Outstanding, UNCHANGED breaker
      PROVE  UNCHANGED CB!vars
  BY <1>0 DEF breaker, CB!vars, CB!breaker
<1>1. CASE Unconnected(c) \/ Rejected(c)
  BY <1>0, <1>1 DEF Unconnected, Rejected, breaker, CB!RejectCall, CB!breaker
<1>2. CASE Admitted(c)
  <2>1. c \notin Outstanding /\ Outstanding' = Outstanding \cup {c}
    BY <1>2 DEF Admitted
  <2>2. CB!Begin(c)
    BY <1>2, <2>1 DEF Admitted, CB!Begin
  <2> QED BY <2>2 DEF CB!Next
<1>3. CASE Answered(c)
  <2>1. c \in Outstanding /\ Outstanding' = Outstanding \ {c}
    BY <1>3 DEF Answered
  <2>2. CB!Succeed(c)
    BY <1>3, <2>1 DEF Answered, CB!Succeed
  <2> QED BY <2>2 DEF CB!Next, CB!Finish
<1>4. CASE CallFails(c)
  <2>1. c \in Outstanding /\ Outstanding' = Outstanding \ {c}
    BY <1>4 DEF CallFails, Return
  <2>2. CB!Fail(c)
    BY <1>4, <2>1 DEF CallFails, CB!Fail
  <2> QED BY <2>2 DEF CB!Next, CB!Finish
<1>5. CASE CacheHit(c)
  <2>1. c \in Outstanding /\ Outstanding' = Outstanding \ {c}
    BY <1>5 DEF CacheHit, Return
  <2>2. CB!Leave(c)
    BY <1>5, <2>1 DEF CacheHit, CB!Leave, breaker, CB!breaker
  <2> QED BY <2>2 DEF CB!Next, CB!Finish
<1>6. CASE CacheMiss(c) \/ ServerRuns(c) \/ Stored(c) \/ AttemptFails(c) \/ Reconnect(c)
  <2>1. UNCHANGED breaker
    BY <1>6 DEF CacheMiss, ServerRuns, Stored, AttemptFails, OnlyTheCallCounts, Reconnect,
                CloseSession, CloseSessionRaises, ReleaseTransport, OpenTransport,
                Initialize, ReconnectRaises
  <2>2. Outstanding' = Outstanding
    BY <1>6 DEF CacheMiss, ServerRuns, Stored, Return, AttemptFails, StartReconnect,
                Reconnect, CloseSession, CloseSessionRaises, ReleaseTransport,
                OpenTransport, Initialize, ReconnectRaises, NextAttempt
  <2> QED BY <1>0, <2>1, <2>2
<1> QED BY <1>1, <1>2, <1>3, <1>4, <1>5, <1>6 DEF Start, Continue

(* _call_tool, whatever its retries and reconnections do, uses the breaker *)
(* as its specification says: one admission, at most one outcome.          *)
THEOREM Refinement == Spec => ImplementsBreaker
<1>1. Init => CB!Init
  BY DEF Init, CB!Init, Outstanding
<1>2. IInv /\ [Next]_vars => [CB!Next]_(CB!vars)
  <2> SUFFICES ASSUME IInv, [Next]_vars PROVE [CB!Next]_(CB!vars)
    OBVIOUS
  <2>1. CASE \E c \in Callers : Start(c) \/ Continue(c)
    BY <2>1, CallerRefines DEF IInv
  <2>2. CASE Tick
    BY <2>2 DEF Tick, CB!Next, CB!Operate, Outstanding
  <2>3. CASE ServerDown \/ ServerUp \/ Expire \/ UNCHANGED vars
    BY <2>3 DEF ServerDown, ServerUp, Expire, vars, breaker, Outstanding, CB!vars, CB!breaker
  <2> QED BY <2>1, <2>2, <2>3 DEF Next
<1> QED BY <1>1, <1>2, Invariance, PTL DEF Spec, ImplementsBreaker, CB!Spec

(* The breaker inside a connector is the one the proofs are about. *)
LEMMA SameBreaker == CB!Spec => CBP!Spec
<1>1. CB!Init => CBP!Init
  BY DEF CB!Init, CBP!Init, CB!BreakerInit, CBP!BreakerInit
<1>2. [CB!Next]_(CB!vars) => [CBP!Next]_(CBP!vars)
  BY DEF CB!Next, CBP!Next, CB!vars, CBP!vars, CB!breaker, CBP!breaker,
         CB!Begin, CBP!Begin, CB!Rejected, CBP!Rejected, CB!Finish, CBP!Finish,
         CB!Succeed, CBP!Succeed, CB!Fail, CBP!Fail, CB!Leave, CBP!Leave,
         CB!Operate, CBP!Operate, CB!AllowCall, CBP!AllowCall, CB!RejectCall, CBP!RejectCall,
         CB!RecordSuccess, CBP!RecordSuccess, CB!RecordFailure, CBP!RecordFailure,
         CB!ForceOpen, CBP!ForceOpen, CB!Reset, CBP!Reset, CB!Tick, CBP!Tick,
         CB!TransitionTo, CBP!TransitionTo, CB!Trips, CBP!Trips, CB!Bump, CBP!Bump,
         CB!OneOlder, CBP!OneOlder, CB!CooldownElapsed, CBP!CooldownElapsed,
         CB!StateAfterSuccess, CBP!StateAfterSuccess,
         CB!CountAfterSuccess, CBP!CountAfterSuccess
<1> QED
  BY <1>1, <1>2, PTL DEF CB!Spec, CBP!Spec

(* What was proved of the breaker therefore holds of the breaker inside a  *)
(* connector: it is probed only after a rest.                              *)
THEOREM ConnectorRestsBeforeProbe == Spec => []CB!HalfOpenIsRested
<1>1. CBP!Spec => []CBP!HalfOpenIsRested
  BY CBP!RestedBeforeProbe, BreakerAssumption
     DEF CBP!ThresholdAssumption, CBP!CooldownAssumption, CBP!CountCapAssumption,
         CBP!NoFailureAssumption
<1>2. CBP!HalfOpenIsRested => CB!HalfOpenIsRested
  BY DEF CBP!HalfOpenIsRested, CB!HalfOpenIsRested, CB!CooldownElapsed, CBP!CooldownElapsed
<1> QED
  BY <1>1, <1>2, SameBreaker, Refinement, PTL DEF ImplementsBreaker

(* While CLOSED it counts exactly the calls, not the attempts, that failed *)
(* in a row (_call_tool 259 and 286).                                      *)
THEOREM ConnectorCountsCalls == Spec => []CB!ClosedCountsConsecutiveFailures
<1>1. CBP!Spec => []CBP!ClosedCountsConsecutiveFailures
  BY CBP!ConsecutiveFailures, BreakerAssumption
     DEF CBP!ThresholdAssumption, CBP!CooldownAssumption, CBP!CountCapAssumption,
         CBP!NoFailureAssumption
<1>2. CBP!ClosedCountsConsecutiveFailures => CB!ClosedCountsConsecutiveFailures
  BY DEF CBP!ClosedCountsConsecutiveFailures, CB!ClosedCountsConsecutiveFailures
<1> QED
  BY <1>1, <1>2, SameBreaker, Refinement, PTL DEF ImplementsBreaker

(***************************************************************************)
(* Inside a connector, which never resets its breaker, the breaker closes  *)
(* only when the server has answered a call, and only after a rest: it is  *)
(* HALF_OPEN then, its last failure a cooldown ago or more (258-259).      *)
(* That the answer is the probe's does not follow.  A call admitted before *)
(* the trip may be answered in HALF_OPEN and close the breaker, also where *)
(* the call that made it HALF_OPEN was answered from the cache and probed  *)
(* nothing.                                                                *)
(***************************************************************************)
THEOREM ConnectorClosesAfterRest ==
    Spec => [][state # "CLOSED" /\ state' = "CLOSED" =>
                  /\ state = "HALF_OPEN" /\ CB!CooldownElapsed
                  /\ \E c \in Callers : Answered(c)]_vars
<1>1. CB!HalfOpenIsRested /\ [Next]_vars =>
        [state # "CLOSED" /\ state' = "CLOSED" =>
            /\ state = "HALF_OPEN" /\ CB!CooldownElapsed
            /\ \E c \in Callers : Answered(c)]_vars
  <2> SUFFICES ASSUME CB!HalfOpenIsRested, Next, state # "CLOSED", state' = "CLOSED"
               PROVE  /\ state = "HALF_OPEN" /\ CB!CooldownElapsed
                      /\ \E c \in Callers : Answered(c)
    OBVIOUS
  <2>1. ASSUME NEW c \in Callers, Start(c) PROVE FALSE
    BY <2>1 DEF Start, Unconnected, Rejected, Admitted, breaker, CB!RejectCall, CB!breaker,
                CB!AllowCall, CB!TransitionTo
  <2>2. ASSUME NEW c \in Callers, CallFails(c) PROVE FALSE
    BY <2>2 DEF CallFails, CB!RecordFailure, CB!TransitionTo
  <2>3. ASSUME NEW c \in Callers, CacheHit(c) \/ CacheMiss(c) \/ ServerRuns(c) \/ Stored(c)
                                   \/ AttemptFails(c) \/ Reconnect(c)
        PROVE  FALSE
    BY <2>3 DEF CacheHit, CacheMiss, ServerRuns, Stored, AttemptFails, OnlyTheCallCounts, Reconnect,
                CloseSession, CloseSessionRaises, ReleaseTransport, OpenTransport, Initialize,
                ReconnectRaises, breaker
  <2>4. CASE ServerDown \/ ServerUp \/ Expire \/ Tick
    BY <2>4 DEF ServerDown, ServerUp, Expire, Tick, CB!Tick, breaker
  <2>5. ASSUME NEW c \in Callers, Answered(c) PROVE state = "HALF_OPEN" /\ CB!CooldownElapsed
    BY <2>5 DEF Answered, CB!RecordSuccess, CB!TransitionTo, CB!StateAfterSuccess,
                CB!HalfOpenIsRested
  <2> QED
    BY <2>1, <2>2, <2>3, <2>4, <2>5 DEF Next, Continue
<1> QED
  BY <1>1, ConnectorRestsBeforeProbe, PTL DEF Spec

(* The part of TypeOK that is about the connection and the cache. *)
ConnectionOK ==
    /\ session \in Session \cup {NoSession}
    /\ server_up \in BOOLEAN
    /\ cached \in BOOLEAN
    /\ last \in {"none", "unconnected", "rejected", "cached", "value", "failed"}

LEMMA SessionTypes ==
    ASSUME session \in Session
    PROVE  \A ready \in BOOLEAN : [session EXCEPT !.ready = ready] \in Session
  BY DEF Session

LEMMA CallerPreservesConnection ==
    ASSUME ConnectionOK, NEW c \in Callers, Start(c) \/ Continue(c)
    PROVE  ConnectionOK'
<1> USE DEF ConnectionOK, connection, Return
<1>1. CASE Start(c)
  BY <1>1 DEF Start, Unconnected, Rejected, Admitted
<1>2. CASE CacheHit(c) \/ CacheMiss(c) \/ ServerRuns(c) \/ Answered(c) \/ Stored(c)
  BY <1>2 DEF CacheHit, CacheMiss, ServerRuns, Answered, Stored
<1>3. CASE AttemptFails(c) \/ CallFails(c)
  BY <1>3 DEF AttemptFails, CallFails
<1>4. CASE CloseSession(c) \/ ReleaseTransport(c) \/ ReconnectRaises(c)
  BY <1>4 DEF CloseSession, ReleaseTransport, ReconnectRaises
<1>5. CASE CloseSessionRaises(c)
  BY <1>5, SessionTypes DEF CloseSessionRaises
<1>6. CASE OpenTransport(c)
  BY <1>6 DEF OpenTransport, Session
<1>7. CASE Initialize(c)
  <2>1. session = [owner |-> c, ready |-> FALSE] => session \in Session
    BY DEF Session
  <2>2. session' \in Session \cup {NoSession}
    BY <1>7, <2>1, SessionTypes DEF Initialize
  <2> QED
    BY <1>7, <2>2 DEF Initialize
<1> QED
  BY <1>1, <1>2, <1>3, <1>4, <1>5, <1>6, <1>7 DEF Continue, Reconnect

LEMMA ConnectionHolds == Spec => []ConnectionOK
<1>1. Init => ConnectionOK
  <2> SUFFICES ASSUME Init PROVE ConnectionOK
    OBVIOUS
  <2>1. [owner |-> Startup, ready |-> TRUE] \in Session
    BY DEF Session
  <2>2. session \in Session /\ server_up \in BOOLEAN /\ cached \in BOOLEAN /\ last = "none"
    BY <2>1 DEF Init
  <2> QED
    BY <2>2 DEF ConnectionOK
<1>2. ConnectionOK /\ [Next]_vars => ConnectionOK'
  <2> SUFFICES ASSUME ConnectionOK, [Next]_vars PROVE ConnectionOK'
    OBVIOUS
  <2>1. CASE \E c \in Callers : Start(c) \/ Continue(c)
    BY <2>1, CallerPreservesConnection
  <2>2. CASE ServerDown
    BY <2>2, SessionTypes DEF ServerDown, ConnectionOK
  <2>3. CASE ServerUp \/ Expire \/ Tick \/ UNCHANGED vars
    BY <2>3 DEF ServerUp, Expire, Tick, vars, connection, ConnectionOK
  <2> QED
    BY <2>1, <2>2, <2>3 DEF Next
<1> QED
  BY <1>1, <1>2, PTL DEF Spec

(* A connector, with its callers, its session and its breaker, keeps its   *)
(* types, whatever reconnections overlap (_call_tool, reconnect).          *)
THEOREM ConnectorIsTyped == Spec => []TypeOK
<1>1. CBP!Spec => []CBP!TypeOK
  BY CBP!TypeCorrect, BreakerAssumption
     DEF CBP!ThresholdAssumption, CBP!CooldownAssumption, CBP!CountCapAssumption,
         CBP!NoFailureAssumption
<1>2. CBP!TypeOK => CB!TypeOK
  BY DEF CBP!TypeOK, CB!TypeOK, CBP!Counts, CB!Counts, CBP!Ages, CB!Ages
<1>3. IInv /\ ConnectionOK /\ CB!TypeOK => TypeOK
  BY DEF IInv, CallersOK, ConnectionOK, TypeOK
<1> QED
  BY <1>1, <1>2, <1>3, SameBreaker, Refinement, Invariance, ConnectionHolds, PTL
  DEF ImplementsBreaker
-----------------------------------------------------------------------------
(* Progress *)

Phase(point) ==
    CASE point = "ran" -> 1 [] point = "closing" -> 2 [] point = "releasing" -> 3
      [] point = "opening" -> 4 [] point = "initializing" -> 5 [] point = "storing" -> 6
      [] OTHER -> 0

(* A bound on the steps a call still has to take: six for each attempt,    *)
(* one for the look-up and one for the cache write.                        *)
Remaining(c) ==
    IF pc[c] = "idle" THEN 0 ELSE 6 * (MaxAttempts - attempt[c]) + 7 - Phase(pc[c])

(* A call that has not looked into the cache has made no attempt. *)
NoAttemptYet == \A c \in Callers : pc[c] \in {"idle", "lookup"} => attempt[c] = 0

LEMMA Phases ==
    /\ \A point \in Points : Phase(point) \in 0..6
    /\ Phase("lookup") = 0 /\ Phase("exec") = 0 /\ Phase("ran") = 1 /\ Phase("closing") = 2
    /\ Phase("releasing") = 3 /\ Phase("opening") = 4 /\ Phase("initializing") = 5
    /\ Phase("storing") = 6
  BY DEF Phase, Points

(* A caller's step moves nobody else and, within one attempt, its own      *)
(* place forward; the next attempt begins at its request.                  *)
LEMMA CallerMoves ==
    ASSUME IInv, NoAttemptYet, NEW c \in Callers, Continue(c)
    PROVE  /\ pc[c] # "idle"
           /\ \A d \in Callers \ {c} : pc'[d] = pc[d] /\ attempt'[d] = attempt[d]
           /\ \/ pc'[c] = "idle" /\ attempt'[c] = 0
              \/ pc'[c] # "idle" /\ attempt'[c] = attempt[c] /\ Phase(pc'[c]) > Phase(pc[c])
              \/ pc'[c] = "exec" /\ attempt'[c] = attempt[c] + 1 /\ Phase(pc[c]) < 6
<1> USE Phases DEF IInv, CallersOK, Goto
<1>1. CASE CacheHit(c) \/ Stored(c) \/ CallFails(c)
  BY <1>1 DEF CacheHit, Stored, CallFails, Return
<1>2. CASE CacheMiss(c)
  BY <1>2 DEF CacheMiss, NoAttemptYet
<1>3. CASE ServerRuns(c) \/ Answered(c)
  BY <1>3 DEF ServerRuns, Answered
<1>4. CASE AttemptFails(c)
  BY <1>4 DEF AttemptFails, StartReconnect
<1>5. CASE CloseSession(c) \/ OpenTransport(c)
  BY <1>5 DEF CloseSession, OpenTransport
<1>6. CASE CloseSessionRaises(c) \/ ReconnectRaises(c) \/ Initialize(c)
  BY <1>6 DEF CloseSessionRaises, ReconnectRaises, Initialize, NextAttempt
<1>7. CASE ReleaseTransport(c)
  BY <1>7 DEF ReleaseTransport, NextAttempt
<1> QED
  BY <1>1, <1>2, <1>3, <1>4, <1>5, <1>6, <1>7 DEF Continue, Reconnect

LEMMA NoAttemptYetHolds == Spec => []NoAttemptYet
<1>1. Init => NoAttemptYet
  BY DEF Init, NoAttemptYet
<1>2. IInv /\ NoAttemptYet /\ [Next]_vars => NoAttemptYet'
  <2> SUFFICES ASSUME IInv, NoAttemptYet, [Next]_vars PROVE NoAttemptYet'
    OBVIOUS
  <2>1. ASSUME NEW c \in Callers, Start(c) PROVE NoAttemptYet'
    BY <2>1 DEF Start, Unconnected, Rejected, Admitted, Goto, NoAttemptYet, IInv, CallersOK
  <2>2. ASSUME NEW c \in Callers, Continue(c) PROVE NoAttemptYet'
    <3>1. pc'[c] \in {"idle", "lookup"} => attempt'[c] = 0
      <4>1. pc[c] \in Points
        BY DEF IInv, CallersOK
      <4> QED
        BY <2>2, <4>1, CallerMoves, Phases
    <3> QED
      BY <2>2, <3>1, CallerMoves DEF NoAttemptYet
  <2>3. CASE ServerDown \/ ServerUp \/ Expire \/ Tick \/ UNCHANGED vars
    BY <2>3 DEF ServerDown, ServerUp, Expire, Tick, vars, NoAttemptYet
  <2> QED
    BY <2>1, <2>2, <2>3 DEF Next
<1> QED
  BY <1>1, <1>2, Invariance, PTL DEF Spec

LEMMA RemainingIsBounded ==
    ASSUME IInv, NEW c \in Callers
    PROVE  /\ Remaining(c) \in 0..(6 * MaxAttempts + 7)
           /\ Remaining(c) = 0 <=> pc[c] = "idle"
<1>1. attempt[c] \in Nat /\ attempt[c] <= MaxAttempts /\ MaxAttempts \in Nat
  BY RetryAssumption DEF IInv, CallersOK, MaxAttempts
<1>2. Phase(pc[c]) \in 0..6
  BY Phases DEF IInv, CallersOK
<1> QED
  BY <1>1, <1>2 DEF Remaining

(***************************************************************************)
(* No caller can be kept busy: each step of a call brings it nearer to its *)
(* end, and no other caller's step, nor the server's failures, throws it   *)
(* back, however they tear down each other's sessions.  A call takes at    *)
(* most six steps an attempt and seven more (_call_tool 254-283).          *)
(***************************************************************************)
THEOREM CallsAreBounded ==
    Spec => /\ [](\A c \in Callers : Remaining(c) \in 0..(6 * MaxAttempts + 7))
            /\ [][\A c \in Callers : pc[c] # "idle" =>
                      IF Continue(c) THEN Remaining(c)' < Remaining(c)
                                     ELSE Remaining(c)' = Remaining(c)]_vars
<1> DEFINE Counts(c) == IF Continue(c) THEN Remaining(c)' < Remaining(c)
                                       ELSE Remaining(c)' = Remaining(c)
<1>1. IInv /\ IInv' /\ NoAttemptYet /\ [Next]_vars =>
        [\A c \in Callers : pc[c] # "idle" => Counts(c)]_vars
  <2> SUFFICES ASSUME IInv, IInv', NoAttemptYet, Next, NEW c \in Callers, pc[c] # "idle"
               PROVE  Counts(c)
    OBVIOUS
  <2>1. ASSUME Continue(c) PROVE Remaining(c)' < Remaining(c)
    <3>1. attempt[c] \in Nat /\ attempt[c] <= MaxAttempts /\ MaxAttempts \in Nat
      BY RetryAssumption DEF IInv, CallersOK, MaxAttempts
    <3>2. Phase(pc[c]) \in 0..6 /\ Phase(pc'[c]) \in 0..6
      BY Phases DEF IInv, CallersOK
    <3>3. CASE pc'[c] = "idle"
      BY <3>1, <3>2, <3>3 DEF Remaining
    <3>4. CASE pc'[c] # "idle" /\ attempt'[c] = attempt[c] /\ Phase(pc'[c]) > Phase(pc[c])
      BY <3>1, <3>2, <3>4 DEF Remaining
    <3>5. CASE pc'[c] = "exec" /\ attempt'[c] = attempt[c] + 1 /\ Phase(pc[c]) < 6
      <4>1. Phase(pc'[c]) = 0
        BY <3>5, Phases
      <4> QED
        BY <3>1, <3>2, <3>5, <4>1 DEF Remaining
    <3> QED
      BY <2>1, <3>3, <3>4, <3>5, CallerMoves
  <2>2. CASE ~Continue(c)
    <3>1. pc'[c] = pc[c] /\ attempt'[c] = attempt[c]
      <4>1. ASSUME NEW d \in Callers, Start(d) PROVE pc'[c] = pc[c] /\ attempt'[c] = attempt[c]
        BY <4>1 DEF Start, Unconnected, Rejected, Admitted, Goto, IInv, CallersOK
      <4>2. ASSUME NEW d \in Callers, Continue(d) PROVE pc'[c] = pc[c] /\ attempt'[c] = attempt[c]
        BY <2>2, <4>2, CallerMoves
      <4>3. CASE ServerDown \/ ServerUp \/ Expire \/ Tick
        BY <4>3 DEF ServerDown, ServerUp, Expire, Tick
      <4> QED
        BY <4>1, <4>2, <4>3 DEF Next
    <3> QED
      BY <2>2, <3>1 DEF Remaining
  <2> QED
    BY <2>1, <2>2
<1>2. IInv => \A c \in Callers : Remaining(c) \in 0..(6 * MaxAttempts + 7)
  BY RemainingIsBounded
<1>3. IInv /\ [Next]_vars => IInv'
  BY NextPreservesIInv
<1> QED
  BY <1>1, <1>2, <1>3, Invariance, NoAttemptYetHolds, PTL DEF Spec
=============================================================================

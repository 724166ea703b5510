---------------------------- MODULE CircuitBreaker ----------------------------
(***************************************************************************)
(* The per-server circuit breaker (connectors/circuit_breaker.py) together *)
(* with the callers that go through it.  Every method of the breaker is    *)
(* synchronous and runs on the event loop without an await, so each is one *)
(* step; the call it guards is not, so calls of several callers overlap,   *)
(* and a call may report its outcome to a breaker that has meanwhile       *)
(* tripped, been probed or been reset by others.                           *)
(*                                                                         *)
(* Time is kept as an age, not a date: `last_failure_age' is the number of *)
(* ticks since last_failure_time.  _cooldown_elapsed only compares it with *)
(* the cooldown, so it stops growing there and no bound on the clock is    *)
(* needed.  The wall clock is assumed not to be set back.  The failure     *)
(* counter stops at CountCap for the same reason: the code only compares   *)
(* it with the threshold.  last_state_change is never read: left out.      *)
(***************************************************************************)
EXTENDS Integers

CONSTANTS
    Callers,           \* the concurrent users of one connector
    FailureThreshold,  \* failure_threshold, default 3
    CooldownSeconds,   \* cooldown_seconds, default 60
    CountCap,          \* where the saturating counters stop
    NoFailure          \* last_failure_time is None

ASSUME ThresholdAssumption == FailureThreshold \in Nat \ {0}
ASSUME CooldownAssumption == CooldownSeconds \in Nat
ASSUME CountCapAssumption == CountCap \in Nat /\ CountCap >= FailureThreshold
ASSUME NoFailureAssumption == NoFailure \notin Nat

VARIABLES
    state,             \* "CLOSED", "OPEN" or "HALF_OPEN"
    failure_count,
    last_failure_age,  \* NoFailure, or ticks since last_failure_time
    streak,            \* history: failures recorded since the last success
    calling            \* the callers whose call is in flight

breaker == <<state, failure_count, last_failure_age, streak>>
vars == <<breaker, calling>>

Ages == 0..CooldownSeconds
Counts == 0..CountCap

TypeOK ==
    /\ state \in {"CLOSED", "OPEN", "HALF_OPEN"}
    /\ failure_count \in Counts
    /\ last_failure_age \in Ages \cup {NoFailure}
    /\ streak \in Counts
    /\ calling \subseteq Callers

-----------------------------------------------------------------------------
(* The breaker's own operations. *)

Bump(n) == IF n < CountCap THEN n + 1 ELSE n

OneOlder(age) == IF age < CooldownSeconds THEN age + 1 ELSE age

CooldownElapsedNeedsAFailure == last_failure_age = CooldownSeconds \* mutant

(* With no failure on record the cooldown counts as elapsed. *)
CooldownElapsed == last_failure_age \notin 0..(CooldownSeconds - 1)

TripsOnlyWhenClosed(n) == state = "CLOSED" /\ n >= FailureThreshold \* mutant

(* failure_count has already been incremented to n when the code decides. *)
Trips(n) == state = "HALF_OPEN" \/ (state = "CLOSED" /\ n >= FailureThreshold)

TransitionTo(new) == state' = new

(* allow_call returning True; HALF_OPEN lets every caller through. *)
AllowCall ==
    /\ state = "OPEN" => CooldownElapsed
    /\ TransitionTo(IF state = "OPEN" THEN "HALF_OPEN" ELSE state)
    /\ UNCHANGED <<failure_count, last_failure_age, streak>>

(* allow_call returning False. *)
RejectCall ==
    /\ state = "OPEN" /\ ~CooldownElapsed
    /\ UNCHANGED breaker

CountDecays == failure_count - 1 \* mutant

CountKeptWhileClosed == IF state = "HALF_OPEN" THEN 0 ELSE failure_count \* mutant

(* A success that arrives while OPEN changes nothing. *)
CountAfterSuccess == IF state = "OPEN" THEN failure_count ELSE 0

AnySuccessCloses == "CLOSED" \* mutant

StateAfterSuccess == IF state = "HALF_OPEN" THEN "CLOSED" ELSE state

RecordSuccess ==
    /\ TransitionTo(StateAfterSuccess)
    /\ failure_count' = CountAfterSuccess
    /\ streak' = 0
    /\ UNCHANGED last_failure_age

(* A failure always counts and always restarts the cooldown, OPEN included. *)
RecordFailure ==
    /\ failure_count' = Bump(failure_count)
    /\ streak' = Bump(streak)
    /\ last_failure_age' = 0
    /\ TransitionTo(IF Trips(failure_count') THEN "OPEN" ELSE state)

(* force_open leaves last_failure_time as it is. *)
ForceOpen ==
    /\ TransitionTo("OPEN")
    /\ UNCHANGED <<failure_count, last_failure_age, streak>>

Reset ==
    /\ TransitionTo("CLOSED")
    /\ failure_count' = 0
    /\ last_failure_age' = NoFailure
    /\ streak' = 0

Tick ==
    /\ last_failure_age' = IF last_failure_age = NoFailure THEN NoFailure
                                                           ELSE OneOlder(last_failure_age)
    /\ UNCHANGED <<state, failure_count, streak>>

BreakerInit ==
    /\ state = "CLOSED"
    /\ failure_count = 0
    /\ last_failure_age = NoFailure
    /\ streak = 0

-----------------------------------------------------------------------------
(* The callers, as the module's usage note and _call_tool use the breaker. *)

Init == BreakerInit /\ calling = {}

Begin(c) ==
    /\ c \notin calling
    /\ AllowCall
    /\ calling' = calling \cup {c}

Rejected(c) ==
    /\ c \notin calling
    /\ RejectCall
    /\ UNCHANGED calling

Succeed(c) ==
    /\ c \in calling
    /\ RecordSuccess
    /\ calling' = calling \ {c}

Fail(c) ==
    /\ c \in calling
    /\ RecordFailure
    /\ calling' = calling \ {c}

(* A cache hit, a cancelled caller: the call ends and records nothing. *)
Leave(c) ==
    /\ c \in calling
    /\ calling' = calling \ {c}
    /\ UNCHANGED breaker

Finish(c) == Succeed(c) \/ Fail(c) \/ Leave(c)

Operate(op) == op /\ UNCHANGED calling

Next ==
    \/ \E c \in Callers : Begin(c) \/ Rejected(c) \/ Finish(c)
    \/ Operate(Tick)
    \/ Operate(ForceOpen)
    \/ Operate(Reset)

Spec == Init /\ [][Next]_vars

(***************************************************************************)
(* Time passes, every call ends (each has the connector's timeout_seconds) *)
(* and the application goes on calling its tools.  Nothing is assumed of   *)
(* the manual operations force_open and reset.                             *)
(***************************************************************************)
Fairness ==
    /\ WF_vars(Operate(Tick))
    /\ \A c \in Callers : WF_vars(Begin(c)) /\ WF_vars(Finish(c))

FairSpec == Spec /\ Fairness

-----------------------------------------------------------------------------
(* Properties *)

(***************************************************************************)
(* The probing state is reached, and kept, only while the server has been  *)
(* left alone for the cooldown: whatever late failures of calls begun      *)
(* before the trip arrive, a failure younger than the cooldown never       *)
(* coexists with HALF_OPEN (allow_call, record_failure).                   *)
(***************************************************************************)
HalfOpenIsRested == state = "HALF_OPEN" => CooldownElapsed

(***************************************************************************)
(* While CLOSED the counter is exactly the number of consecutive failures: *)
(* a success in any order between the failures of other callers clears it, *)
(* nothing recorded while OPEN or HALF_OPEN survives into CLOSED, and the  *)
(* breaker has not stayed CLOSED at the threshold (record_success,         *)
(* record_failure, reset).                                                 *)
(***************************************************************************)
ClosedCountsConsecutiveFailures ==
    state = "CLOSED" => failure_count = streak /\ failure_count < FailureThreshold

(***************************************************************************)
(* No step but a manual reset, which leaves no failure on record, takes    *)
(* the breaker from OPEN to CLOSED: while it is OPEN, the success of a     *)
(* call begun before the trip does not close it (record_success).  It says *)
(* nothing of HALF_OPEN, where such a late success does close the breaker. *)
(***************************************************************************)
OpenClosesOnlyByReset ==
    [][state = "OPEN" /\ state' = "CLOSED" => last_failure_age' = NoFailure /\ calling' = calling]_vars

(***************************************************************************)
(* An OPEN breaker does not stay OPEN for ever, although each late failure *)
(* restarts the cooldown: only the calls in flight at the trip can do      *)
(* that, and they run out (record_failure, _cooldown_elapsed).             *)
(***************************************************************************)
OpenIsTemporary == state = "OPEN" ~> state # "OPEN"
=============================================================================

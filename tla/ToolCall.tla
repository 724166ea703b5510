------------------------------- MODULE ToolCall -------------------------------
(***************************************************************************)
(* BaseMCPConnector._call_tool (connectors/base.py): breaker guard, cache  *)
(* look-up, attempts with a reconnection between them, one outcome for the *)
(* breaker.  One connector, and with it one breaker and one session, is    *)
(* shared by the callers of the event loop; they interleave at every       *)
(* await, and each await is the end of a step here.  So one caller's       *)
(* reconnection can take away the session another one is using, or has     *)
(* just made.                                                              *)
(*                                                                         *)
(* Data is abstracted to one READ and one WRITE tool call: `cached' says   *)
(* whether an unexpired response of the READ call is in the cache.  WRITE  *)
(* tools have a TTL of 0 and are never cached.                             *)
(***************************************************************************)
EXTENDS Integers

CONSTANTS
    Callers, FailureThreshold, CooldownSeconds, CountCap, NoFailure,
    Writers,      \* the callers whose tool is a WRITE tool
    RetryCount,   \* retry_count, default 1
    NoSession,    \* self._session is None
    Startup       \* who opened the first session

Session == [owner : Callers \cup {Startup}, ready : BOOLEAN]

ASSUME BreakerAssumption ==
    /\ FailureThreshold \in Nat \ {0}
    /\ CooldownSeconds \in Nat
    /\ CountCap \in Nat /\ CountCap >= FailureThreshold
    /\ NoFailure \notin Nat
ASSUME RetryAssumption == RetryCount \in Nat
ASSUME WritersAssumption == Writers \subseteq Callers
ASSUME SessionAssumption == NoSession \notin Session

VARIABLES
    state, failure_count, last_failure_age, streak,
    pc,           \* where each caller waits
    attempt,      \* attempts begun in the current call
    executed,     \* history: runs of the tool on the server in that call
    session,      \* NoSession, or who made it and whether it is usable
    server_up,    \* external: the MCP server can be reached
    cached,       \* a fresh response of the READ call is in the cache
    last          \* history: how the last _call_tool to return ended

breaker == <<state, failure_count, last_failure_age, streak>>
connection == <<session, server_up>>
vars == <<breaker, pc, attempt, executed, connection, cached, last>>

MaxAttempts == 1 + RetryCount

(* The callers the breaker has admitted and that owe it an outcome: not    *)
(* those that only wait for the cache write.                               *)
Outstanding == {c \in Callers : pc[c] \notin {"idle", "storing"}}

CB == INSTANCE CircuitBreaker WITH calling <- Outstanding

Ready == session # NoSession /\ session.ready

Points == {"idle", "lookup", "exec", "ran", "closing", "releasing", "opening",
           "initializing", "storing"}

TypeOK ==
    /\ CB!TypeOK
    /\ pc \in [Callers -> Points]
    /\ attempt \in [Callers -> 0..MaxAttempts]
    /\ executed \in [Callers -> 0..MaxAttempts]
    /\ session \in Session \cup {NoSession}
    /\ server_up \in BOOLEAN
    /\ cached \in BOOLEAN
    /\ last \in {"none", "unconnected", "rejected", "cached", "value", "failed"}

Goto(c, point) == pc' = [pc EXCEPT ![c] = point]

-----------------------------------------------------------------------------
(* Steps of one _call_tool *)

(* The call returns: its locals are gone. *)
Return(c, how) ==
    /\ Goto(c, "idle")
    /\ attempt' = [attempt EXCEPT ![c] = 0]
    /\ executed' = [executed EXCEPT ![c] = 0]
    /\ last' = how

(* The assertion at the top: nothing can be called without a session. *)
Unconnected(c) ==
    /\ pc[c] = "idle" /\ session = NoSession
    /\ last' = "unconnected"
    /\ UNCHANGED <<breaker, pc, attempt, executed, connection, cached>>

Rejected(c) ==
    /\ pc[c] = "idle" /\ session # NoSession
    /\ CB!RejectCall
    /\ last' = "rejected"
    /\ UNCHANGED <<pc, attempt, executed, connection, cached>>

Admitted(c) ==
    /\ pc[c] = "idle" /\ session # NoSession
    /\ Goto(c, "lookup")
    /\ CB!AllowCall
    /\ UNCHANGED <<attempt, executed, connection, cached, last>>

Hit(c) == cached /\ c \notin Writers

CacheHit(c) ==
    /\ pc[c] = "lookup" /\ Hit(c)
    /\ Return(c, "cached")
    /\ UNCHANGED <<breaker, connection, cached>>

CacheMiss(c) ==
    /\ pc[c] = "lookup" /\ ~Hit(c)
    /\ Goto(c, "exec")
    /\ attempt' = [attempt EXCEPT ![c] = 1]
    /\ UNCHANGED <<breaker, executed, connection, cached, last>>

(* The request reaches the server, which runs the tool. *)
ServerRuns(c) ==
    /\ pc[c] = "exec" /\ Ready /\ server_up
    /\ Goto(c, "ran")
    /\ executed' = [executed EXCEPT ![c] = @ + 1]
    /\ UNCHANGED <<breaker, attempt, connection, cached, last>>

(* The response is parsed; the success is recorded before the cache write. *)
Answered(c) ==
    /\ pc[c] = "ran"
    /\ Goto(c, "storing")
    /\ CB!RecordSuccess
    /\ UNCHANGED <<attempt, executed, connection, cached, last>>

Stored(c) ==
    /\ pc[c] = "storing"
    /\ cached' = (cached \/ c \notin Writers)
    /\ Return(c, "value")
    /\ UNCHANGED <<breaker, connection>>

(* An attempt can fail before or after the server has run the tool: no     *)
(* usable session, an unreachable server, a timeout, a lost response.  If  *)
(* attempts are left the caller starts to reconnect.                       *)
OneAttemptMore(c) == attempt[c] > MaxAttempts \* mutant

LastAttempt(c) == attempt[c] >= MaxAttempts

StartReconnect(c) == Goto(c, IF session = NoSession THEN "releasing" ELSE "closing")

EachAttemptCounts == CB!RecordFailure \* mutant

OnlyTheCallCounts == UNCHANGED breaker

AttemptFails(c) ==
    /\ pc[c] \in {"exec", "ran"} /\ ~LastAttempt(c)
    /\ OnlyTheCallCounts
    /\ StartReconnect(c)
    /\ UNCHANGED <<attempt, executed, connection, cached, last>>

CallFails(c) ==
    /\ pc[c] \in {"exec", "ran"} /\ LastAttempt(c)
    /\ Return(c, "failed")
    /\ CB!RecordFailure
    /\ UNCHANGED <<connection, cached>>

-----------------------------------------------------------------------------
(* reconnect(): disconnect, then connect; whatever it raises is suppressed *)
(* and the next attempt is made all the same.                              *)

SameAttempt(c) == Goto(c, "exec") /\ UNCHANGED attempt \* mutant

NextAttempt(c) ==
    /\ Goto(c, "exec")
    /\ attempt' = [attempt EXCEPT ![c] = @ + 1]

(* The session's __aexit__ returns: self._session is cleared even if it is *)
(* by now a session another caller has made.                               *)
CloseSession(c) ==
    /\ pc[c] = "closing"
    /\ session' = NoSession
    /\ Goto(c, "releasing")
    /\ UNCHANGED <<breaker, attempt, executed, server_up, cached, last>>

(* It raises: the old session stays, unusable. *)
CloseSessionRaises(c) ==
    /\ pc[c] = "closing"
    /\ session' = IF session = NoSession THEN NoSession ELSE [session EXCEPT !.ready = FALSE]
    /\ NextAttempt(c)
    /\ UNCHANGED <<breaker, executed, server_up, cached, last>>

(* The transport is closed; connect() does nothing if a session exists. *)
ReleaseTransport(c) ==
    /\ pc[c] = "releasing"
    /\ IF session = NoSession THEN Goto(c, "opening") /\ UNCHANGED attempt
                              ELSE NextAttempt(c)
    /\ UNCHANGED <<breaker, executed, connection, cached, last>>

OpenTransport(c) ==
    /\ pc[c] = "opening" /\ server_up
    /\ session' = [owner |-> c, ready |-> FALSE]
    /\ Goto(c, "initializing")
    /\ UNCHANGED <<breaker, attempt, executed, server_up, cached, last>>

(* initialize() completes; it helps only if self._session is still ours. *)
Initialize(c) ==
    /\ pc[c] = "initializing" /\ server_up
    /\ session' = IF session = [owner |-> c, ready |-> FALSE]
                     THEN [session EXCEPT !.ready = TRUE] ELSE session
    /\ NextAttempt(c)
    /\ UNCHANGED <<breaker, executed, server_up, cached, last>>

(* Closing the transport, opening it or the handshake raises. *)
ReconnectRaises(c) ==
    /\ pc[c] \in {"releasing", "opening", "initializing"}
    /\ NextAttempt(c)
    /\ UNCHANGED <<breaker, executed, connection, cached, last>>

Reconnect(c) ==
    \/ CloseSession(c)
    \/ CloseSessionRaises(c)
    \/ ReleaseTransport(c)
    \/ OpenTransport(c)
    \/ Initialize(c)
    \/ ReconnectRaises(c)

-----------------------------------------------------------------------------
(* The environment *)

(* The server goes away and every session with it. *)
ServerDown ==
    /\ server_up
    /\ server_up' = FALSE
    /\ session' = IF session = NoSession THEN NoSession ELSE [session EXCEPT !.ready = FALSE]
    /\ UNCHANGED <<breaker, pc, attempt, executed, cached, last>>

ServerUp ==
    /\ ~server_up
    /\ server_up' = TRUE
    /\ UNCHANGED <<breaker, pc, attempt, executed, session, cached, last>>

(* The entry's TTL passes. *)
Expire ==
    /\ cached
    /\ cached' = FALSE
    /\ UNCHANGED <<breaker, pc, attempt, executed, connection, last>>

Tick ==
    /\ CB!Tick
    /\ UNCHANGED <<pc, attempt, executed, connection, cached, last>>

-----------------------------------------------------------------------------
Init ==
    /\ CB!BreakerInit
    /\ pc = [c \in Callers |-> "idle"]
    /\ attempt = [c \in Callers |-> 0]
    /\ executed = [c \in Callers |-> 0]
    /\ session = [owner |-> Startup, ready |-> TRUE]
    /\ server_up = TRUE
    /\ cached = FALSE
    /\ last = "none"

Start(c) == Unconnected(c) \/ Rejected(c) \/ Admitted(c)

Continue(c) ==
    \/ CacheHit(c) \/ CacheMiss(c)
    \/ ServerRuns(c) \/ Answered(c) \/ Stored(c)
    \/ AttemptFails(c) \/ CallFails(c)
    \/ Reconnect(c)

Next ==
    \/ \E c \in Callers : Start(c) \/ Continue(c)
    \/ ServerDown \/ ServerUp \/ Expire \/ Tick

Spec == Init /\ [][Next]_vars

(* Every await returns or raises: the transport has a timeout.             *)
FairSpec == Spec /\ \A c \in Callers : WF_vars(Continue(c))

(***************************************************************************)
(* Besides, time passes, the application goes on calling, and a request to *)
(* a reachable server or a connection opened to it is answered if it is    *)
(* made again and again.                                                   *)
(***************************************************************************)
HealthySpec ==
    /\ FairSpec
    /\ WF_vars(Tick)
    /\ \A c \in Callers :
         /\ WF_vars(Admitted(c))
         /\ SF_vars(ServerRuns(c)) /\ SF_vars(Answered(c))
         /\ SF_vars(OpenTransport(c)) /\ SF_vars(Initialize(c))

-----------------------------------------------------------------------------
(* Properties *)

(***************************************************************************)
(* Seen from the breaker, a call of any number of attempts is one call: it *)
(* is admitted once, records at most one success or failure, and only for  *)
(* a call that was admitted; retries, reconnections and cache hits are not *)
(* seen at all (_call_tool, lines 238, 259 and 286).                       *)
(***************************************************************************)
ImplementsBreaker == CB!Spec

(***************************************************************************)
(* A tool is run on the server at most once per attempt, and a call that   *)
(* records its success has run it: attempts that reconnect never outnumber *)
(* 1 + retry_count, whichever steps of the reconnection raise (254-283).   *)
(***************************************************************************)
RunsOncePerAttempt ==
    \A c \in Callers :
        /\ executed[c] <= attempt[c]
        /\ pc[c] = "storing" => executed[c] > 0
        /\ pc[c] = "exec" => executed[c] < attempt[c]

(***************************************************************************)
(* No caller waits for ever: every call returns or raises, even when the   *)
(* callers keep tearing down each other's sessions.                        *)
(***************************************************************************)
EveryCallEnds == \A c \in Callers : pc[c] # "idle" ~> pc[c] = "idle"

(***************************************************************************)
(* docs/architecture.md: while the server is unavailable the agent uses    *)
(* cached data if fresh.  No READ call is refused by the breaker while a   *)
(* fresh response is in the cache.                                         *)
(***************************************************************************)
FreshDataServedWhenOpen ==
    [][\A c \in Callers \ Writers : Rejected(c) => ~cached]_vars

(***************************************************************************)
(* reconnect(): "Reconnect after transport failure (e.g., circuit breaker  *)
(* HALF_OPEN probe)".  Once the server stays reachable the connector has a *)
(* usable session again, and again.                                        *)
(***************************************************************************)
RecoversAfterOutage == <>[]server_up => []<>Ready
=============================================================================

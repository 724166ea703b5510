----------------------------- MODULE Degradation -----------------------------
(***************************************************************************)
(* DegradationMonitor (connectors/circuit_breaker.py): the level of the    *)
(* whole system, computed from the breakers registered with it.            *)
(*                                                                         *)
(* The breakers themselves are CircuitBreaker's; here one is CLOSED        *)
(* (healthy) or not, and changes whenever it likes.                        *)
(***************************************************************************)
EXTENDS Integers, FiniteSets

CONSTANTS
    ErpServers, \* names of breakers
    RagServer   \* rag_server_name

MonitoredServers == ErpServers \cup {RagServer}

ASSUME ServersAssumption == IsFiniteSet(ErpServers) /\ RagServer \notin ErpServers

VARIABLES
    breakers, \* the names registered
    open,     \* those whose breaker is not CLOSED
    grade,    \* self.level
    relieved  \* history: a breaker closed or was registered since evaluate

degradation_vars == <<breakers, open, grade, relieved>>

Levels == {"FULL", "DEGRADED", "LIMITED", "CRITICAL"}

DegradationTypeOK ==
    /\ breakers \subseteq MonitoredServers /\ open \subseteq breakers
    /\ grade \in Levels
    /\ relieved \in BOOLEAN

(* register; a second breaker of a name replaces the first. *)
RegisterBreaker(s) ==
    /\ breakers' = breakers \cup {s}
    /\ open' = open \ {s}
    /\ relieved' = TRUE
    /\ UNCHANGED grade

BreakerOpens(s) ==
    /\ s \in breakers \ open
    /\ open' = open \cup {s}
    /\ UNCHANGED <<breakers, grade, relieved>>

BreakerCloses(s) ==
    /\ s \in open
    /\ open' = open \ {s}
    /\ relieved' = TRUE
    /\ UNCHANGED <<breakers, grade>>

ErpOpen == Cardinality(open \ {RagServer})
ErpRegistered == Cardinality(breakers \ {RagServer})

ExactlyTwoOrRag == ErpOpen = 2 \/ RagServer \in open \* mutant

SeveralOrRag == ErpOpen >= 2 \/ RagServer \in open

(* With the RAG server alone registered, its failure is CRITICAL. *)
NewLevel ==
    IF open = {} THEN "FULL"
    ELSE IF ErpOpen >= ErpRegistered THEN "CRITICAL"
    ELSE IF SeveralOrRag THEN "LIMITED" ELSE "DEGRADED"

Evaluate ==
    /\ grade' = NewLevel
    /\ relieved' = FALSE
    /\ UNCHANGED <<breakers, open>>

DegradationInit ==
    /\ breakers = {} /\ open = {}
    /\ grade = "FULL"
    /\ relieved = FALSE

DegradationNext ==
    \/ \E s \in MonitoredServers : RegisterBreaker(s) \/ BreakerOpens(s) \/ BreakerCloses(s)
    \/ Evaluate

DegradationSpec == DegradationInit /\ [][DegradationNext]_degradation_vars

-----------------------------------------------------------------------------
(* Properties *)

Severity == [l \in Levels |-> CASE l = "FULL" -> 0 [] l = "DEGRADED" -> 1
                                [] l = "LIMITED" -> 2 [] l = "CRITICAL" -> 3]

(***************************************************************************)
(* The level gets better only because a breaker has closed or one was      *)
(* registered since the last evaluation: another server's failure never    *)
(* lifts it, across the branches for all, several, the RAG server and one  *)
(* (evaluate, 154-179).                                                    *)
(***************************************************************************)
OnlyRecoveryImproves ==
    [][Severity[grade'] < Severity[grade] => relieved]_degradation_vars
=============================================================================

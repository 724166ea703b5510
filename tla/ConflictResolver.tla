--------------------------- MODULE ConflictResolver ---------------------------
(***************************************************************************)
(* The negotiation of orchestrator/conflict_resolver.py: rounds of conflict*)
(* detection and utility auction over the agents' proposals, at most       *)
(* MaxRounds of them, and node_negotiate's use of the result.              *)
(*                                                                         *)
(* A proposal is abstracted to its utility and to the allocations it       *)
(* makes, an allocation to the agent that makes it, the supply it consumes *)
(* and a number (an agent may use one supply for several demands), an      *)
(* amendment to the winner and the contested supply it names.              *)
(* utility_score depends only on the proposal, which the auction does not  *)
(* change, so it is an input.  The coins of resolve_tiebreaker are a       *)
(* nondeterministic choice; of an agent's weight only whether it is zero   *)
(* matters, and weights are taken not to be negative.                      *)
(***************************************************************************)
EXTENDS Integers, FiniteSets

CONSTANTS
    NumAgents,   \* the agents are numbered in the order of the proposals dict
    Supplies,
    MaxPerPair,  \* bound: allocations an agent makes of one supply
    MaxAllocs,   \* bound: allocations of all proposals together
    Utilities,   \* bound: the utility scores considered
    Weightless,  \* the agents whose tiebreaker weight is zero
    MaxRounds    \* NegotiationConfig.max_rounds, default 5

Agents == 1..NumAgents

Allocations == [agent : Agents, supply : Supplies, nth : 1..MaxPerPair]

ASSUME NumAgentsAssumption == NumAgents \in Nat /\ MaxPerPair \in Nat
ASSUME UtilitiesAssumption == Utilities \subseteq Int /\ Weightless \subseteq Agents
(* config.py sets negotiation_rounds no lower bound; with 0 resolve() would *)
(* report a deadlock without having looked for a conflict.                 *)
ASSUME RoundsAssumption == MaxRounds \in Nat \ {0}

VARIABLES
    allocations, \* input: the allocations of all proposals
    utility,     \* input: the score of each agent's proposal
    round,       \* rounds completed
    amended,     \* the agents whose proposal has status AMENDED
    amendments,  \* what the amendments of each proposal say
    result,      \* of resolve(): "running", "resolved", "deadlock" or "failed"
    final_plan   \* the allocations node_negotiate hands on

vars == <<allocations, utility, round, amended, amendments, result, final_plan>>

Amendment == [winner : Agents, supply : Supplies]

TypeOK ==
    /\ allocations \subseteq Allocations
    /\ utility \in [Agents -> Utilities]
    /\ round \in 0..MaxRounds
    /\ amended \subseteq Agents
    /\ amendments \in [Agents -> SUBSET Amendment]
    /\ result \in {"running", "resolved", "deadlock", "failed"}
    /\ final_plan \subseteq allocations

-----------------------------------------------------------------------------
(* detect_conflicts *)

OnlyAcrossAgents(e, f) == e.agent < f.agent \* mutant

(* The order in which the entries of a supply were collected. *)
Before(e, f) == e.agent < f.agent \/ (e.agent = f.agent /\ e.nth < f.nth)

NeighbourConflicts ==
    {pair \in allocations \X allocations :
        /\ pair[1].supply = pair[2].supply /\ Before(pair[1], pair[2])
        /\ \A e \in allocations :
             ~ (e.supply = pair[1].supply /\ Before(pair[1], e) /\ Before(e, pair[2]))} \* mutant

(* Any two uses of one supply conflict, an agent's own included. *)
Conflicts == {pair \in allocations \X allocations :
                 pair[1].supply = pair[2].supply /\ Before(pair[1], pair[2])}

Bid(conflict, i) == utility[conflict[i].agent]

LowestWins(conflict) ==
    {i \in 1..2 : Bid(conflict, i) <= Bid(conflict, 3 - i)} \* mutant

CoinAlwaysLands(conflict) ==
    {i \in 1..2 : Bid(conflict, i) >= Bid(conflict, 3 - i)} \* mutant

(* The auction: the higher utility wins; a tie is decided by a coin loaded *)
(* with the weights, which an agent of weight zero never wins.             *)
PossibleWinners(conflict) ==
    {i \in 1..2 :
        \/ Bid(conflict, i) > Bid(conflict, 3 - i)
        \/ Bid(conflict, i) = Bid(conflict, 3 - i) /\ conflict[i].agent \notin Weightless}

(* In a conflict with itself an agent is both winner and loser. *)
Loser(conflict, winner) == conflict[3 - winner].agent

(* The code names the supply through conflict_alloc, which is the first    *)
(* agent's allocation even where the second agent lost.                    *)
Verdict(conflict, winner) ==
    [winner |-> conflict[winner].agent, supply |-> conflict[1].supply]

NoConflict ==
    /\ Conflicts = {}
    /\ result' = "resolved"
    /\ UNCHANGED <<amended, amendments>>

(* The losers are marked; their allocations stay in their proposals. *)
Auction ==
    /\ Conflicts # {}
    /\ \E winner \in [Conflicts -> 1..2] :
        /\ \A x \in Conflicts : winner[x] \in PossibleWinners(x)
        /\ amended' = amended \cup {Loser(x, winner[x]) : x \in Conflicts}
        /\ amendments' = [a \in Agents |-> amendments[a] \cup
              {Verdict(x, winner[x]) : x \in {y \in Conflicts : Loser(y, winner[y]) = a}}]
    /\ UNCHANGED result

(* A tie of two zero weights: ZeroDivisionError leaves resolve() and the   *)
(* node, and the proposals are gone with it.                               *)
TiebreakerRaises ==
    /\ \E x \in Conflicts : PossibleWinners(x) = {}
    /\ result' = "failed"
    /\ UNCHANGED <<round, amended, amendments>>

OneRoundTooMany == round <= MaxRounds \* mutant

RoundsLeft == round < MaxRounds

SameRound == round \* mutant

NextRound == round + 1

(* One iteration of resolve()'s loop. *)
RunRound ==
    /\ result = "running" /\ RoundsLeft
    /\ \/ (NoConflict \/ Auction) /\ round' = NextRound
       \/ TiebreakerRaises
    /\ UNCHANGED <<allocations, utility, final_plan>>

Deadlock ==
    /\ result = "running" /\ ~RoundsLeft
    /\ result' = "deadlock"
    /\ UNCHANGED <<allocations, utility, round, amended, amendments, final_plan>>

(* node_negotiate: the plan is every allocation of every proposal. *)
Collect ==
    /\ result \in {"resolved", "deadlock"} /\ final_plan # allocations
    /\ final_plan' = allocations
    /\ UNCHANGED <<allocations, utility, round, amended, amendments, result>>

(* Proposals number their allocations of a supply from 1. *)
Contiguous(allocs) ==
    \A e \in allocs : \A n \in 1..e.nth : [e EXCEPT !.nth = n] \in allocs

Init ==
    /\ allocations \in SUBSET Allocations
    /\ Cardinality(allocations) <= MaxAllocs /\ Contiguous(allocations)
    /\ utility \in [Agents -> Utilities]
    /\ round = 0
    /\ amended = {}
    /\ amendments = [a \in Agents |-> {}]
    /\ result = "running"
    /\ final_plan = {}

Next == RunRound \/ Deadlock \/ Collect

Spec == Init /\ [][Next]_vars

(* resolve() has no await that could stop it. *)
FairSpec == Spec /\ WF_vars(Next)

-----------------------------------------------------------------------------
(* Properties *)

(***************************************************************************)
(* The flag node_negotiate hands on is right both ways: a plan is reported *)
(* resolved only if no supply is used twice in it, and a deadlock is       *)
(* reported only if some supply is; max_rounds is not an excuse (224-251). *)
(***************************************************************************)
ResolvedMeansConflictFree ==
    /\ result = "resolved" =>
         \A e, f \in allocations : e.supply = f.supply => e = f
    /\ result = "deadlock" =>
         \E e, f \in allocations : e # f /\ e.supply = f.supply

(***************************************************************************)
(* Nobody loses to a lower bid: an amendment is written only into the      *)
(* proposal of an agent that uses the contested supply and against a       *)
(* winner that uses it too and bids at least as much; in any round and     *)
(* whatever the coins (286-311).                                           *)
(***************************************************************************)
LosersWereOutbid ==
    \A a \in Agents : \A m \in amendments[a] :
        /\ utility[m.winner] >= utility[a]
        /\ \A b \in {a, m.winner} : \E e \in allocations :
             e.agent = b /\ e.supply = m.supply

(***************************************************************************)
(* After the first round every double use of a supply has left its mark:   *)
(* one of its two parties is amended, so a proposal without an amendment   *)
(* conflicts with no other proposal without one (305-311).                 *)
(***************************************************************************)
EveryConflictIsJudged ==
    round > 0 => \A e, f \in allocations :
        e.supply = f.supply /\ e # f => e.agent \in amended \/ f.agent \in amended

Promise == INSTANCE Negotiation WITH verdict <- result, plan <- final_plan

(***************************************************************************)
(* The outcome depends on the proposals alone, not on max_rounds, on the   *)
(* order of the rounds or on a coin: the plan is resolved if no supply is  *)
(* used twice, the node raises if some tie cannot be broken, and the rest  *)
(* is a deadlock; it is decided once, before the plan is handed on         *)
(* (resolve 224-251, node_negotiate 646-666).                              *)
(***************************************************************************)
ImplementsNegotiation == Promise!Spec

(***************************************************************************)
(* The negotiation ends, within max_rounds, and its plan is handed on or,  *)
(* where a tie cannot be broken, the planning cycle fails.                 *)
(***************************************************************************)
NegotiationEnds ==
    <>[](\/ result \in {"resolved", "deadlock"} /\ final_plan = allocations
         \/ result = "failed")

(***************************************************************************)
(* docs/architecture.md: in the auction "the supply is awarded to the      *)
(* proposal with higher U_i", and IMPLEMENT.md says the same: once an      *)
(* auction has been held, the plan that is handed on gives each supply to  *)
(* one proposal.                                                           *)
(***************************************************************************)
SupplyIsAwardedOnce ==
    \A e, f \in final_plan : e.supply = f.supply => e.agent = f.agent
=============================================================================

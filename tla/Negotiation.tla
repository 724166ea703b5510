----------------------------- MODULE Negotiation -----------------------------
(***************************************************************************)
(* What the negotiation promises its callers, without rounds, auctions and *)
(* coins: the verdict is a function of the proposals, reached once, and    *)
(* the plan that is handed on is all of them.  ConflictResolver implements *)
(* it; PlanningCycle takes it for one step.                                *)
(***************************************************************************)

CONSTANT Weightless \* the agents whose tiebreaker weight is zero

VARIABLES
    allocations, \* input: the allocations of all proposals
    utility,     \* input: the score of each agent's proposal
    verdict,     \* "running" until there is one
    plan         \* the allocations handed on

vars == <<allocations, utility, verdict, plan>>

(* Two uses of one supply. *)
Clashes == {pair \in allocations \X allocations :
                pair[1] # pair[2] /\ pair[1].supply = pair[2].supply}

(* Nobody wins the auction of such a clash: equal bids, and no weights to  *)
(* load the coin with.                                                     *)
Unwinnable(clash) ==
    LET a == clash[1].agent
        b == clash[2].agent
    IN  utility[a] = utility[b] /\ {a, b} \subseteq Weightless

RightVerdict ==
    IF Clashes = {} THEN "resolved"
    ELSE IF \E clash \in Clashes : Unwinnable(clash) THEN "failed" ELSE "deadlock"

Decide ==
    /\ verdict = "running"
    /\ verdict' = RightVerdict
    /\ UNCHANGED <<allocations, utility, plan>>

HandOn ==
    /\ verdict \in {"resolved", "deadlock"} /\ plan # allocations
    /\ plan' = allocations
    /\ UNCHANGED <<allocations, utility, verdict>>

Init == verdict = "running" /\ plan = {}

Next == Decide \/ HandOn

Spec == Init /\ [][Next]_vars
=============================================================================

----------------------------- MODULE MCWriteGate -----------------------------
(* Two agents and calls on both sides of each gating rule; see the README. *)
EXTENDS WriteGate, TLC

CONSTANTS buyer, planner

MCAgents == {buyer, planner}

Purchase(quantity, price) ==
    [tool |-> "create_purchase_requisition", quantity |-> quantity, price_per_unit |-> price]

Reschedule(days) == [tool |-> "reschedule_wip_job", shift |-> days]

(* Beyond the threshold by the estimated price, twice; below it; a shift   *)
(* at the limit; a quantity that is no number; a new_end that is a list.   *)
Expensive == {Purchase(101, -1), Purchase(101, -2)}
Cheap == Purchase(999, 10)
Longer == Reschedule(7)
Malformed == {Purchase(Unparsable, 10), Reschedule(Unparsable)}

MCCalls == Expensive \cup {Cheap, Longer} \cup Malformed

(* CPython: hash(-1) = hash(-2) = -2, and a list has no hash. *)
HashOf(number) == IF number = -1 THEN -2 ELSE number

MCApprovalKey ==
    [call \in MCCalls |->
        IF call = Reschedule(Unparsable) THEN NoKey
        ELSE IF call.tool = "create_purchase_requisition"
        THEN [call EXCEPT !.price_per_unit = HashOf(@)]
        ELSE call]

MCMaxCalls == [call \in MCCalls |-> IF call \in Malformed \cup {Cheap} THEN 1 ELSE 2]
=============================================================================

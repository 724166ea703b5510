----------------------------- MODULE MCAgentTools -----------------------------
(* The instance of MCWriteGate, with the calls made by the agents' own tools. *)
EXTENDS AgentTools, TLC

CONSTANTS buyer, planner

MCAgents == {buyer, planner}

Purchase(quantity, price) ==
    [tool |-> "create_purchase_requisition", quantity |-> quantity, price_per_unit |-> price]

Reschedule(days) == [tool |-> "reschedule_wip_job", shift |-> days]

(* Beyond the threshold by the estimated price, below it, no number at all. *)
MCCalls == {Purchase(101, 0), Purchase(999, 10), Purchase(Unparsable, 10), Reschedule(NoBaseline)}

MCApprovalKey == [call \in MCCalls |-> call]

MCMaxCalls == [call \in MCCalls |-> 3]
=============================================================================

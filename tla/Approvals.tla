------------------------------ MODULE Approvals ------------------------------
(***************************************************************************)
(* What the gate for WRITE calls promises about a request for approval,    *)
(* without its queue: each request is reviewed on its own, as often as its *)
(* reviewer likes, until it is replaced by a new request with the same key *)
(* or its approval is spent; then it is closed for good.  An approval is   *)
(* spent on one execution at most, and is never replaced.                  *)
(***************************************************************************)
CONSTANTS Plans, Keys, NoKey

VARIABLES
    status, \* of each plan
    about   \* the key of the call it was made for

approvals == <<status, about>>

Statuses == {"new", "open", "granted", "refused", "used", "void"}

Reviewable == {"open", "granted", "refused"}

(* A new request closes the ones with its key that are not approved. *)
Request(plan, key) ==
    /\ status[plan] = "new"
    /\ \A p \in Plans : about[p] = key => status[p] # "granted"
    /\ about' = [about EXCEPT ![plan] = key]
    /\ status' = [p \in Plans |->
           IF p = plan THEN "open"
           ELSE IF about[p] = key /\ status[p] \in Reviewable THEN "void" ELSE status[p]]

Review(plan, verdict) ==
    /\ status[plan] \in Reviewable
    /\ status' = [status EXCEPT ![plan] = verdict]
    /\ UNCHANGED about

(* The call is executed, or found to have nothing that executes it. *)
Spend(plan, use) ==
    /\ status[plan] = "granted"
    /\ status' = [status EXCEPT ![plan] = use]
    /\ UNCHANGED about

Init ==
    /\ status = [p \in Plans |-> "new"]
    /\ about = [p \in Plans |-> NoKey]

Next ==
    \E plan \in Plans :
        \/ \E key \in Keys : Request(plan, key)
        \/ \E verdict \in {"granted", "refused"} : Review(plan, verdict)
        \/ \E use \in {"used", "void"} : Spend(plan, use)

Spec == Init /\ [][Next]_approvals
=============================================================================

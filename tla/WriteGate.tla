------------------------------ MODULE WriteGate ------------------------------
(***************************************************************************)
(* The gate for WRITE tool calls (connectors/write_gate.py): which calls   *)
(* need a human's approval, the pending queue, the execution through        *)
(* call_fn, and the audit log.                                             *)
(*                                                                         *)
(* gate_write_call runs without an await from the decision to the queue    *)
(* entry or to the invocation of call_fn, so each of these is one step;    *)
(* the wait for call_fn is where other agents and the reviewer interleave. *)
(* A call stands for a tool with its arguments.  The queue is keyed by the *)
(* tool with a hash of the arguments, ApprovalKey: the agent is not part   *)
(* of it, calls whose arguments hash alike share a key, and arguments that *)
(* cannot be hashed (a list among them) have none.  The contents of an     *)
(* audit record are left out, its existence is not.                        *)
(***************************************************************************)
EXTENDS Integers, FiniteSets

CONSTANTS
    Agents,
    Calls,                  \* records with a tool and what its rule reads
    writeback_enabled,      \* settings.writeback.enabled
    purchase_req_threshold,
    schedule_shift_days_threshold,
    NoBaseline,             \* no old_end in the arguments
    Unparsable,             \* a date fromisoformat refuses, a number float() refuses
    ApprovalKey,            \* of each call, or NoKey
    NoKey,
    MaxCalls,               \* bound: invocations of the gate, for each call
    MaxPlans,               \* bound: plan ids handed out
    NoEntry,                \* the key is not in the queue
    NoPlan,                 \* a call that needs no approval
    Idle                    \* the agent is not waiting for a call_fn

Plans == 1..MaxPlans

Keys == {ApprovalKey[call] : call \in Calls} \ {NoKey}

ASSUME BoundsAssumption == MaxCalls \in [Calls -> Nat] /\ MaxPlans \in Nat
ASSUME AgentsAssumption == IsFiniteSet(Agents)
ASSUME EnabledAssumption == writeback_enabled \in BOOLEAN
(* A limit beyond the 999 days that stand for a missing baseline would let *)
(* jobs without one pass; the code sets no upper limit, its default is 7.  *)
ASSUME ThresholdsAssumption ==
    /\ purchase_req_threshold \in Int
    /\ schedule_shift_days_threshold \in Int /\ schedule_shift_days_threshold <= 999
ASSUME CallsAssumption ==
    \A call \in Calls :
        /\ call.tool = "create_purchase_requisition" =>
              call.quantity \in Int \cup {Unparsable} /\ call.price_per_unit \in Int \cup {Unparsable}
        /\ call.tool = "reschedule_wip_job" => call.shift \in Nat \cup {NoBaseline, Unparsable}

VARIABLES
    pending,    \* _pending_write_approvals, by key
    running,    \* the call each agent waits for, and the plan it was approved under
    next_plan,  \* the next uuid4
    decision,   \* history: the reviewer's last accepted decision on a plan
    plan_key,   \* history: the key of the call a plan was made for
    uses,       \* history: executions under a plan
    invoked,    \* history: times a call was asked for
    cancelled,  \* history: times it was cancelled while its call_fn ran
    audited     \* the number of _audit_records about a call

history == <<decision, plan_key>>
vars == <<pending, running, next_plan, history, uses, invoked, cancelled, audited>>

Entry == [plan : Plans, approved : BOOLEAN]
Run == [call : Calls, plan : Plans \cup {NoPlan}]

ASSUME SentinelAssumption ==
    /\ NoEntry \notin Entry /\ Idle \notin Run /\ NoPlan \notin Plans
    /\ Unparsable \notin Int /\ NoBaseline \notin Int \cup {Unparsable}

TypeOK ==
    /\ pending \in [Keys -> Entry \cup {NoEntry}]
    /\ running \in [Agents -> Run \cup {Idle}]
    /\ next_plan \in 1..(MaxPlans + 1)
    /\ decision \in [Plans -> {"none", "approved", "rejected"}]
    /\ plan_key \in [Plans -> Keys \cup {NoKey}]
    /\ uses \in [Plans -> Nat]
    /\ invoked \in [Calls -> Nat]
    /\ cancelled \in [Calls -> Nat]
    /\ audited \in [Calls -> Nat]

-----------------------------------------------------------------------------
(* requires_hitl *)

EstimatedPrice == 100

Total(call) == call.quantity * (IF call.price_per_unit > 0 THEN call.price_per_unit
                                                           ELSE EstimatedPrice)

Shift(call) == IF call.shift = NoBaseline THEN 999 ELSE call.shift

BigPurchase(call) ==
    call.tool = "create_purchase_requisition" /\ Total(call) >= purchase_req_threshold

StrictlyLongerShift(call) == \* mutant
    /\ call.tool = "reschedule_wip_job"
    /\ call.shift # Unparsable => Shift(call) > schedule_shift_days_threshold

LongShift(call) ==
    /\ call.tool = "reschedule_wip_job"
    /\ call.shift # Unparsable => Shift(call) >= schedule_shift_days_threshold

RequiresHitl(call) == writeback_enabled /\ (BigPurchase(call) \/ LongShift(call))

(* float() in rule 1 is outside any try; only rule 2 catches its errors. *)
RuleRaises(call) ==
    /\ writeback_enabled
    /\ call.tool = "create_purchase_requisition"
    /\ Unparsable \in {call.quantity, call.price_per_unit}

Gated(call) == ~RuleRaises(call) /\ RequiresHitl(call)

-----------------------------------------------------------------------------
(* gate_write_call *)

(* The rules raise, or the key of a call they gate does. *)
Raises(call) == RuleRaises(call) \/ (Gated(call) /\ ApprovalKey[call] = NoKey)

Granted(key) == pending[key] # NoEntry /\ pending[key].approved

PendingSuffices(call) == pending[ApprovalKey[call]] # NoEntry \* mutant

Approved(call) == Granted(ApprovalKey[call])

Invoke(call) == invoked' = [invoked EXCEPT ![call] = @ + 1]

Audit(call) == audited' = [audited EXCEPT ![call] = @ + 1]

ForgetToAudit(call) == UNCHANGED audited \* mutant

(* Both ways out of call_fn write their record. *)
AuditEnd(call) == Audit(call)

AlwaysQueue(call) == RequiresHitl(call) \* mutant

MustQueue(call) == RequiresHitl(call) /\ ~Approved(call)

Enters(a, call) == running[a] = Idle /\ ~Raises(call) /\ Invoke(call)

(* Before anything is recorded. *)
GateRaises(a, call) ==
    /\ running[a] = Idle
    /\ Raises(call)
    /\ Invoke(call)
    /\ UNCHANGED <<pending, running, next_plan, history, uses, cancelled, audited>>

(* No approval: audit, a new plan id that replaces any earlier request for *)
(* the same key, and WriteGateError.                                       *)
Queue(a, call) ==
    /\ Enters(a, call)
    /\ MustQueue(call)
    /\ next_plan <= MaxPlans
    /\ pending' = [pending EXCEPT ![ApprovalKey[call]] = [plan |-> next_plan, approved |-> FALSE]]
    /\ next_plan' = next_plan + 1
    /\ plan_key' = [plan_key EXCEPT ![next_plan] = ApprovalKey[call]]
    /\ Audit(call)
    /\ UNCHANGED <<running, decision, uses, cancelled>>

ApprovalKept(key) == UNCHANGED pending \* mutant

ApprovalBlanked(key) == pending' = [pending EXCEPT ![key].plan = NoPlan] \* mutant

(* The approval is taken out of the queue before call_fn is even looked at. *)
ConsumeApproval(key) == pending' = [pending EXCEPT ![key] = NoEntry]

StartApproved(a, call) ==
    LET key == ApprovalKey[call] IN
    /\ Enters(a, call)
    /\ RequiresHitl(call) /\ Approved(call)
    /\ ConsumeApproval(key)
    /\ uses' = [uses EXCEPT ![pending[key].plan] = @ + 1]
    /\ running' = [running EXCEPT ![a] = [call |-> call, plan |-> pending[key].plan]]
    /\ UNCHANGED <<next_plan, history, cancelled, audited>>

StartUngated(a, call) ==
    /\ Enters(a, call)
    /\ ~RequiresHitl(call)
    /\ running' = [running EXCEPT ![a] = [call |-> call, plan |-> NoPlan]]
    /\ UNCHANGED <<pending, next_plan, history, uses, cancelled, audited>>

(* call_fn is None: an audit record, ValueError, and the approval is gone. *)
NoCallFn(a, call) ==
    /\ Enters(a, call)
    /\ RequiresHitl(call) => Approved(call)
    /\ IF RequiresHitl(call) THEN ConsumeApproval(ApprovalKey[call]) ELSE UNCHANGED pending
    /\ Audit(call)
    /\ UNCHANGED <<running, next_plan, history, uses, cancelled>>

(* call_fn returns or raises an Exception... *)
End(a) ==
    /\ running[a] # Idle
    /\ AuditEnd(running[a].call)
    /\ running' = [running EXCEPT ![a] = Idle]
    /\ UNCHANGED <<pending, next_plan, history, uses, invoked, cancelled>>

(* ... or the task is cancelled there: CancelledError is no Exception. *)
Cancel(a) ==
    /\ running[a] # Idle
    /\ cancelled' = [cancelled EXCEPT ![running[a].call] = @ + 1]
    /\ running' = [running EXCEPT ![a] = Idle]
    /\ UNCHANGED <<pending, next_plan, history, uses, invoked, audited>>

(* approve_pending_write finds the plan in the queue... *)
Review(plan, approved) ==
    \E key \in Keys :
        /\ pending[key] # NoEntry
        /\ pending[key].plan = plan
        /\ pending' = [pending EXCEPT ![key].approved = approved]
        /\ decision' = [decision EXCEPT ![plan] = IF approved THEN "approved" ELSE "rejected"]
        /\ UNCHANGED <<running, next_plan, plan_key, uses, invoked, cancelled, audited>>

(* ... or, replaced or already used, does not: it returns False. *)
ReviewTooLate(plan) ==
    /\ plan < next_plan
    /\ \A key \in Keys : pending[key] # NoEntry => pending[key].plan # plan
    /\ UNCHANGED vars

Init ==
    /\ pending = [key \in Keys |-> NoEntry]
    /\ running = [a \in Agents |-> Idle]
    /\ next_plan = 1
    /\ decision = [p \in Plans |-> "none"]
    /\ plan_key = [p \in Plans |-> NoKey]
    /\ uses = [p \in Plans |-> 0]
    /\ invoked = [call \in Calls |-> 0]
    /\ cancelled = [call \in Calls |-> 0]
    /\ audited = [call \in Calls |-> 0]

(* The bound: each call is asked for at most so many times. *)
WithinBound(call) == invoked[call] < MaxCalls[call]

Gate(a, call) ==
    \/ GateRaises(a, call) \/ Queue(a, call)
    \/ StartApproved(a, call) \/ StartUngated(a, call) \/ NoCallFn(a, call)

Next ==
    \/ \E a \in Agents, call \in Calls : WithinBound(call) /\ Gate(a, call)
    \/ \E a \in Agents : End(a) \/ Cancel(a)
    \/ \E plan \in Plans : ReviewTooLate(plan) \/ \E approved \in BOOLEAN : Review(plan, approved)

Spec == Init /\ [][Next]_vars

-----------------------------------------------------------------------------
(* Properties *)

InProgress(call) == \E a \in Agents : running[a] # Idle /\ running[a].call = call

(***************************************************************************)
(* What has to be approved according to docs/mcp-tools.md (lines 97, 219)  *)
(* and the catalog's hitl_condition ("amount > $10k", "shift >= 7 days"),  *)
(* and by the comments of the rules also what has no price or no dates to  *)
(* judge by: stated apart from the comparisons the rules make.             *)
(***************************************************************************)
NeedsApproval(call) ==
    /\ writeback_enabled
    /\ \/ /\ call.tool = "create_purchase_requisition"
          /\ IF call.price_per_unit > 0
             THEN call.quantity * call.price_per_unit > purchase_req_threshold
             ELSE call.quantity * EstimatedPrice > purchase_req_threshold
       \/ /\ call.tool = "reschedule_wip_job"
          /\ \/ call.shift \in {NoBaseline, Unparsable}
             \/ call.shift >= schedule_shift_days_threshold

(***************************************************************************)
(* A call that has to be approved is in execution only under a plan made   *)
(* for its key, whose last decision was an approval: neither a refusal,    *)
(* nor the approval of a request that was replaced, nor an approval for    *)
(* another key starts it, nor do the rules let it pass ungated             *)
(* (requires_hitl, gate_write_call 191-237, approve_pending_write).  A     *)
(* call whose arguments hash alike has the same key: an approval holds for *)
(* it as well.                                                             *)
(***************************************************************************)
GatedRunIsApproved ==
    \A a \in Agents :
        running[a] # Idle /\ NeedsApproval(running[a].call) =>
            LET plan == running[a].plan IN
            /\ plan # NoPlan
            /\ plan_key[plan] = ApprovalKey[running[a].call]
            /\ decision[plan] = "approved"

(***************************************************************************)
(* One approval, one execution: several agents that retry the same call    *)
(* while it is approved cannot both run it, and a plan that has been used  *)
(* is not in the queue any more, where a late review could revive it.      *)
(***************************************************************************)
ApprovalUsedOnce ==
    \A plan \in Plans :
        /\ uses[plan] <= 1
        /\ uses[plan] = 1 => \A key \in Keys : pending[key] # NoEntry => pending[key].plan # plan

(***************************************************************************)
(* "Logs every write to the Experience Ledger for audit trail" holds of    *)
(* the calls that come to an end of their own: queued, refused for want of *)
(* a call_fn, executed or failed, each time leaves exactly one record      *)
(* (197-254).  Two kinds of calls leave none: those the rules or the key   *)
(* raise on, and those cancelled while call_fn runs, though their write    *)
(* may have been done.                                                     *)
(***************************************************************************)
AuditedUnlessCutShort ==
    \A call \in Calls :
        ~InProgress(call) =>
            audited[call] = IF Raises(call) THEN 0 ELSE invoked[call] - cancelled[call]

(***************************************************************************)
(* An approval that is waiting is not lost: only a call that uses it, or   *)
(* the reviewer's own change of mind, takes it away; in particular a new   *)
(* request with the same key does not replace it.                          *)
(***************************************************************************)
ApprovalIsNotLost ==
    [][\A key \in Keys :
         Granted(key) /\ ~Granted(key)' =>
             \/ pending'[key] = NoEntry
             \/ decision'[pending[key].plan] = "rejected"]_vars

Queued(plan) == \E key \in Keys : pending[key] # NoEntry /\ pending[key].plan = plan

Verdict(plan) ==
    CASE decision[plan] = "approved" -> "granted" [] decision[plan] = "rejected" -> "refused"
      [] OTHER -> "open"

Status(plan) ==
    IF plan >= next_plan THEN "new" ELSE IF uses[plan] = 1 THEN "used"
    ELSE IF Queued(plan) THEN Verdict(plan) ELSE "void"

Promise == INSTANCE Approvals
    WITH status <- [p \in Plans |-> Status(p)], about <- plan_key

(***************************************************************************)
(* The queue, which knows plans only as a field of the entries under its   *)
(* keys, treats every plan as Approvals does: one plan waits under a key   *)
(* at a time, a review reaches the plan it names or none, and no plan that *)
(* was replaced or used is ever reviewed, approved or used again           *)
(* (gate_write_call 191-237, approve_pending_write 275-297).               *)
(***************************************************************************)
ImplementsApprovals == Promise!Spec
=============================================================================

--------------------------- MODULE WriteGateProofs ---------------------------
(***************************************************************************)
(* A gated write is executed only under an approval for its key, once; it  *)
(* is audited unless it is cut short, its approval is not lost, the queue  *)
(* treats each plan as Approvals promises, and nothing leaves the gate by  *)
(* being larger: for every finite set of agents, all calls, keys and       *)
(* thresholds that the assumptions of WriteGate allow.                     *)
(***************************************************************************)
EXTENDS WriteGate, FiniteSetTheorems, TLAPS

(* A queue entry belongs to its key, has not been used, and carries the    *)
(* reviewer's last word.                                                   *)
PendingOK ==
    \A key \in Keys : pending[key] # NoEntry =>
        /\ pending[key].plan < next_plan
        /\ plan_key[pending[key].plan] = key
        /\ uses[pending[key].plan] = 0
        /\ pending[key].approved <=> decision[pending[key].plan] = "approved"

(* Plan ids not handed out yet are blank. *)
FreshOK == \A p \in Plans : p >= next_plan => uses[p] = 0 /\ decision[p] = "none"

(* An execution is of an ungated call, or has used up its own approval. *)
RunningOK ==
    \A a \in Agents : running[a] # Idle =>
        /\ ~Raises(running[a].call)
        /\ IF running[a].plan = NoPlan
           THEN ~RequiresHitl(running[a].call)
           ELSE /\ uses[running[a].plan] = 1
                /\ decision[running[a].plan] = "approved"
                /\ plan_key[running[a].plan] = ApprovalKey[running[a].call]

UsedAtMostOnce == \A p \in Plans : uses[p] <= 1

(* A call that is gated and let past the key has one. *)
LEMMA GatedHasKey ==
    ASSUME NEW call \in Calls, RequiresHitl(call), ~Raises(call)
    PROVE  ApprovalKey[call] \in Keys /\ ApprovalKey[call] # NoKey
BY DEF Raises, Gated, Keys

IInv == TypeOK /\ PendingOK /\ FreshOK /\ RunningOK /\ UsedAtMostOnce

(* The gate starts with an empty queue and no plan. *)
LEMMA InitEstablishesIInv == Init => IInv
BY BoundsAssumption
   DEF Init, IInv, TypeOK, PendingOK, FreshOK, RunningOK, UsedAtMostOnce, Plans

(* A new request takes a fresh plan id and replaces an entry of its key.   *)
LEMMA QueuePreservesIInv ==
    ASSUME IInv, NEW a \in Agents, NEW call \in Calls, Queue(a, call)
    PROVE  IInv'
<1> USE BoundsAssumption, SentinelAssumption DEF IInv, Queue, MustQueue, Enters
<1> PICK key \in Keys : key = ApprovalKey[call]
  BY GatedHasKey
<1>0. next_plan \in Plans /\ [plan |-> next_plan, approved |-> FALSE] \in Entry
  BY DEF TypeOK, Plans, Entry
<1>1. TypeOK'
  <2>1. pending' \in [Keys -> Entry \cup {NoEntry}] /\ running' \in [Agents -> Run \cup {Idle}]
    BY <1>0 DEF TypeOK
  <2>2. next_plan' \in 1..(MaxPlans + 1)
    BY <1>0 DEF Plans
  <2>3. /\ decision' \in [Plans -> {"none", "approved", "rejected"}]
        /\ plan_key' \in [Plans -> Keys \cup {NoKey}]
        /\ uses' \in [Plans -> Nat]
    BY <1>0 DEF TypeOK
  <2>4. invoked' \in [Calls -> Nat] /\ cancelled' \in [Calls -> Nat] /\ audited' \in [Calls -> Nat]
    BY DEF TypeOK, Invoke, Audit
  <2> QED BY <2>1, <2>2, <2>3, <2>4 DEF TypeOK
<1>2. PendingOK'
  <2> SUFFICES ASSUME NEW k \in Keys, pending'[k] # NoEntry
               PROVE  /\ pending'[k].plan < next_plan'
                      /\ plan_key'[pending'[k].plan] = k
                      /\ uses'[pending'[k].plan] = 0
                      /\ pending'[k].approved <=> decision'[pending'[k].plan] = "approved"
    BY DEF PendingOK
  <2>1. CASE k = key
    <3>1. pending'[k] = [plan |-> next_plan, approved |-> FALSE] /\ plan_key'[next_plan] = key
      BY <1>0, <2>1 DEF TypeOK
    <3>2. uses[next_plan] = 0 /\ decision[next_plan] = "none"
      BY <1>0 DEF FreshOK, Plans
    <3>3. uses' = uses /\ decision' = decision /\ next_plan' = next_plan + 1 /\ next_plan \in Nat
      BY <1>0 DEF Plans
    <3> QED
      BY ONLY <2>1, <3>1, <3>2, <3>3
  <2>2. CASE k # key
    <3>1. pending'[k] = pending[k] /\ pending[k] # NoEntry /\ pending[k].plan \in Plans
      BY <2>2 DEF TypeOK, Entry
    <3>2. /\ pending[k].plan < next_plan /\ plan_key[pending[k].plan] = k
          /\ uses[pending[k].plan] = 0
          /\ pending[k].approved <=> decision[pending[k].plan] = "approved"
      BY <3>1 DEF PendingOK
    <3>3. /\ plan_key'[pending[k].plan] = k
          /\ uses' = uses /\ decision' = decision /\ next_plan' = next_plan + 1
      BY <3>1, <3>2 DEF TypeOK, Plans
    <3>4. next_plan \in Nat /\ pending[k].plan \in Nat
      BY <1>0, <3>1 DEF Plans
    <3> QED
      BY ONLY <3>1, <3>2, <3>3, <3>4
  <2> QED BY <2>1, <2>2
<1>3. FreshOK' /\ UsedAtMostOnce'
  <2>1. uses' = uses /\ decision' = decision /\ next_plan' = next_plan + 1 /\ next_plan \in Nat
    BY <1>0 DEF Plans
  <2>2. \A p \in Plans : p \in Nat
    BY DEF Plans
  <2>3. FreshOK /\ UsedAtMostOnce
    OBVIOUS
  <2>4. FreshOK'
    BY ONLY <2>1, <2>2, <2>3 DEF FreshOK, Plans
  <2> QED BY ONLY <2>1, <2>3, <2>4 DEF UsedAtMostOnce, Plans
<1>4. RunningOK'
  <2> SUFFICES ASSUME NEW b \in Agents, running[b] # Idle, running[b].plan # NoPlan
               PROVE  plan_key'[running[b].plan] = ApprovalKey[running[b].call]
    BY DEF RunningOK
  <2>1. running[b].plan \in Plans
    BY DEF TypeOK, Run
  <2>2. running[b].plan # next_plan
    BY <1>0, <2>1 DEF RunningOK, FreshOK, TypeOK, Plans
  <2> QED BY <2>1, <2>2 DEF RunningOK, TypeOK
<1> QED BY <1>1, <1>2, <1>3, <1>4

(* Starting an approved call uses its plan up and takes it off the queue.  *)
LEMMA StartApprovedPreservesIInv ==
    ASSUME IInv, NEW a \in Agents, NEW call \in Calls, StartApproved(a, call)
    PROVE  IInv'
<1> PICK key \in Keys : key = ApprovalKey[call]
  BY GatedHasKey DEF StartApproved, Enters
<1> DEFINE p == pending[key].plan
<1> USE BoundsAssumption, SentinelAssumption DEF IInv, StartApproved, Enters, ConsumeApproval
<1>0. /\ pending[key] # NoEntry /\ pending[key] \in Entry /\ p \in Plans
      /\ decision[p] = "approved" /\ uses[p] = 0 /\ plan_key[p] = key /\ p < next_plan
      /\ uses'[p] = 1 /\ \A q \in Plans : q # p => uses'[q] = uses[q]
      /\ [call |-> call, plan |-> p] \in Run
  BY DEF TypeOK, PendingOK, Approved, Granted, Entry, Run
<1>1. TypeOK'
  <2>1. pending' \in [Keys -> Entry \cup {NoEntry}] /\ running' \in [Agents -> Run \cup {Idle}]
    BY <1>0 DEF TypeOK
  <2>2. uses' \in [Plans -> Nat]
    BY <1>0 DEF TypeOK
  <2>3. invoked' \in [Calls -> Nat]
    BY DEF TypeOK, Invoke
  <2> QED BY <2>1, <2>2, <2>3 DEF TypeOK, history
<1>2. PendingOK'
  <2>0. \A k \in Keys : pending'[k] = IF k = key THEN NoEntry ELSE pending[k]
    BY DEF TypeOK
  <2> SUFFICES ASSUME NEW k \in Keys, k # key, pending[k] # NoEntry
               PROVE  uses'[pending[k].plan] = 0
    BY <2>0 DEF PendingOK, history
  <2>1. pending[k].plan \in Plans /\ pending[k].plan # p
    BY <1>0 DEF TypeOK, PendingOK, Entry
  <2> QED BY <1>0, <2>1 DEF PendingOK
<1>3. FreshOK' /\ UsedAtMostOnce'
  <2>1. next_plan \in Nat /\ p \in Nat /\ decision' = decision /\ next_plan' = next_plan
    BY <1>0 DEF TypeOK, Plans, history
  <2>2. \A q \in Plans : q >= next_plan => q # p
    BY <1>0, <2>1 DEF Plans
  <2>3. FreshOK'
    BY <1>0, <2>1, <2>2 DEF FreshOK
  <2>4. UsedAtMostOnce'
    BY <1>0 DEF UsedAtMostOnce
  <2> QED BY <2>3, <2>4
<1>4. RunningOK'
  <2> SUFFICES ASSUME NEW b \in Agents, running'[b] # Idle
               PROVE  /\ ~Raises(running'[b].call)
                      /\ IF running'[b].plan = NoPlan
                         THEN ~RequiresHitl(running'[b].call)
                         ELSE /\ uses'[running'[b].plan] = 1
                              /\ decision[running'[b].plan] = "approved"
                              /\ plan_key[running'[b].plan] = ApprovalKey[running'[b].call]
    BY DEF RunningOK, history
  <2>1. CASE b = a
    BY <1>0, <2>1 DEF TypeOK
  <2>2. CASE b # a /\ running[b].plan # NoPlan
    <3>1. running'[b] = running[b] /\ running[b].plan \in Plans /\ running[b].plan # p
      BY <1>0, <2>2 DEF TypeOK, Run, RunningOK
    <3> QED BY <1>0, <2>2, <3>1 DEF RunningOK
  <2>3. CASE b # a /\ running[b].plan = NoPlan
    BY <2>3 DEF TypeOK, RunningOK
  <2> QED BY <2>1, <2>2, <2>3
<1> QED BY <1>1, <1>2, <1>3, <1>4

(* The reviewer can decide only on plans that have not been used.          *)
LEMMA ReviewPreservesIInv ==
    ASSUME IInv, NEW plan \in Plans, NEW approved \in BOOLEAN, Review(plan, approved)
    PROVE  IInv'
<1> USE BoundsAssumption, SentinelAssumption DEF IInv
<1> PICK key \in Keys :
      /\ pending[key] # NoEntry
      /\ pending[key].plan = plan
      /\ pending' = [pending EXCEPT ![key].approved = approved]
      /\ decision' = [decision EXCEPT ![plan] = IF approved THEN "approved" ELSE "rejected"]
      /\ UNCHANGED <<running, next_plan, plan_key, uses, invoked, cancelled, audited>>
  BY DEF Review
<1>0. /\ pending[key] \in Entry /\ uses[plan] = 0 /\ plan < next_plan
      /\ pending'[key] = [plan |-> plan, approved |-> approved]
      /\ pending'[key] \in Entry /\ pending'[key] # NoEntry
  BY DEF TypeOK, PendingOK, Entry
<1>1. TypeOK'
  BY <1>0 DEF TypeOK
<1>2. PendingOK'
  <2> SUFFICES ASSUME NEW k \in Keys, pending'[k] # NoEntry
               PROVE  /\ pending'[k].plan < next_plan
                      /\ plan_key[pending'[k].plan] = k
                      /\ uses[pending'[k].plan] = 0
                      /\ pending'[k].approved <=> decision'[pending'[k].plan] = "approved"
    BY DEF PendingOK
  <2>1. CASE k = key
    <3>1. decision'[plan] = IF approved THEN "approved" ELSE "rejected"
      BY DEF TypeOK
    <3> QED BY <1>0, <2>1, <3>1 DEF PendingOK
  <2>2. CASE k # key
    <3>1. pending'[k] = pending[k] /\ pending[k].plan \in Plans /\ pending[k].plan # plan
      BY <2>2 DEF TypeOK, PendingOK, Entry
    <3> QED BY <2>2, <3>1 DEF PendingOK, TypeOK
  <2> QED BY <2>1, <2>2
<1>3. FreshOK' /\ UsedAtMostOnce'
  BY <1>0 DEF TypeOK, FreshOK, UsedAtMostOnce, Plans
<1>4. RunningOK'
  BY <1>0 DEF TypeOK, RunningOK, Run
<1> QED BY <1>1, <1>2, <1>3, <1>4

(* Steps that touch neither plans nor decisions.                           *)
LEMMA OthersPreserveIInv ==
    ASSUME IInv,
           \/ \E a \in Agents, call \in Calls :
                 GateRaises(a, call) \/ StartUngated(a, call) \/ NoCallFn(a, call)
           \/ \E a \in Agents : End(a) \/ Cancel(a)
           \/ UNCHANGED vars
    PROVE  IInv'
<1> USE SentinelAssumption DEF IInv, TypeOK, PendingOK, FreshOK, RunningOK, UsedAtMostOnce, history
<1>1. ASSUME NEW a \in Agents, NEW call \in Calls, StartUngated(a, call)
      PROVE  IInv'
  <2>1. [call |-> call, plan |-> NoPlan] \in Run
    BY DEF Run
  <2> QED BY <1>1, <2>1 DEF StartUngated, Enters, Invoke
<1>2. ASSUME NEW a \in Agents, NEW call \in Calls, NoCallFn(a, call)
      PROVE  IInv'
  <2>1. RequiresHitl(call) => ApprovalKey[call] \in Keys
    BY <1>2, GatedHasKey DEF NoCallFn, Enters
  <2> QED BY <1>2, <2>1 DEF NoCallFn, Enters, ConsumeApproval, Invoke, Audit
<1>3. ASSUME NEW a \in Agents, End(a) \/ Cancel(a)
      PROVE  IInv'
  BY <1>3 DEF End, Cancel, AuditEnd, Audit, Run
<1>4. ASSUME NEW a \in Agents, NEW call \in Calls, GateRaises(a, call)
      PROVE  IInv'
  BY <1>4 DEF GateRaises, Invoke
<1>5. CASE UNCHANGED vars
  BY <1>5 DEF vars
<1> QED BY <1>1, <1>2, <1>3, <1>4, <1>5

(* Every step of the gate and of the reviewer is one of those.             *)
LEMMA NextPreservesIInv == IInv /\ [Next]_vars => IInv'
<1> SUFFICES ASSUME IInv, [Next]_vars PROVE IInv'
  OBVIOUS
<1>1. ASSUME NEW a \in Agents, NEW call \in Calls, Gate(a, call)
      PROVE  IInv'
  BY <1>1, QueuePreservesIInv, StartApprovedPreservesIInv, OthersPreserveIInv DEF Gate
<1>2. ASSUME NEW a \in Agents, End(a) \/ Cancel(a)
      PROVE  IInv'
  BY <1>2, OthersPreserveIInv
<1>3. ASSUME NEW plan \in Plans, NEW approved \in BOOLEAN, Review(plan, approved)
      PROVE  IInv'
  BY <1>3, ReviewPreservesIInv
<1>4. CASE UNCHANGED vars \/ \E plan \in Plans : ReviewTooLate(plan)
  BY <1>4, OthersPreserveIInv DEF ReviewTooLate
<1> QED BY <1>1, <1>2, <1>3, <1>4 DEF Next

LEMMA Invariance == Spec => []IInv
BY InitEstablishesIInv, NextPreservesIInv, PTL DEF Spec

(* The queue, the plans and the histories keep their types.                *)
THEOREM TypeCorrect == Spec => []TypeOK
<1>1. IInv => TypeOK
  BY DEF IInv
<1> QED BY <1>1, Invariance, PTL

(* What the documents ask to be approved, the rules do gate.               *)
LEMMA RulesMeetTheDocuments ==
    ASSUME NEW call \in Calls, NeedsApproval(call), ~Raises(call)
    PROVE  RequiresHitl(call)
<1> USE ThresholdsAssumption, CallsAssumption, SentinelAssumption
<1>1. CASE call.tool = "create_purchase_requisition"
  <2>1. call.quantity \in Int /\ call.price_per_unit \in Int
    BY <1>1 DEF Raises, RuleRaises, NeedsApproval
  <2>2. Total(call) \in Int /\ Total(call) > purchase_req_threshold
    BY <1>1, <2>1 DEF NeedsApproval, Total, EstimatedPrice
  <2> QED
    BY <1>1, <2>2 DEF NeedsApproval, RequiresHitl, BigPurchase
<1>2. CASE call.tool = "reschedule_wip_job"
  BY <1>2 DEF NeedsApproval, RequiresHitl, LongShift, Shift
<1> QED
  BY <1>1, <1>2 DEF NeedsApproval

(* No write that has to be approved is executed without an approval for    *)
(* its key (requires_hitl, 191-237).                                       *)
THEOREM NoUnapprovedWrite == Spec => []GatedRunIsApproved
<1>1. IInv => GatedRunIsApproved
  <2> SUFFICES ASSUME IInv, NEW a \in Agents, running[a] # Idle, NeedsApproval(running[a].call)
               PROVE  /\ running[a].plan # NoPlan
                      /\ plan_key[running[a].plan] = ApprovalKey[running[a].call]
                      /\ decision[running[a].plan] = "approved"
    BY DEF GatedRunIsApproved
  <2>1. running[a].call \in Calls /\ ~Raises(running[a].call)
    BY DEF IInv, TypeOK, Run, RunningOK
  <2>2. RequiresHitl(running[a].call)
    BY <2>1, RulesMeetTheDocuments
  <2> QED
    BY <2>2 DEF IInv, RunningOK
<1> QED BY <1>1, Invariance, PTL

(* An approval is good for one execution (line 237).                       *)
THEOREM OneExecutionPerApproval == Spec => []ApprovalUsedOnce
<1>1. IInv => ApprovalUsedOnce
  BY DEF IInv, PendingOK, UsedAtMostOnce, ApprovalUsedOnce, TypeOK
<1> QED BY <1>1, Invariance, PTL

-----------------------------------------------------------------------------
(* The audit log *)

(* The agents that wait for a call_fn of the call: each owes it a record. *)
RunningOn(call) == {a \in Agents : running[a] # Idle /\ running[a].call = call}

(* What a call that gets past the gate owes, and that the others owe none. *)
Balanced ==
    \A call \in Calls :
        IF Raises(call) THEN audited[call] = 0 /\ RunningOn(call) = {}
        ELSE invoked[call] - cancelled[call] = audited[call] + Cardinality(RunningOn(call))

LEMMA RunningOnFinite ==
    \A call \in Calls : IsFiniteSet(RunningOn(call)) /\ Cardinality(RunningOn(call)) \in Nat
<1>1. ASSUME NEW call \in Calls PROVE IsFiniteSet(RunningOn(call))
  <2>1. RunningOn(call) \subseteq Agents
    BY DEF RunningOn
  <2> QED
    BY <2>1, AgentsAssumption, FS_Subset
<1> QED
  BY <1>1, FS_CardinalityType

(* A call that starts adds one agent that will write a record. *)
LEMMA StartBalanced ==
    ASSUME IInv, Balanced, NEW a \in Agents, NEW call \in Calls, ~Raises(call),
           NEW plan \in Plans \cup {NoPlan}, running[a] = Idle,
           running' = [running EXCEPT ![a] = [call |-> call, plan |-> plan]],
           Invoke(call), UNCHANGED <<cancelled, audited>>
    PROVE  Balanced'
<1>1. /\ running'[a] = [call |-> call, plan |-> plan] /\ running'[a] # Idle
      /\ \A b \in Agents \ {a} : running'[b] = running[b]
      /\ invoked' = [invoked EXCEPT ![call] = @ + 1]
      /\ invoked \in [Calls -> Nat] /\ cancelled \in [Calls -> Nat] /\ audited \in [Calls -> Nat]
  BY SentinelAssumption DEF IInv, TypeOK, Invoke, Run
<1>2. /\ RunningOn(call)' = RunningOn(call) \cup {a} /\ a \notin RunningOn(call)
      /\ \A c \in Calls \ {call} : RunningOn(c)' = RunningOn(c)
  BY <1>1 DEF RunningOn
<1>3. Cardinality(RunningOn(call)') = Cardinality(RunningOn(call)) + 1
  BY <1>2, RunningOnFinite, FS_AddElement
<1>4. invoked'[call] - cancelled'[call] = audited'[call] + Cardinality(RunningOn(call)')
  <2>1. invoked[call] - cancelled[call] = audited[call] + Cardinality(RunningOn(call))
    BY DEF Balanced
  <2> QED
    BY <1>1, <1>3, <2>1, RunningOnFinite
<1>5. ASSUME NEW c \in Calls, c # call
      PROVE  IF Raises(c) THEN audited'[c] = 0 /\ RunningOn(c)' = {}
             ELSE invoked'[c] - cancelled'[c] = audited'[c] + Cardinality(RunningOn(c)')
  BY <1>1, <1>2, <1>5 DEF Balanced
<1> QED
  BY <1>4, <1>5 DEF Balanced, Raises, RuleRaises, Gated, RequiresHitl, BigPurchase, LongShift

(* A call that ends takes one away and writes its record, or is cancelled. *)
LEMMA EndBalanced ==
    ASSUME IInv, Balanced, NEW a \in Agents, End(a) \/ Cancel(a)
    PROVE  Balanced'
<1> PICK call \in Calls : call = running[a].call
  BY DEF End, Cancel, IInv, TypeOK, Run
<1>1. /\ running[a] # Idle /\ running[a] \in Run /\ ~Raises(call)
      /\ running'[a] = Idle /\ \A b \in Agents \ {a} : running'[b] = running[b]
      /\ invoked' = invoked
      /\ invoked \in [Calls -> Nat] /\ cancelled \in [Calls -> Nat] /\ audited \in [Calls -> Nat]
  BY DEF End, Cancel, IInv, TypeOK, Run, RunningOK
<1>2. /\ \A c \in Calls \ {call} : audited'[c] = audited[c] /\ cancelled'[c] = cancelled[c]
      /\ \/ audited'[call] = audited[call] + 1 /\ cancelled'[call] = cancelled[call]
         \/ audited'[call] = audited[call] /\ cancelled'[call] = cancelled[call] + 1
  BY <1>1 DEF End, Cancel, AuditEnd, Audit
<1>3. /\ RunningOn(call)' = RunningOn(call) \ {a} /\ a \in RunningOn(call)
      /\ \A c \in Calls \ {call} : RunningOn(c)' = RunningOn(c)
  BY <1>1 DEF RunningOn
<1>4. Cardinality(RunningOn(call)') = Cardinality(RunningOn(call)) - 1
  BY <1>3, RunningOnFinite, FS_RemoveElement
<1>5. invoked'[call] - cancelled'[call] = audited'[call] + Cardinality(RunningOn(call)')
  BY <1>1, <1>2, <1>4, RunningOnFinite DEF Balanced
<1>6. ASSUME NEW c \in Calls, c # call
      PROVE  IF Raises(c) THEN audited'[c] = 0 /\ RunningOn(c)' = {}
             ELSE invoked'[c] - cancelled'[c] = audited'[c] + Cardinality(RunningOn(c)')
  BY <1>1, <1>2, <1>3, <1>6 DEF Balanced
<1> QED
  BY <1>1, <1>5, <1>6 DEF Balanced, Raises, RuleRaises, Gated, RequiresHitl, BigPurchase, LongShift

LEMMA AccountsBalance == Spec => []Balanced
<1> USE DEF Raises, RuleRaises, Gated, RequiresHitl, BigPurchase, LongShift
<1>1. Init => Balanced
  <2> SUFFICES ASSUME Init, NEW call \in Calls
               PROVE  /\ audited[call] = 0 /\ invoked[call] = 0 /\ cancelled[call] = 0
                      /\ RunningOn(call) = {} /\ Cardinality(RunningOn(call)) = 0
    BY DEF Balanced
  <2>1. RunningOn(call) = {}
    BY DEF Init, RunningOn
  <2> QED
    BY <2>1, FS_EmptySet DEF Init
<1>2. IInv /\ Balanced /\ [Next]_vars => Balanced'
  <2> SUFFICES ASSUME IInv, Balanced, [Next]_vars PROVE Balanced'
    OBVIOUS
  <2>0. invoked \in [Calls -> Nat] /\ cancelled \in [Calls -> Nat] /\ audited \in [Calls -> Nat]
    BY DEF IInv, TypeOK
  <2>1. ASSUME NEW call \in Calls, ~Raises(call), Invoke(call), Audit(call),
               UNCHANGED <<running, cancelled>>
        PROVE  Balanced'
    <3>1. \A c \in Calls : RunningOn(c)' = RunningOn(c)
      BY <2>1 DEF RunningOn
    <3> QED
      BY <2>0, <2>1, <3>1, RunningOnFinite DEF Balanced, Invoke, Audit
  <2>2. ASSUME NEW a \in Agents, NEW call \in Calls, Gate(a, call) PROVE Balanced'
    <3>1. CASE Queue(a, call) \/ NoCallFn(a, call)
      BY <2>1, <3>1 DEF Queue, NoCallFn, Enters
    <3>2. CASE StartApproved(a, call)
      <4>1. ApprovalKey[call] \in Keys
        BY <3>2, GatedHasKey DEF StartApproved, Enters
      <4>2. pending[ApprovalKey[call]].plan \in Plans
        BY <3>2, <4>1 DEF StartApproved, Approved, Granted, IInv, TypeOK, Entry
      <4> QED
        BY <3>2, <4>2, StartBalanced DEF StartApproved, Enters
    <3>3. CASE StartUngated(a, call)
      BY <3>3, StartBalanced DEF StartUngated, Enters
    <3>4. CASE GateRaises(a, call)
      <4>1. \A c \in Calls : RunningOn(c)' = RunningOn(c)
        BY <3>4 DEF GateRaises, RunningOn
      <4>2. \A c \in Calls : ~Raises(c) => invoked'[c] = invoked[c]
        BY <2>0, <3>4 DEF GateRaises, Invoke
      <4> QED
        BY <3>4, <4>1, <4>2 DEF Balanced, GateRaises
    <3> QED
      BY <2>2, <3>1, <3>2, <3>3, <3>4 DEF Gate
  <2>3. ASSUME NEW a \in Agents, End(a) \/ Cancel(a) PROVE Balanced'
    BY <2>3, EndBalanced
  <2>4. ASSUME UNCHANGED <<running, invoked, cancelled, audited>> PROVE Balanced'
    BY <2>4 DEF Balanced, RunningOn
  <2>5. CASE \E plan \in Plans : ReviewTooLate(plan) \/ \E approved \in BOOLEAN : Review(plan, approved)
    BY <2>4, <2>5 DEF ReviewTooLate, Review, vars
  <2>6. CASE UNCHANGED vars
    BY <2>4, <2>6 DEF vars
  <2> QED
    BY <2>2, <2>3, <2>5, <2>6 DEF Next
<1> QED
  BY <1>1, <1>2, Invariance, PTL DEF Spec

(* Once no execution of a call is in progress, it has a record for every   *)
(* time it was asked for and not cancelled, however the executions ended   *)
(* (197-254), and none if the rules or the key raise on it (111-117, 193). *)
THEOREM AuditMissesOnlyCutShort == Spec => []AuditedUnlessCutShort
<1>1. IInv /\ Balanced => AuditedUnlessCutShort
  <2> SUFFICES ASSUME IInv, Balanced, NEW call \in Calls, ~InProgress(call)
               PROVE  audited[call] = IF Raises(call) THEN 0 ELSE invoked[call] - cancelled[call]
    BY DEF AuditedUnlessCutShort
  <2>1. RunningOn(call) = {}
    BY DEF RunningOn, InProgress
  <2>2. Cardinality(RunningOn(call)) = 0
    BY <2>1, FS_EmptySet
  <2> QED
    BY <2>2 DEF Balanced, IInv, TypeOK
<1> QED
  BY <1>1, Invariance, AccountsBalance, PTL

(* An approval that waits goes only by being used or withdrawn (191-237).  *)
THEOREM ApprovalsAreKept == Spec => ApprovalIsNotLost
<1>1. IInv /\ [Next]_vars =>
        \A key \in Keys : Granted(key) /\ ~Granted(key)' =>
            \/ pending'[key] = NoEntry
            \/ decision'[pending[key].plan] = "rejected"
  <2> SUFFICES ASSUME IInv, [Next]_vars, NEW key \in Keys, Granted(key), ~Granted(key)'
               PROVE  \/ pending'[key] = NoEntry
                      \/ decision'[pending[key].plan] = "rejected"
    OBVIOUS
  <2> USE SentinelAssumption
  <2>1. /\ pending \in [Keys -> Entry \cup {NoEntry}] /\ pending[key] # NoEntry
        /\ pending[key].plan \in Plans /\ decision \in [Plans -> {"none", "approved", "rejected"}]
    BY DEF IInv, TypeOK, Granted, Entry
  <2>2. pending'[key] # pending[key]
    BY DEF Granted
  <2>3. ASSUME NEW a \in Agents, NEW c \in Calls, Queue(a, c) PROVE FALSE
    <3>1. ApprovalKey[c] \in Keys
      BY <2>3, GatedHasKey DEF Queue, MustQueue, Enters
    <3> QED
      BY <2>1, <2>2, <2>3, <3>1 DEF Queue, MustQueue, Approved
  <2>4. ASSUME NEW a \in Agents, NEW c \in Calls, StartApproved(a, c) \/ NoCallFn(a, c)
        PROVE  pending'[key] = NoEntry
    BY <2>1, <2>2, <2>4 DEF StartApproved, NoCallFn, ConsumeApproval, Granted
  <2>5. ASSUME NEW plan \in Plans, NEW approved \in BOOLEAN, Review(plan, approved)
        PROVE  decision'[pending[key].plan] = "rejected"
    <3>1. PICK k \in Keys :
            /\ pending[k] # NoEntry /\ pending[k].plan = plan
            /\ pending' = [pending EXCEPT ![k].approved = approved]
            /\ decision' = [decision EXCEPT ![plan] = IF approved THEN "approved" ELSE "rejected"]
      BY <2>5 DEF Review
    <3>2. k = key
      BY <2>1, <2>2, <3>1
    <3>3. pending'[key].approved = approved /\ pending'[key] # NoEntry
      BY <2>1, <3>1, <3>2 DEF Entry
    <3>4. ~approved
      BY <3>3 DEF Granted
    <3> QED
      BY <2>1, <3>1, <3>2, <3>4
  <2>6. CASE pending' = pending
    BY <2>2, <2>6
  <2> QED
    BY <2>3, <2>4, <2>5, <2>6 DEF Next, Gate, GateRaises, StartUngated, End, Cancel, ReviewTooLate, vars
<1> QED
  BY <1>1, Invariance, PTL DEF Spec, ApprovalIsNotLost
-----------------------------------------------------------------------------
(* The queue keeps the promise of Approvals *)

(* A queued plan is the entry of its own call, unused, and approved when   *)
(* its last decision says so.                                              *)
LEMMA QueuedFacts ==
    ASSUME IInv, NEW plan \in Plans, Queued(plan)
    PROVE  /\ plan_key[plan] \in Keys /\ pending[plan_key[plan]] # NoEntry
           /\ pending[plan_key[plan]].plan = plan
           /\ plan < next_plan /\ uses[plan] = 0 /\ Status(plan) = Verdict(plan)
           /\ Status(plan) \in {"open", "granted", "refused"}
           /\ Status(plan) = "granted" <=> pending[plan_key[plan]].approved
<1>1. PICK key \in Keys : pending[key] # NoEntry /\ pending[key].plan = plan
  BY DEF Queued
<1>2. /\ plan < next_plan /\ plan_key[plan] = key /\ uses[plan] = 0
      /\ pending[key].approved <=> decision[plan] = "approved"
  BY <1>1 DEF IInv, PendingOK
<1>3. Status(plan) = Verdict(plan)
  BY <1>2 DEF Status, IInv, TypeOK, Plans
<1> QED
  BY <1>1, <1>2, <1>3 DEF Verdict

(* Only queued plans can be reviewed, and a plan's status is its own.      *)
LEMMA StatusFacts ==
    ASSUME IInv, NEW plan \in Plans
    PROVE  /\ Status(plan) \in {"open", "granted", "refused"} => Queued(plan)
           /\ plan >= next_plan <=> Status(plan) = "new"
  BY QueuedFacts DEF Status, IInv, TypeOK, Plans, Verdict

LEMMA StatusUntouched ==
    ASSUME NEW plan \in Plans, UNCHANGED <<next_plan, uses[plan], decision[plan]>>,
           Queued(plan)' <=> Queued(plan)
    PROVE  Status(plan)' = Status(plan)
  BY DEF Status, Verdict

LEMMA ConsumedFacts ==
    ASSUME IInv, NEW key \in Keys, pending[key] # NoEntry, ConsumeApproval(key)
    PROVE  /\ pending[key].plan \in Plans /\ Queued(pending[key].plan)
           /\ plan_key[pending[key].plan] = key
           /\ \A p \in Plans : Queued(p)' <=> Queued(p) /\ p # pending[key].plan
<1>1. \A c \in Keys : pending'[c] = IF c = key THEN NoEntry ELSE pending[c]
  BY DEF ConsumeApproval, IInv, TypeOK
<1>2. \A c \in Keys : pending[c] # NoEntry => plan_key[pending[c].plan] = c
  BY DEF IInv, PendingOK
<1>3. pending[key].plan \in Plans
  BY DEF IInv, TypeOK, Entry
<1> QED
  BY <1>1, <1>2, <1>3 DEF Queued

LEMMA InitRefines == Init => Promise!Init
<1> SUFFICES ASSUME Init PROVE Promise!Init
  OBVIOUS
<1>1. \A p \in Plans : Status(p) = "new"
  BY DEF Init, Status, Plans
<1> QED
  BY <1>1 DEF Init, Promise!Init

(* A new request opens a fresh plan and voids the one it replaces.         *)
LEMMA QueueRefines ==
    ASSUME IInv, NEW a \in Agents, NEW call \in Calls, Queue(a, call)
    PROVE  next_plan \in Plans /\ Promise!Request(next_plan, ApprovalKey[call])
<1> PICK key \in Keys : key = ApprovalKey[call]
  BY GatedHasKey DEF Queue, MustQueue, Enters
<1> PICK plan \in Plans : plan = next_plan
  BY DEF Queue, IInv, TypeOK, Plans
<1>1. /\ \A p \in Plans : p \in Int
      /\ next_plan' = plan + 1 /\ UNCHANGED <<decision, uses>>
      /\ plan_key' = [plan_key EXCEPT ![plan] = key]
      /\ pending' = [pending EXCEPT ![key] = [plan |-> plan, approved |-> FALSE]]
      /\ ~Granted(key)
  BY DEF Queue, MustQueue, Approved, IInv, TypeOK, Plans
<1>2. [plan |-> plan, approved |-> FALSE] # NoEntry
  <2>1. [plan |-> plan, approved |-> FALSE] \in Entry
    BY DEF Entry
  <2> QED
    BY <2>1, SentinelAssumption
<1>3. \A c \in Keys : pending'[c] = IF c = key THEN [plan |-> plan, approved |-> FALSE]
                                                ELSE pending[c]
  BY <1>1 DEF IInv, TypeOK
<1>4. Queued(plan)' /\ \A p \in Plans \ {plan} : Queued(p)' <=> Queued(p) /\ plan_key[p] # key
  <2>1. Queued(plan)'
    BY <1>2, <1>3 DEF Queued
  <2>2. ASSUME NEW p \in Plans, p # plan PROVE Queued(p)' <=> Queued(p) /\ plan_key[p] # key
    <3>1. \A c \in Keys : pending[c] # NoEntry /\ pending[c].plan = p => plan_key[p] = c
      BY DEF IInv, PendingOK
    <3> QED
      BY <1>2, <1>3, <2>2, <3>1 DEF Queued
  <2> QED
    BY <2>1, <2>2
<1>5. Status(plan) = "new"
  BY <1>1, StatusFacts
<1>6. \A p \in Plans : plan_key[p] = key => Status(p) # "granted"
  BY <1>1, QueuedFacts, StatusFacts DEF Granted
<1>7. Status(plan)' = "open"
  <2>1. decision[plan] = "none" /\ uses[plan] = 0
    BY <1>1 DEF IInv, FreshOK
  <2> QED
    BY <1>1, <1>4, <2>1 DEF Status, Verdict
<1>8. ASSUME NEW p \in Plans, p # plan
      PROVE  Status(p)' = IF plan_key[p] = key /\ Status(p) \in Promise!Reviewable
                          THEN "void" ELSE Status(p)
  <2>1. (p >= next_plan)' <=> p >= next_plan
    BY <1>1, <1>8
  <2>2. CASE ~Queued(p)
    BY <1>1, <1>4, <1>8, <2>1, <2>2, StatusFacts DEF Status, Promise!Reviewable
  <2>3. CASE Queued(p) /\ plan_key[p] = key
    BY <1>1, <1>4, <1>8, <2>1, <2>3, QueuedFacts DEF Status, Promise!Reviewable
  <2>4. CASE Queued(p) /\ plan_key[p] # key
    BY <1>1, <1>4, <1>8, <2>1, <2>4 DEF Status, Verdict
  <2> QED
    BY <2>2, <2>3, <2>4
<1> QED
  BY <1>1, <1>5, <1>6, <1>7, <1>8 DEF Promise!Request

(* The call's approval is spent, with an execution or for nothing.         *)
LEMMA SpendRefines ==
    ASSUME IInv, NEW key \in Keys, Granted(key), ConsumeApproval(key),
           UNCHANGED <<next_plan, history>>,
           NEW use \in {"used", "void"},
           uses' = IF use = "used" THEN [uses EXCEPT ![pending[key].plan] = @ + 1] ELSE uses
    PROVE  pending[key].plan \in Plans /\ Promise!Spend(pending[key].plan, use)
<1> PICK plan \in Plans : plan = pending[key].plan
  BY ConsumedFacts DEF Granted
<1>1. /\ Queued(plan) /\ plan_key[plan] = key
      /\ \A p \in Plans : Queued(p)' <=> Queued(p) /\ p # plan
  BY ConsumedFacts DEF Granted
<1>2. /\ Status(plan) = "granted" /\ uses[plan] = 0 /\ plan < next_plan
      /\ \A p \in Plans : p \in Int
  BY <1>1, QueuedFacts DEF Granted, Plans
<1>3. Status(plan)' = use
  <2>1. uses'[plan] = IF use = "used" THEN 1 ELSE 0
    BY <1>1, <1>2 DEF IInv, TypeOK
  <2>2. ~(plan >= next_plan)
    BY <1>1, <1>2 DEF IInv, TypeOK
  <2> QED
    BY <1>1, <2>1, <2>2 DEF Status, history
<1>4. ASSUME NEW p \in Plans, p # plan PROVE Status(p)' = Status(p)
  <2>1. uses'[p] = uses[p]
    BY <1>1, <1>4 DEF IInv, TypeOK
  <2> QED
    BY <1>1, <1>4, <2>1, StatusUntouched DEF history
<1> QED
  BY <1>1, <1>2, <1>3, <1>4 DEF Promise!Spend, history

(* A review reaches the plan it names.                                     *)
LEMMA ReviewRefines ==
    ASSUME IInv, NEW plan \in Plans, NEW approved \in BOOLEAN, Review(plan, approved)
    PROVE  Promise!Review(plan, IF approved THEN "granted" ELSE "refused")
<1>1. PICK key \in Keys :
        /\ pending[key] # NoEntry /\ pending[key].plan = plan
        /\ pending' = [pending EXCEPT ![key].approved = approved]
        /\ decision' = [decision EXCEPT ![plan] = IF approved THEN "approved" ELSE "rejected"]
        /\ UNCHANGED <<next_plan, plan_key, uses>>
  BY DEF Review
<1>2. Queued(plan) /\ plan < next_plan /\ uses[plan] = 0 /\ Status(plan) \in Promise!Reviewable
  BY <1>1, QueuedFacts DEF Queued, Promise!Reviewable
<1>3. \A p \in Plans : Queued(p)' <=> Queued(p)
  <2>1. pending[key] \in Entry /\ pending'[key] = [plan |-> plan, approved |-> approved]
    BY <1>1 DEF IInv, TypeOK, Entry
  <2>2. pending'[key] # NoEntry /\ \A c \in Keys \ {key} : pending'[c] = pending[c]
    BY <1>1, <2>1, SentinelAssumption DEF IInv, TypeOK, Entry
  <2> QED
    BY <1>1, <2>1, <2>2 DEF Queued
<1>4. Status(plan)' = IF approved THEN "granted" ELSE "refused"
  <2>1. decision'[plan] = IF approved THEN "approved" ELSE "rejected"
    BY <1>1 DEF IInv, TypeOK
  <2>2. ~(plan >= next_plan)
    BY <1>2 DEF IInv, TypeOK, Plans
  <2> QED
    BY <1>1, <1>2, <1>3, <2>1, <2>2 DEF Status, Verdict
<1>5. ASSUME NEW p \in Plans, p # plan PROVE Status(p)' = Status(p)
  <2>1. decision'[p] = decision[p]
    BY <1>1, <1>5 DEF IInv, TypeOK
  <2> QED
    BY <1>1, <1>3, <2>1, StatusUntouched
<1> QED
  BY <1>1, <1>2, <1>4, <1>5 DEF Promise!Review

LEMMA PlansUntouched ==
    ASSUME UNCHANGED <<pending, next_plan, history, uses>>
    PROVE  UNCHANGED Promise!approvals
  BY DEF Promise!approvals, Status, Verdict, Queued, history

(***************************************************************************)
(* The gate implements Approvals: whatever is requested again, reviewed    *)
(* late, reviewed twice, executed and retried meanwhile, each plan is      *)
(* treated on its own, closed for good once, and used under its approval.  *)
(***************************************************************************)
THEOREM GateKeepsThePromise == Spec => ImplementsApprovals
<1>1. IInv /\ [Next]_vars => [Promise!Next]_(Promise!approvals)
  <2> SUFFICES ASSUME IInv, [Next]_vars, ~UNCHANGED Promise!approvals PROVE Promise!Next
    OBVIOUS
  <2>1. ASSUME NEW a \in Agents, NEW call \in Calls, Queue(a, call) PROVE Promise!Next
    <3>1. ApprovalKey[call] \in Keys
      BY <2>1, GatedHasKey DEF Queue, MustQueue, Enters
    <3> QED
      BY <2>1, <3>1, QueueRefines DEF Promise!Next
  <2>2. ASSUME NEW a \in Agents, NEW call \in Calls, StartApproved(a, call) PROVE Promise!Next
    <3> PICK key \in Keys : key = ApprovalKey[call]
      BY <2>2, GatedHasKey DEF StartApproved, Enters
    <3>1. /\ Granted(key) /\ ConsumeApproval(key) /\ UNCHANGED <<next_plan, history>>
          /\ uses' = [uses EXCEPT ![pending[key].plan] = @ + 1]
      BY <2>2 DEF StartApproved, Approved
    <3>2. pending[key].plan \in Plans /\ Promise!Spend(pending[key].plan, "used")
      BY <3>1, SpendRefines
    <3> QED
      BY <3>2 DEF Promise!Next
  <2>3. ASSUME NEW a \in Agents, NEW call \in Calls, NoCallFn(a, call) PROVE Promise!Next
    <3>1. RequiresHitl(call) /\ UNCHANGED <<next_plan, history, uses>>
      BY <2>3, PlansUntouched DEF NoCallFn
    <3> PICK key \in Keys : key = ApprovalKey[call]
      BY <2>3, <3>1, GatedHasKey DEF NoCallFn, Enters
    <3>2. Granted(key) /\ ConsumeApproval(key)
      BY <2>3, <3>1 DEF NoCallFn, Approved
    <3>3. pending[key].plan \in Plans /\ Promise!Spend(pending[key].plan, "void")
      BY <3>1, <3>2, SpendRefines
    <3> QED
      BY <3>3 DEF Promise!Next
  <2>4. ASSUME NEW plan \in Plans, NEW approved \in BOOLEAN, Review(plan, approved)
        PROVE  Promise!Next
    BY <2>4, ReviewRefines DEF Promise!Next
  <2>5. ASSUME NEW a \in Agents, NEW call \in Calls, StartUngated(a, call) \/ GateRaises(a, call)
        PROVE  FALSE
    BY <2>5, PlansUntouched DEF StartUngated, GateRaises
  <2>6. ASSUME NEW a \in Agents, End(a) \/ Cancel(a) PROVE FALSE
    BY <2>6, PlansUntouched DEF End, Cancel
  <2>7. CASE UNCHANGED vars \/ \E plan \in Plans : ReviewTooLate(plan)
    BY <2>7, PlansUntouched DEF vars, ReviewTooLate
  <2> QED
    BY <2>1, <2>2, <2>3, <2>4, <2>5, <2>6, <2>7 DEF Next, Gate
<1> QED
  BY <1>1, InitRefines, Invariance, PTL DEF Spec, ImplementsApprovals, Promise!Spec
-----------------------------------------------------------------------------
(* The rules *)

LEMMA ProductGrows ==
    ASSUME NEW m \in Int, NEW n \in Int, m <= n, NEW price \in Int, price > 0
    PROVE  m * price <= n * price
  BY SMT

NoLarger(small, large) ==
    /\ small.tool = large.tool
    /\ small.tool = "create_purchase_requisition" =>
         /\ small.quantity \in Int /\ large.quantity \in Int
         /\ small.quantity <= large.quantity
         /\ small.price_per_unit \in Int /\ large.price_per_unit = small.price_per_unit
    /\ small.tool = "reschedule_wip_job" =>
         /\ small.shift # Unparsable
         /\ Shift(small) \in Int /\ Shift(large) \in Int /\ Shift(small) <= Shift(large)

(***************************************************************************)
(* Nothing leaves the gate by being larger: not an order of more at the    *)
(* same price, also where the price has to be estimated, and not a job     *)
(* moved by more days, also where the old date is missing (111-139).  A    *)
(* price is another matter: 100 units are gated at no price and let        *)
(* through at a price of 1.                                                *)
(***************************************************************************)
THEOREM LargerStaysGated ==
    ASSUME NEW small \in Calls, NEW large \in Calls, NoLarger(small, large),
           Gated(small)
    PROVE  Gated(large)
<1> USE ThresholdsAssumption, SentinelAssumption DEF Gated
<1>1. CASE small.tool = "create_purchase_requisition"
  <2> DEFINE price == IF small.price_per_unit > 0 THEN small.price_per_unit ELSE EstimatedPrice
  <2>1. price \in Int /\ price > 0
    BY <1>1 DEF EstimatedPrice, NoLarger
  <2>2. Total(small) = small.quantity * price /\ Total(large) = large.quantity * price
    BY <1>1 DEF Total, NoLarger
  <2> HIDE DEF price
  <2>3. Total(small) <= Total(large) /\ Total(small) \in Int /\ Total(large) \in Int
    BY <1>1, <2>1, <2>2, ProductGrows DEF NoLarger
  <2> QED
    BY <1>1, <2>3 DEF RequiresHitl, RuleRaises, BigPurchase, LongShift, NoLarger
<1>2. CASE small.tool = "reschedule_wip_job"
  BY <1>2 DEF RequiresHitl, RuleRaises, BigPurchase, LongShift, NoLarger
<1> QED
  BY <1>1, <1>2 DEF RequiresHitl, RuleRaises, BigPurchase, LongShift, NoLarger
=============================================================================

------------------------- MODULE PlanningCycleProofs -------------------------
(***************************************************************************)
(* Proofs about PlanningCycle, for any number of cycles, reviewers, seeds  *)
(* and restarts.  The strengthening says what a cycle has decided at each  *)
(* node (Chosen), which rows it has written so far (Written), that each    *)
(* offering of a plan is one token, which is queued, in the hands of a     *)
(* request or spent, on a decision and on an audit row (OneToken), and     *)
(* that only plans that need review are offered and none is dropped        *)
(* (Offers).  Place says how far a cycle has come, whose growth bounds it. *)
(***************************************************************************)
EXTENDS PlanningCycle, FiniteSetTheorems, TLAPS

BeforeApproval == {"fetch", "transform", "reason", "negotiate", "approve"}

(* What node_approve's decision leaves in the state of a cycle. *)
Chosen ==
    \A c \in Cycles :
        /\ level[c] = "manager"
        /\ pc[c] \in BeforeApproval => ~approved[c] /\ ~hitl[c]
        /\ pc[c] = "approve" => deadlock[c] = conflict[c]
        /\ pc[c] \in {"record", "notify", "learn", "done"} =>
             /\ deadlock[c] = conflict[c]
             /\ approved[c] = ~hitl[c]
             /\ hitl[c] = NeedsHitl(c, severity[c])
        /\ pc[c] \in {"record", "notify"} => hitl[c]

(* Who has written which row. *)
Written ==
    \A row \in ledger :
        \/ /\ row.node = "approve" /\ row.tag = "pending" /\ hitl[row.cycle]
           /\ pc[row.cycle] \in {"notify", "learn", "done", "failed"}
        \/ /\ row.node = "learn" /\ row.tag = "approved" /\ approved[row.cycle]
           /\ pc[row.cycle] = "done"

Asks(r, id) == review[r] # NoReview /\ review[r].id = id

(* The request holds the queue entry, from memory or from the table. *)
Holds(r, id) == Asks(r, id) /\ (review[r].data \/ review[r].step # "remove")

Holders(id) == {r \in Reviewers : Holds(r, id)}
Unaudited(id) == {r \in Holders(id) : review[r].step \in {"remove", "audit"}}
Reporting(id) == {r \in Reviewers : Asks(r, id) /\ review[r].step = "event"}

Queued(id) == (IF id \in queue THEN 1 ELSE 0) + (IF id \in hitl_queue THEN 1 ELSE 0)

(* Each offering is queued, held or spent: on a decision, on an audit row. *)
Tokens(id) ==
    /\ decided[id] + Cardinality(Holders(id)) + Queued(id) <= Offerings(id)
    /\ audits[id] + Cardinality(Unaudited(id)) + Queued(id) <= Offerings(id)
    /\ events[id] + Cardinality(Reporting(id)) <= audits[id]

OneToken == \A id \in Ids : Tokens(id)

Offered(c) ==
    \/ PlanId(c) \in queue \/ decided[PlanId(c)] > 0 \/ audits[PlanId(c)] > 0
    \/ \E r \in Reviewers : Asks(r, PlanId(c))

Kept(c) ==
    PlanId(c) \in queue \/ decided[PlanId(c)] > 0 \/ \E r \in Reviewers : Holds(r, PlanId(c))

Offers ==
    \A c \in Cycles :
        /\ Offered(c) => hitl[c] /\ pc[c] \in {"learn", "done", "failed"}
        /\ hitl[c] /\ pc[c] \in {"learn", "done"} /\ restarts = 0 => Kept(c)

IInv == TypeOK /\ Chosen /\ Written /\ OneToken /\ Offers

(* The ids of plans are as different as their cycles, and no seeds. *)
LEMMA PlanIdFacts ==
    /\ \A c \in Cycles : PlanId(c) \in PlanIds /\ PlanId(c) \in Ids /\ PlanId(c) \notin Seeds
    /\ \A c, d \in Cycles : PlanId(c) = PlanId(d) => c = d
    /\ PlanIds \cap Seeds = {} /\ Ids = PlanIds \cup Seeds
  BY NamesAssumption DEF PlanId, PlanIds, Ids

(* Sets of reviewers are counted by one when a reviewer comes or goes. *)
LEMMA CountFacts ==
    ASSUME NEW S \in SUBSET Reviewers
    PROVE  /\ Cardinality(S) \in Nat
           /\ \A r \in S : Cardinality(S \ {r}) = Cardinality(S) - 1
           /\ \A r \in Reviewers \ S : Cardinality(S \cup {r}) = Cardinality(S) + 1
<1>1. IsFiniteSet(S)
  BY NumbersAssumption, FS_Subset
<1> QED
  BY <1>1, FS_CardinalityType, FS_AddElement, FS_RemoveElement

LEMMA TokenTypes ==
    ASSUME TypeOK, NEW id \in Ids
    PROVE  /\ Holders(id) \in SUBSET Reviewers /\ Unaudited(id) \in SUBSET Reviewers
           /\ Reporting(id) \in SUBSET Reviewers
           /\ Cardinality(Holders(id)) \in Nat /\ Cardinality(Unaudited(id)) \in Nat
           /\ Cardinality(Reporting(id)) \in Nat
           /\ Queued(id) \in Nat /\ Offerings(id) \in Nat
           /\ decided[id] \in Nat /\ audits[id] \in Nat /\ events[id] \in Nat
<1>1. /\ Holders(id) \in SUBSET Reviewers /\ Unaudited(id) \in SUBSET Reviewers
      /\ Reporting(id) \in SUBSET Reviewers
  BY DEF Holders, Unaudited, Reporting
<1>2. Queued(id) \in Nat /\ Offerings(id) \in Nat
  BY NumbersAssumption DEF Queued, Offerings, TypeOK
<1> QED
  BY <1>1, <1>2, CountFacts DEF TypeOK

(* What happens to one plan leaves the tokens of the others alone. *)
LEMMA TokensUntouched ==
    ASSUME NEW id \in Ids, Tokens(id),
           decided'[id] = decided[id], audits'[id] = audits[id], events'[id] = events[id],
           Holders(id)' = Holders(id), Unaudited(id)' = Unaudited(id),
           Reporting(id)' = Reporting(id), Queued(id)' = Queued(id),
           Offerings(id)' = Offerings(id)
    PROVE  Tokens(id)'
  BY DEF Tokens

LEMMA InitEstablishesIInv == Init => IInv
<1> SUFFICES ASSUME Init PROVE IInv
  OBVIOUS
<1>1. TypeOK
  BY NumbersAssumption, NamesAssumption DEF Init, TypeOK, Nodes
<1>2. Chosen /\ Written
  BY DEF Init, Chosen, Written, BeforeApproval
<1>3. Offers
  BY PlanIdFacts DEF Init, Offers, Offered, Kept, Holds, Asks
<1>4. OneToken
  <2> SUFFICES ASSUME NEW id \in Ids PROVE Tokens(id)
    BY DEF OneToken
  <2>1. Holders(id) = {} /\ Unaudited(id) = {} /\ Reporting(id) = {}
    BY DEF Init, Holders, Unaudited, Reporting, Holds, Asks
  <2>2. Queued(id) <= 1 /\ Offerings(id) >= 1
    BY DEF Init, Queued, Offerings
  <2>3. decided[id] = 0 /\ audits[id] = 0 /\ events[id] = 0
    BY DEF Init
  <2>4. Queued(id) \in Nat /\ Offerings(id) \in Nat
    BY <1>1, TokenTypes
  <2> QED
    BY <2>1, <2>2, <2>3, <2>4, FS_EmptySet DEF Tokens
<1> QED
  BY <1>1, <1>2, <1>3, <1>4 DEF IInv

-----------------------------------------------------------------------------
(* The steps of a cycle *)

(* A step that leaves the dashboard alone keeps its token and, if the plan *)
(* is not offered before its node is learn, its offers.                    *)
LEMMA TokenUntouched ==
    ASSUME OneToken, UNCHANGED board_vars
    PROVE  OneToken'
  BY DEF OneToken, Tokens, Holders, Unaudited, Reporting, Holds, Asks, Queued, Offerings,
         board_vars, trail

LEMMA OffersUntouched ==
    ASSUME Offers, NEW c \in Cycles,
           UNCHANGED <<board_vars, restarts>>,
           \A d \in Cycles \ {c} : pc'[d] = pc[d] /\ hitl'[d] = hitl[d],
           ~(pc[c] \in {"learn", "done", "failed"}) \/ hitl'[c] = hitl[c],
           pc[c] \in {"learn", "done", "failed"} => pc'[c] \in {"done", "failed"},
           ~(pc[c] \in {"learn", "done"}) => ~(hitl'[c] /\ pc'[c] \in {"learn", "done"})
    PROVE  Offers'
<1>1. \A d \in Cycles : Offered(d)' = Offered(d) /\ Kept(d)' = Kept(d)
  BY DEF Offered, Kept, Holds, Asks, PlanId, board_vars, trail
<1> SUFFICES ASSUME NEW d \in Cycles
             PROVE  /\ Offered(d) => hitl'[d] /\ pc'[d] \in {"learn", "done", "failed"}
                    /\ hitl'[d] /\ pc'[d] \in {"learn", "done"} /\ restarts = 0 => Kept(d)
  BY <1>1 DEF Offers
<1> QED
  BY DEF Offers

(* FETCH to NEGOTIATE: nothing is decided yet. *)
LEMMA PlanningPreservesIInv ==
    ASSUME IInv, NEW c \in Cycles,
           Fetch(c) \/ Transform(c) \/ Reason(c) \/ Negotiate(c) \/ NegotiateRaises(c)
    PROVE  IInv'
<1> USE DEF IInv
<1>1. /\ UNCHANGED <<severity, approved, hitl, level, ledger, board_vars, restarts>>
      /\ pc[c] \in {"fetch", "transform", "reason", "negotiate"}
      /\ \E node \in {"transform", "reason", "negotiate", "approve", "failed"} : Goto(c, node)
  BY DEF Fetch, Transform, Reason, Negotiate, NegotiateRaises, cycle_vars
<1>2. \A d \in Cycles \ {c} :
        /\ pc'[d] = pc[d] /\ priority'[d] = priority[d]
        /\ conflict'[d] = conflict[d] /\ deadlock'[d] = deadlock[d]
  BY DEF Fetch, Transform, Reason, Negotiate, NegotiateRaises, cycle_vars, Goto, TypeOK
<1>3. pc'[c] \in {"transform", "reason", "negotiate", "approve", "failed"}
  BY <1>1 DEF Goto, TypeOK
<1>4. TypeOK'
  <2>1. pc' \in [Cycles -> Nodes]
    BY <1>1 DEF Goto, TypeOK, Nodes
  <2>2. /\ priority' \in [Cycles -> Priorities \cup {0}]
        /\ conflict' \in [Cycles -> BOOLEAN] /\ deadlock' \in [Cycles -> BOOLEAN]
    BY DEF Fetch, Transform, Reason, Negotiate, NegotiateRaises, cycle_vars, TypeOK
  <2> QED
    BY <1>1, <2>1, <2>2 DEF TypeOK, board_vars, trail
<1>5. Chosen'
  <2>1. pc'[c] = "approve" => deadlock'[c] = conflict'[c]
    BY <1>3 DEF Fetch, Transform, Reason, Negotiate, NegotiateRaises, Goto, TypeOK
  <2> SUFFICES ASSUME NEW d \in Cycles
               PROVE  /\ level'[d] = "manager"
                      /\ pc'[d] \in BeforeApproval => ~approved'[d] /\ ~hitl'[d]
                      /\ pc'[d] = "approve" => deadlock'[d] = conflict'[d]
                      /\ pc'[d] \in {"record", "notify", "learn", "done"} =>
                           /\ deadlock'[d] = conflict'[d]
                           /\ approved'[d] = ~hitl'[d]
                           /\ hitl'[d] = NeedsHitl(d, severity[d])'
                      /\ pc'[d] \in {"record", "notify"} => hitl'[d]
    BY DEF Chosen
  <2>2. CASE d = c
    BY <1>1, <1>3, <2>1, <2>2 DEF Chosen, BeforeApproval
  <2>3. CASE d # c
    <3>1. NeedsHitl(d, severity[d])' = NeedsHitl(d, severity[d])
      BY <1>1, <1>2, <2>3 DEF NeedsHitl, IsVip
    <3> QED
      BY <1>1, <1>2, <2>3, <3>1 DEF Chosen
  <2> QED
    BY <2>2, <2>3
<1>6. Written'
  BY <1>1, <1>2 DEF Written, TypeOK, Rows
<1>7. OneToken'
  BY <1>1, TokenUntouched DEF board_vars
<1>8. Offers'
  <2>1. \A d \in Cycles \ {c} : pc'[d] = pc[d] /\ hitl'[d] = hitl[d]
    BY <1>1, <1>2
  <2> QED
    BY <1>1, <1>3, <2>1, OffersUntouched DEF board_vars
<1> QED
  BY <1>4, <1>5, <1>6, <1>7, <1>8

LEMMA ApprovePreservesIInv ==
    ASSUME IInv, NEW c \in Cycles, Approve(c)
    PROVE  IInv'
<1> USE DEF IInv
<1>1. PICK s \in Severities(c) :
        /\ severity' = [severity EXCEPT ![c] = s]
        /\ hitl' = [hitl EXCEPT ![c] = NeedsHitl(c, s)]
        /\ approved' = [approved EXCEPT ![c] = ~NeedsHitl(c, s)]
        /\ Goto(c, IF NeedsHitl(c, s) THEN "record" ELSE RouteAfterApprove(c))
  BY DEF Approve
<1>2. /\ pc[c] = "approve"
      /\ UNCHANGED <<priority, conflict, deadlock, level, ledger, board_vars, restarts>>
  BY DEF Approve
<1>3. RouteAfterApprove(c) = "learn"
  BY DEF RouteAfterApprove, Chosen
<1>4. s \in Nat
  <2>1. \A score \in Scores : score \in Nat
    BY NumbersAssumption
  <2>2. DirectorMax + 1 \in Nat
    BY DEF DirectorMax
  <2>3. CASE s \in {0}
    BY <2>3
  <2>4. CASE s \notin {0}
    <3>1. PICK score \in Scores :
            s = IF deadlock[c] /\ score <= DirectorMax THEN DirectorMax + 1 ELSE score
      BY <2>4 DEF Severities
    <3> QED
      BY <2>1, <2>2, <3>1
  <2> QED
    BY <2>3, <2>4
<1>5. NeedsHitl(c, s) \in BOOLEAN
  BY DEF NeedsHitl, IsVip, TypeOK
<1>6. /\ severity'[c] = s /\ hitl'[c] = NeedsHitl(c, s) /\ approved'[c] = ~NeedsHitl(c, s)
      /\ pc'[c] = IF NeedsHitl(c, s) THEN "record" ELSE "learn"
  BY <1>1, <1>3 DEF Goto, TypeOK
<1>7. \A d \in Cycles \ {c} :
        /\ pc'[d] = pc[d] /\ severity'[d] = severity[d]
        /\ hitl'[d] = hitl[d] /\ approved'[d] = approved[d]
  BY <1>1 DEF Goto, TypeOK
<1>8. TypeOK'
  <2>1. pc' \in [Cycles -> Nodes]
    BY <1>1, <1>3 DEF Goto, TypeOK, Nodes
  <2>2. /\ severity' \in [Cycles -> Nat]
        /\ hitl' \in [Cycles -> BOOLEAN] /\ approved' \in [Cycles -> BOOLEAN]
    BY <1>1, <1>4, <1>5 DEF TypeOK
  <2> QED
    BY <1>2, <2>1, <2>2 DEF TypeOK, board_vars, trail
<1>9. Chosen'
  <2>1. \A d \in Cycles : NeedsHitl(d, severity[d])' = NeedsHitl(d, severity'[d])
    BY <1>2 DEF NeedsHitl, IsVip
  <2>2. \A d \in Cycles \ {c} : NeedsHitl(d, severity[d])' = NeedsHitl(d, severity[d])
    BY <1>7, <2>1
  <2>3. /\ level'[c] = "manager" /\ pc'[c] \notin BeforeApproval /\ pc'[c] # "approve"
        /\ deadlock'[c] = conflict'[c] /\ approved'[c] = ~hitl'[c]
        /\ hitl'[c] = NeedsHitl(c, severity[c])'
        /\ pc'[c] \in {"record", "notify"} => hitl'[c]
    BY <1>2, <1>6, <2>1 DEF Chosen, BeforeApproval
  <2> QED
    BY <1>2, <1>7, <2>2, <2>3 DEF Chosen
<1>10. Written'
  BY <1>2, <1>7 DEF Written, TypeOK, Rows
<1>11. OneToken'
  BY <1>2, TokenUntouched DEF board_vars
<1>12. Offers'
  BY <1>2, <1>6, <1>7, OffersUntouched DEF board_vars
<1> QED
  BY <1>8, <1>9, <1>10, <1>11, <1>12

(* The ledger gains nothing, or the row of the node that runs. *)
LEMMA RecordPreservesIInv ==
    ASSUME IInv, NEW c \in Cycles, Record(c)
    PROVE  IInv'
<1> USE DEF IInv
<1>1. /\ pc[c] = "record" /\ hitl[c] /\ ~approved[c]
      /\ UNCHANGED <<cycle_vars, board_vars, restarts>>
      /\ pc'[c] \in {"notify", "failed"}
      /\ \A d \in Cycles \ {c} : pc'[d] = pc[d]
  BY DEF Record, Chosen, Goto, TypeOK
<1>2. ledger' \in {ledger, ledger \cup {[cycle |-> c, node |-> "approve", tag |-> "pending"]}}
  BY <1>1 DEF Record, LedgerRecord, Tag
<1>3. TypeOK'
  <2>1. pc' \in [Cycles -> Nodes]
    BY DEF Record, Goto, TypeOK, Nodes
  <2>2. ledger' \subseteq Rows
    BY <1>2 DEF TypeOK, Rows
  <2> QED
    BY <1>1, <2>1, <2>2 DEF TypeOK, cycle_vars, board_vars, trail
<1>4. Chosen'
  <2>1. \A d \in Cycles : NeedsHitl(d, severity[d])' = NeedsHitl(d, severity[d])
    BY <1>1 DEF NeedsHitl, IsVip, cycle_vars
  <2> QED
    BY <1>1, <2>1 DEF Chosen, cycle_vars, BeforeApproval
<1>5. Written'
  <2> SUFFICES ASSUME NEW row \in ledger'
               PROVE  \/ /\ row.node = "approve" /\ row.tag = "pending" /\ hitl'[row.cycle]
                         /\ pc'[row.cycle] \in {"notify", "learn", "done", "failed"}
                      \/ /\ row.node = "learn" /\ row.tag = "approved"
                         /\ approved'[row.cycle] /\ pc'[row.cycle] = "done"
    BY DEF Written
  <2>1. CASE row \in ledger
    <3>1. row.cycle \in Cycles
      BY <2>1 DEF TypeOK, Rows
    <3>2. row.cycle # c
      BY <1>1, <2>1 DEF Written
    <3> QED
      BY <1>1, <2>1, <3>1, <3>2 DEF Written, cycle_vars
  <2>2. CASE row = [cycle |-> c, node |-> "approve", tag |-> "pending"]
    BY <1>1, <2>2 DEF cycle_vars
  <2> QED
    BY <1>2, <2>1, <2>2
<1>6. OneToken'
  BY <1>1, TokenUntouched DEF board_vars
<1>7. Offers'
  BY <1>1, OffersUntouched DEF board_vars, cycle_vars
<1> QED
  BY <1>3, <1>4, <1>5, <1>6, <1>7

(* The plan enters the queue: nobody has heard of it before. *)
LEMMA NotifyPreservesIInv ==
    ASSUME IInv, NEW c \in Cycles, Notify(c)
    PROVE  IInv'
<1> USE DEF IInv
<1>1. /\ pc[c] = "notify" /\ hitl[c] /\ level[c] = "manager"
      /\ UNCHANGED <<cycle_vars, ledger, hitl_queue, review, decided, trail, reseeds, restarts>>
      /\ queue' = queue \cup {PlanId(c)}
  BY DEF Notify, Chosen
<1>2. pc'[c] = "learn" /\ \A d \in Cycles \ {c} : pc'[d] = pc[d]
  BY <1>1 DEF Notify, RouteAfterApprove, Goto, TypeOK
<1>3. TypeOK'
  <2>1. pc' \in [Cycles -> Nodes]
    BY <1>1 DEF Notify, RouteAfterApprove, Goto, TypeOK, Nodes
  <2>2. queue' \subseteq PlanIds
    BY <1>1, PlanIdFacts DEF TypeOK
  <2> QED
    BY <1>1, <2>1, <2>2 DEF TypeOK, cycle_vars, trail
<1>4. Chosen'
  <2>1. \A d \in Cycles : NeedsHitl(d, severity[d])' = NeedsHitl(d, severity[d])
    BY <1>1 DEF NeedsHitl, IsVip, cycle_vars
  <2> QED
    BY <1>1, <1>2, <2>1 DEF Chosen, cycle_vars, BeforeApproval
<1>5. Written'
  BY <1>1, <1>2 DEF Written, TypeOK, Rows, cycle_vars
<1>6. ~Offered(c)
  BY <1>1 DEF Offers
<1>7. OneToken'
  <2> SUFFICES ASSUME NEW id \in Ids PROVE Tokens(id)'
    BY DEF OneToken
  <2>1. /\ Holders(id)' = Holders(id) /\ Unaudited(id)' = Unaudited(id)
        /\ Reporting(id)' = Reporting(id) /\ Offerings(id)' = Offerings(id)
    BY <1>1 DEF Holders, Unaudited, Reporting, Holds, Asks, Offerings
  <2>2. CASE id = PlanId(c)
    <3>1. decided[id] = 0 /\ audits[id] = 0 /\ \A r \in Reviewers : ~Asks(r, id)
      BY <1>6, <2>2, PlanIdFacts DEF Offered, TypeOK
    <3>2. Holders(id) = {} /\ Unaudited(id) = {}
      BY <3>1 DEF Holders, Unaudited, Holds
    <3>3. Queued(id)' = 1 /\ Offerings(id) = 1
      BY <1>1, <2>2, PlanIdFacts DEF Queued, Offerings, TypeOK
    <3> QED
      BY <1>1, <2>1, <3>1, <3>2, <3>3, FS_EmptySet DEF Tokens, OneToken, trail
  <2>3. CASE id # PlanId(c)
    <3>1. Queued(id)' = Queued(id)
      BY <1>1, <2>3 DEF Queued
    <3> QED
      BY <1>1, <2>1, <3>1, TokensUntouched DEF OneToken, trail
  <2> QED
    BY <2>2, <2>3
<1>8. Offers'
  <2> SUFFICES ASSUME NEW d \in Cycles
               PROVE  /\ Offered(d)' => hitl'[d] /\ pc'[d] \in {"learn", "done", "failed"}
                      /\ hitl'[d] /\ pc'[d] \in {"learn", "done"} /\ restarts' = 0 => Kept(d)'
    BY DEF Offers
  <2>1. CASE d = c
    BY <1>1, <1>2, <2>1 DEF Kept, cycle_vars
  <2>2. CASE d # c
    <3>1. PlanId(d)' = PlanId(d) /\ (PlanId(d) \in queue' <=> PlanId(d) \in queue)
      BY <1>1, <2>2, PlanIdFacts DEF PlanId
    <3>2. Offered(d)' = Offered(d) /\ Kept(d)' = Kept(d)
      BY <1>1, <3>1 DEF Offered, Kept, Holds, Asks, trail
    <3> QED
      BY <1>1, <1>2, <2>2, <3>2 DEF Offers, cycle_vars
  <2> QED
    BY <2>1, <2>2
<1> QED
  BY <1>3, <1>4, <1>5, <1>7, <1>8

LEMMA LearnPreservesIInv ==
    ASSUME IInv, NEW c \in Cycles, LearnApproved(c) \/ LearnNothing(c)
    PROVE  IInv'
<1> USE DEF IInv
<1>1. /\ pc[c] = "learn" /\ approved[c] = ~hitl[c]
      /\ UNCHANGED <<cycle_vars, board_vars, restarts>>
      /\ Goto(c, "done")
  BY DEF LearnApproved, LearnNothing, Chosen
<1>2. pc'[c] = "done" /\ \A d \in Cycles \ {c} : pc'[d] = pc[d]
  BY <1>1 DEF Goto, TypeOK
<1>3. \/ ledger' = ledger
      \/ approved[c] /\ ledger' = ledger \cup {[cycle |-> c, node |-> "learn", tag |-> "approved"]}
  BY DEF LearnApproved, LearnNothing, Learns, LedgerRecord, Tag
<1>4. TypeOK'
  <2>1. pc' \in [Cycles -> Nodes]
    BY <1>1 DEF Goto, TypeOK, Nodes
  <2>2. ledger' \subseteq Rows
    BY <1>3 DEF TypeOK, Rows
  <2> QED
    BY <1>1, <2>1, <2>2 DEF TypeOK, cycle_vars, board_vars, trail
<1>5. Chosen'
  <2>1. \A d \in Cycles : NeedsHitl(d, severity[d])' = NeedsHitl(d, severity[d])
    BY <1>1 DEF NeedsHitl, IsVip, cycle_vars
  <2> QED
    BY <1>1, <1>2, <2>1 DEF Chosen, cycle_vars, BeforeApproval
<1>6. Written'
  <2> SUFFICES ASSUME NEW row \in ledger'
               PROVE  \/ /\ row.node = "approve" /\ row.tag = "pending" /\ hitl'[row.cycle]
                         /\ pc'[row.cycle] \in {"notify", "learn", "done", "failed"}
                      \/ /\ row.node = "learn" /\ row.tag = "approved"
                         /\ approved'[row.cycle] /\ pc'[row.cycle] = "done"
    BY DEF Written
  <2>1. CASE row \in ledger
    <3>1. row.cycle \in Cycles
      BY <2>1 DEF TypeOK, Rows
    <3> QED
      BY <1>1, <1>2, <2>1, <3>1 DEF Written, cycle_vars
  <2>2. CASE approved[c] /\ row = [cycle |-> c, node |-> "learn", tag |-> "approved"]
    BY <1>1, <1>2, <2>2 DEF cycle_vars
  <2> QED
    BY <1>3, <2>1, <2>2
<1>7. OneToken'
  BY <1>1, TokenUntouched DEF board_vars
<1>8. Offers'
  BY <1>1, <1>2, OffersUntouched DEF board_vars, cycle_vars
<1> QED
  BY <1>4, <1>5, <1>6, <1>7, <1>8

-----------------------------------------------------------------------------
(* The steps of the dashboard, which move a plan's token *)

(* They leave the cycles and the ledger alone. *)
LEMMA CyclesUntouched ==
    ASSUME Chosen, Written, UNCHANGED <<pc, cycle_vars, ledger>>
    PROVE  Chosen' /\ Written'
<1>1. \A d \in Cycles : NeedsHitl(d, severity[d])' = NeedsHitl(d, severity[d])
  BY DEF NeedsHitl, IsVip, cycle_vars
<1> QED
  BY <1>1 DEF Chosen, Written, cycle_vars

(* What only brings plans to requests, or drops them, keeps the offers. *)
LEMMA OffersKept ==
    ASSUME Offers, UNCHANGED <<pc, cycle_vars, restarts>>,
           \A d \in Cycles : Offered(d)' => Offered(d),
           \A d \in Cycles : Kept(d) => Kept(d)'
    PROVE  Offers'
  BY DEF Offers, cycle_vars

LEMMA TakeRequestPreservesIInv ==
    ASSUME IInv, NEW r \in Reviewers, NEW id \in Ids, TakeRequest(r, id)
    PROVE  IInv'
<1> USE DEF IInv
<1>1. /\ review[r] = NoReview /\ queue' = queue \ {id}
      /\ id \in queue \cup Seeds \/ decided[id] > 0
      /\ UNCHANGED <<pc, cycle_vars, ledger, hitl_queue, decided, trail, reseeds, restarts>>
  BY DEF TakeRequest, PopQueue
<1> DEFINE request == [id |-> id, data |-> id \in queue, step |-> "remove"]
<1>2. /\ review'[r] = request
      /\ \A s \in Reviewers \ {r} : review'[s] = review[s]
      /\ request \in Review
      /\ review' \in [Reviewers -> Review \cup {NoReview}]
  <2>1. (id \in queue) \in BOOLEAN
    OBVIOUS
  <2>2. request \in Review
    BY <2>1 DEF Review
  <2> QED
    BY <2>2 DEF TakeRequest, TypeOK
<1>3. /\ request.id = id /\ (request.data <=> id \in queue) /\ request.step = "remove"
      /\ request # NoReview
  BY <1>2, NamesAssumption
<1> HIDE DEF request
<1>4. TypeOK'
  BY <1>1, <1>2 DEF TypeOK, cycle_vars, trail
<1>5. Chosen' /\ Written'
  BY <1>1, CyclesUntouched
<1>6. /\ \A i \in Ids : Asks(r, i)' <=> i = id
      /\ \A i \in Ids : Holds(r, i)' <=> i = id /\ id \in queue
      /\ \A i \in Ids, s \in Reviewers \ {r} :
           (Asks(s, i)' <=> Asks(s, i)) /\ (Holds(s, i)' <=> Holds(s, i))
      /\ \A i \in Ids : ~Asks(r, i) /\ ~Holds(r, i)
  BY <1>1, <1>2, <1>3 DEF Asks, Holds
<1>7. OneToken'
  <2> SUFFICES ASSUME NEW i \in Ids PROVE Tokens(i)'
    BY DEF OneToken
  <2>1. Reporting(i)' = Reporting(i) /\ Offerings(i)' = Offerings(i)
    BY <1>1, <1>2, <1>3, <1>6 DEF Reporting, Offerings
  <2>2. CASE i # id \/ id \notin queue
    <3>1. Holders(i)' = Holders(i)
      BY <1>6, <2>2 DEF Holders
    <3>2. Unaudited(i)' = Unaudited(i)
      BY <1>2, <1>6, <3>1 DEF Unaudited, Holders
    <3>3. Queued(i)' = Queued(i)
      BY <1>1, <2>2 DEF Queued
    <3> QED
      BY <1>1, <2>1, <3>1, <3>2, <3>3, TokensUntouched DEF OneToken, trail
  <2>3. CASE i = id /\ id \in queue
    <3>1. Holders(i)' = Holders(i) \cup {r} /\ r \notin Holders(i)
      BY <1>6, <2>3 DEF Holders
    <3>2. Unaudited(i)' = Unaudited(i) \cup {r} /\ r \notin Unaudited(i)
      BY <1>2, <1>3, <1>6, <3>1, <2>3 DEF Unaudited, Holders
    <3>3. Queued(i)' = Queued(i) - 1
      BY <1>1, <2>3 DEF Queued
    <3>4. /\ Cardinality(Holders(i) \cup {r}) = Cardinality(Holders(i)) + 1
          /\ Cardinality(Unaudited(i) \cup {r}) = Cardinality(Unaudited(i)) + 1
      BY <3>1, <3>2, TokenTypes, CountFacts
    <3> QED
      BY <1>1, <2>1, <3>1, <3>2, <3>3, <3>4, TokenTypes DEF Tokens, OneToken, trail
  <2> QED
    BY <2>2, <2>3
<1>8. Offers'
  <2>1. \A d \in Cycles : PlanId(d)' = PlanId(d) /\ PlanId(d) \in Ids /\ PlanId(d) \notin Seeds
    BY PlanIdFacts DEF PlanId
  <2>2. \A d \in Cycles : Offered(d)' => Offered(d)
    BY <1>1, <1>6, <2>1 DEF Offered, trail
  <2>3. \A d \in Cycles : Kept(d) => Kept(d)'
    BY <1>1, <1>6, <2>1 DEF Kept
  <2> QED
    BY <1>1, <2>2, <2>3, OffersKept
<1> QED
  BY <1>4, <1>5, <1>7, <1>8

LEMMA RemoveRowPreservesIInv ==
    ASSUME IInv, NEW r \in Reviewers, RemoveRow(r)
    PROVE  IInv'
<1> USE DEF IInv
<1> DEFINE id == review[r].id
<1>1. /\ review[r] # NoReview /\ review[r] \in Review /\ review[r].step = "remove"
      /\ UNCHANGED <<pc, cycle_vars, ledger, queue, decided, trail, reseeds, restarts>>
  BY DEF RemoveRow, Waits, TypeOK
<1>2. PICK answered \in BOOLEAN :
        /\ hitl_queue' \in {hitl_queue \ {id}} \cup (IF answered THEN {} ELSE {hitl_queue})
        /\ review' = [review EXCEPT ![r] =
               IF Found(r, answered /\ id \in hitl_queue)
               THEN [@ EXCEPT !.step = "audit"] ELSE NoReview]
  BY DEF RemoveRow
<1> DEFINE found == review[r].data \/ (answered /\ id \in hitl_queue)
<1>3. /\ review'[r] = IF found THEN [review[r] EXCEPT !.step = "audit"] ELSE NoReview
      /\ \A s \in Reviewers \ {r} : review'[s] = review[s]
      /\ id \in Ids
  BY <1>1, <1>2 DEF Found, TypeOK, Review
<1>4. [review[r] EXCEPT !.step = "audit"] \in Review
  BY <1>1 DEF Review
<1>5. TypeOK'
  <2>1. review' \in [Reviewers -> Review \cup {NoReview}]
    BY <1>2, <1>4 DEF TypeOK
  <2>2. hitl_queue' \subseteq Seeds
    BY <1>2 DEF TypeOK
  <2> QED
    BY <1>1, <2>1, <2>2 DEF TypeOK, cycle_vars, trail
<1>6. Chosen' /\ Written'
  BY <1>1, CyclesUntouched
<1>7. /\ \A i \in Ids : Asks(r, i)' <=> i = id /\ found
      /\ \A i \in Ids : Holds(r, i)' <=> i = id /\ found
      /\ \A i \in Ids : (Asks(r, i) <=> i = id) /\ (Holds(r, i) <=> i = id /\ review[r].data)
      /\ \A i \in Ids, s \in Reviewers \ {r} :
           (Asks(s, i)' <=> Asks(s, i)) /\ (Holds(s, i)' <=> Holds(s, i))
      /\ found => review'[r].step = "audit"
  BY <1>1, <1>3, <1>4, NamesAssumption DEF Asks, Holds, Review
<1>8. /\ hitl_queue' \subseteq hitl_queue /\ hitl_queue \ {id} \subseteq hitl_queue'
      /\ answered => id \notin hitl_queue'
  BY <1>2
<1> HIDE DEF found, id
<1>9. found => review[r].data \/ (id \in hitl_queue /\ id \notin hitl_queue')
  BY <1>8 DEF found
<1>10. OneToken'
  <2> SUFFICES ASSUME NEW i \in Ids PROVE Tokens(i)'
    BY DEF OneToken
  <2>1. Reporting(i)' = Reporting(i) /\ Offerings(i)' = Offerings(i)
    <3>1. r \notin Reporting(i) /\ r \notin Reporting(i)'
      BY <1>1, <1>7 DEF Reporting
    <3> QED
      BY <1>1, <1>3, <1>7, <3>1 DEF Reporting, Offerings
  <2>2. /\ Queued(i)' \in Nat /\ Queued(i)' <= Queued(i)
        /\ i = id /\ found /\ ~review[r].data => Queued(i)' = Queued(i) - 1
    BY <1>1, <1>8, <1>9 DEF Queued
  <2>3. CASE i # id \/ ~found \/ review[r].data
    <3>1. Holders(i)' = Holders(i)
      BY <1>7, <2>3 DEF Holders, found
    <3>2. Unaudited(i)' = Unaudited(i)
      <4>1. r \in Unaudited(i)' <=> r \in Unaudited(i)
        BY <1>1, <1>7, <3>1 DEF Unaudited, Holders
      <4> QED
        BY <1>3, <3>1, <4>1 DEF Unaudited, Holders
    <3> QED
      BY <1>1, <2>1, <2>2, <3>1, <3>2, TokenTypes DEF Tokens, OneToken, trail
  <2>4. CASE i = id /\ found /\ ~review[r].data
    <3>1. Holders(i)' = Holders(i) \cup {r} /\ r \notin Holders(i)
      BY <1>7, <2>4 DEF Holders
    <3>2. Unaudited(i)' = Unaudited(i) \cup {r} /\ r \notin Unaudited(i)
      BY <1>3, <1>7, <3>1, <2>4 DEF Unaudited, Holders
    <3>3. /\ Cardinality(Holders(i) \cup {r}) = Cardinality(Holders(i)) + 1
          /\ Cardinality(Unaudited(i) \cup {r}) = Cardinality(Unaudited(i)) + 1
      BY <3>1, <3>2, TokenTypes, CountFacts
    <3> QED
      BY <1>1, <2>1, <2>2, <2>4, <3>1, <3>2, <3>3, TokenTypes DEF Tokens, OneToken, trail
  <2> QED
    BY <2>3, <2>4
<1>11. Offers'
  <2>1. \A d \in Cycles : PlanId(d)' = PlanId(d) /\ PlanId(d) \in Ids
    BY PlanIdFacts DEF PlanId
  <2>2. \A d \in Cycles : Offered(d)' => Offered(d)
    BY <1>1, <1>7, <2>1 DEF Offered, trail
  <2>3. \A d \in Cycles : Kept(d) => Kept(d)'
    BY <1>1, <1>7, <2>1 DEF Kept, found
  <2> QED
    BY <1>1, <2>2, <2>3, OffersKept
<1> QED
  BY <1>5, <1>6, <1>10, <1>11

(* The request goes on with its plan; only the audit rows may change. *)
LEMMA WriteAuditPreservesIInv ==
    ASSUME IInv, NEW r \in Reviewers, WriteAudit(r)
    PROVE  IInv'
<1> USE DEF IInv
<1> DEFINE id == review[r].id
<1>1. /\ review[r] # NoReview /\ review[r] \in Review /\ review[r].step = "audit" /\ id \in Ids
      /\ UNCHANGED <<pc, cycle_vars, ledger, queue, hitl_queue, decided, events, reseeds, restarts>>
  BY DEF WriteAudit, Waits, TypeOK, Review
<1>2. PICK returned \in BOOLEAN :
        /\ audits' \in {[audits EXCEPT ![id] = @ + 1]} \cup (IF returned THEN {} ELSE {audits})
        /\ review' = [review EXCEPT ![r].step = AfterAudit(returned)]
  BY DEF WriteAudit
<1>3. /\ review'[r] = [review[r] EXCEPT !.step = AfterAudit(returned)]
      /\ review'[r] \in Review /\ review'[r].id = id /\ review'[r] # NoReview
      /\ review'[r].step = AfterAudit(returned)
      /\ \A s \in Reviewers \ {r} : review'[s] = review[s]
      /\ review' \in [Reviewers -> Review \cup {NoReview}]
  <2>1. AfterAudit(returned) \in {"event", "answer"}
    BY DEF AfterAudit
  <2>2. [review[r] EXCEPT !.step = AfterAudit(returned)] \in Review
    BY <1>1, <2>1 DEF Review
  <2> QED
    BY <1>1, <1>2, <2>2, NamesAssumption DEF TypeOK, Review
<1>4. /\ audits' \in [Ids -> Nat]
      /\ \A i \in Ids \ {id} : audits'[i] = audits[i]
      /\ audits'[id] = audits[id] + 1 \/ (~returned /\ audits'[id] = audits[id])
  BY <1>1, <1>2 DEF TypeOK
<1>5. TypeOK'
  BY <1>1, <1>3, <1>4 DEF TypeOK, cycle_vars
<1>6. Chosen' /\ Written'
  BY <1>1, CyclesUntouched
<1>7. /\ \A i \in Ids, s \in Reviewers : (Asks(s, i)' <=> Asks(s, i)) /\ (Holds(s, i)' <=> Holds(s, i))
      /\ \A i \in Ids : (Asks(r, i) <=> i = id) /\ (Holds(r, i) <=> i = id)
      /\ AfterAudit(returned) = IF returned THEN "event" ELSE "answer"
  BY <1>1, <1>3 DEF Asks, Holds, AfterAudit
<1> HIDE DEF id
<1>8. OneToken'
  <2> SUFFICES ASSUME NEW i \in Ids PROVE Tokens(i)'
    BY DEF OneToken
  <2>1. /\ Holders(i)' = Holders(i)
        /\ Offerings(i)' = Offerings(i) /\ Queued(i)' = Queued(i)
    BY <1>1, <1>7 DEF Holders, Offerings, Queued
  <2>2. CASE i # id
    <3>1. Unaudited(i)' = Unaudited(i) /\ Reporting(i)' = Reporting(i)
      BY <1>3, <1>7, <2>1, <2>2 DEF Unaudited, Holders, Reporting
    <3> QED
      BY <1>1, <1>4, <2>1, <2>2, <3>1, TokensUntouched DEF OneToken
  <2>3. CASE i = id
    <3>1. Unaudited(i)' = Unaudited(i) \ {r} /\ r \in Unaudited(i)
      BY <1>1, <1>3, <1>7, <2>1, <2>3 DEF Unaudited, Holders
    <3>2. /\ Reporting(i)' = IF returned THEN Reporting(i) \cup {r} ELSE Reporting(i)
          /\ r \notin Reporting(i)
      <4>1. r \notin Reporting(i)
        BY <1>1 DEF Reporting
      <4>2. r \in Reporting(i)' <=> returned
        BY <1>3, <1>7, <2>3 DEF Reporting
      <4>3. \A s \in Reviewers \ {r} : s \in Reporting(i)' <=> s \in Reporting(i)
        BY <1>3, <1>7 DEF Reporting
      <4>4. Reporting(i) \subseteq Reviewers /\ Reporting(i)' \subseteq Reviewers
        BY DEF Reporting
      <4> HIDE DEF Reporting
      <4> QED
        BY <4>1, <4>2, <4>3, <4>4
    <3>3. /\ Cardinality(Unaudited(i) \ {r}) = Cardinality(Unaudited(i)) - 1
          /\ Cardinality(Reporting(i) \cup {r}) = Cardinality(Reporting(i)) + 1
      BY <3>1, <3>2, TokenTypes, CountFacts
    <3> QED
      BY <1>1, <1>4, <2>1, <2>3, <3>1, <3>2, <3>3, TokenTypes DEF Tokens, OneToken
  <2> QED
    BY <2>2, <2>3
<1>9. Offers'
  <2>1. \A d \in Cycles : PlanId(d)' = PlanId(d) /\ PlanId(d) \in Ids
    BY PlanIdFacts DEF PlanId
  <2>2. \A d \in Cycles : (Offered(d)' => Offered(d)) /\ (Kept(d) => Kept(d)')
    BY <1>1, <1>4, <1>7, <2>1 DEF Offered, Kept
  <2> QED
    BY <1>1, <2>2, OffersKept
<1> QED
  BY <1>5, <1>6, <1>8, <1>9

LEMMA WriteEventPreservesIInv ==
    ASSUME IInv, NEW r \in Reviewers, WriteEvent(r)
    PROVE  IInv'
<1> USE DEF IInv
<1> DEFINE id == review[r].id
<1>1. /\ review[r] # NoReview /\ review[r] \in Review /\ review[r].step = "event" /\ id \in Ids
      /\ UNCHANGED <<pc, cycle_vars, ledger, queue, hitl_queue, decided, audits, reseeds, restarts>>
  BY DEF WriteEvent, Waits, TypeOK, Review
<1>2. /\ review'[r] \in Review /\ review'[r].id = id /\ review'[r] # NoReview
      /\ review'[r].step = "answer"
      /\ \A s \in Reviewers \ {r} : review'[s] = review[s]
      /\ review' \in [Reviewers -> Review \cup {NoReview}]
  <2>1. [review[r] EXCEPT !.step = "answer"] \in Review
    BY <1>1 DEF Review
  <2> QED
    BY <1>1, <2>1, NamesAssumption DEF WriteEvent, TypeOK, Review
<1>3. /\ events' \in [Ids -> Nat]
      /\ \A i \in Ids \ {id} : events'[i] = events[i]
      /\ events'[id] <= events[id] + 1
  BY <1>1 DEF WriteEvent, TypeOK
<1>4. TypeOK'
  BY <1>1, <1>2, <1>3 DEF TypeOK, cycle_vars
<1>5. Chosen' /\ Written'
  BY <1>1, CyclesUntouched
<1>6. /\ \A i \in Ids, s \in Reviewers : (Asks(s, i)' <=> Asks(s, i)) /\ (Holds(s, i)' <=> Holds(s, i))
      /\ \A i \in Ids : (Asks(r, i) <=> i = id)
  BY <1>1, <1>2 DEF Asks, Holds
<1> HIDE DEF id
<1>7. OneToken'
  <2> SUFFICES ASSUME NEW i \in Ids PROVE Tokens(i)'
    BY DEF OneToken
  <2>1. /\ Holders(i)' = Holders(i)
        /\ Offerings(i)' = Offerings(i) /\ Queued(i)' = Queued(i)
    BY <1>1, <1>6 DEF Holders, Offerings, Queued
  <2>2. Unaudited(i)' = Unaudited(i)
    BY <1>1, <1>2, <1>6, <2>1 DEF Unaudited, Holders
  <2>3. CASE i # id
    <3>1. Reporting(i)' = Reporting(i)
      BY <1>2, <1>6, <2>3 DEF Reporting
    <3> QED
      BY <1>1, <1>3, <2>1, <2>2, <2>3, <3>1, TokensUntouched DEF OneToken
  <2>4. CASE i = id
    <3>1. Reporting(i)' = Reporting(i) \ {r} /\ r \in Reporting(i)
      BY <1>1, <1>2, <1>6, <2>4 DEF Reporting
    <3>2. Cardinality(Reporting(i) \ {r}) = Cardinality(Reporting(i)) - 1
      BY <3>1, TokenTypes, CountFacts
    <3> QED
      BY <1>1, <1>3, <2>1, <2>2, <2>4, <3>1, <3>2, TokenTypes DEF Tokens, OneToken, TypeOK
  <2> QED
    BY <2>3, <2>4
<1>8. Offers'
  <2>1. \A d \in Cycles : PlanId(d)' = PlanId(d) /\ PlanId(d) \in Ids
    BY PlanIdFacts DEF PlanId
  <2>2. \A d \in Cycles : (Offered(d)' => Offered(d)) /\ (Kept(d) => Kept(d)')
    BY <1>1, <1>6, <2>1 DEF Offered, Kept
  <2> QED
    BY <1>1, <2>2, OffersKept
<1> QED
  BY <1>4, <1>5, <1>7, <1>8

LEMMA AnswerPreservesIInv ==
    ASSUME IInv, NEW r \in Reviewers, Answer(r)
    PROVE  IInv'
<1> USE DEF IInv
<1> DEFINE id == review[r].id
<1>1. /\ review[r] # NoReview /\ review[r] \in Review /\ review[r].step = "answer" /\ id \in Ids
      /\ UNCHANGED <<pc, cycle_vars, ledger, queue, hitl_queue, trail, reseeds, restarts>>
  BY DEF Answer, Waits, TypeOK, Review
<1>2. /\ decided'[id] = decided[id] + 1
      /\ \A i \in Ids \ {id} : decided'[i] = decided[i]
      /\ decided' \in [Ids -> Nat]
  BY <1>1 DEF Answer, TypeOK
<1>3. /\ review'[r] = NoReview
      /\ \A s \in Reviewers \ {r} : review'[s] = review[s]
      /\ review' \in [Reviewers -> Review \cup {NoReview}]
  BY DEF Answer, TypeOK
<1>4. TypeOK'
  BY <1>1, <1>2, <1>3 DEF TypeOK, cycle_vars, trail
<1>5. Chosen' /\ Written'
  BY <1>1, CyclesUntouched
<1>6. /\ \A i \in Ids : ~Asks(r, i)' /\ ~Holds(r, i)'
      /\ \A i \in Ids : (Asks(r, i) <=> i = id) /\ (Holds(r, i) <=> i = id)
      /\ \A i \in Ids, s \in Reviewers \ {r} :
           (Asks(s, i)' <=> Asks(s, i)) /\ (Holds(s, i)' <=> Holds(s, i))
  BY <1>1, <1>3 DEF Asks, Holds
<1> HIDE DEF id
<1>7. OneToken'
  <2> SUFFICES ASSUME NEW i \in Ids PROVE Tokens(i)'
    BY DEF OneToken
  <2>1. Offerings(i)' = Offerings(i) /\ Queued(i)' = Queued(i)
    BY <1>1 DEF Offerings, Queued
  <2>2. /\ Reporting(i)' = Reporting(i)
        /\ Unaudited(i)' = Unaudited(i)
    <3>1. r \notin Reporting(i) /\ r \notin Unaudited(i) /\ r \notin Reporting(i)' /\ r \notin Unaudited(i)'
      BY <1>1, <1>6 DEF Reporting, Unaudited, Holders
    <3> QED
      BY <1>3, <1>6, <3>1 DEF Reporting, Unaudited, Holders
  <2>3. CASE i # id
    <3>1. Holders(i)' = Holders(i)
      BY <1>6, <2>3 DEF Holders
    <3> QED
      BY <1>1, <1>2, <2>1, <2>2, <2>3, <3>1, TokensUntouched DEF OneToken, trail
  <2>4. CASE i = id
    <3>1. Holders(i)' = Holders(i) \ {r} /\ r \in Holders(i)
      BY <1>6, <2>4 DEF Holders
    <3>2. Cardinality(Holders(i) \ {r}) = Cardinality(Holders(i)) - 1
      BY <3>1, TokenTypes, CountFacts
    <3> QED
      BY <1>1, <1>2, <2>1, <2>2, <2>4, <3>1, <3>2, TokenTypes DEF Tokens, OneToken, trail
  <2> QED
    BY <2>3, <2>4
<1>8. Offers'
  <2>1. \A d \in Cycles : PlanId(d)' = PlanId(d) /\ PlanId(d) \in Ids
    BY PlanIdFacts DEF PlanId
  <2>2. \A d \in Cycles : Offered(d)' => Offered(d)
    BY <1>1, <1>2, <1>6, <2>1 DEF Offered, trail
  <2>3. \A d \in Cycles : Kept(d) => Kept(d)'
    BY <1>1, <1>2, <1>6, <2>1 DEF Kept, TypeOK
  <2> QED
    BY <1>1, <2>2, <2>3, OffersKept
<1> QED
  BY <1>4, <1>5, <1>7, <1>8

(* Every seeded plan is offered once more, at most. *)
LEMMA ReseedPreservesIInv ==
    ASSUME IInv, Reseed
    PROVE  IInv'
<1> USE DEF IInv
<1>1. /\ reseeds < MaxReseeds /\ reseeds' = reseeds + 1 /\ hitl_queue' = hitl_queue \cup Seeds
      /\ UNCHANGED <<pc, cycle_vars, ledger, queue, review, decided, trail, restarts>>
  BY DEF Reseed
<1>2. TypeOK'
  BY <1>1, NumbersAssumption DEF TypeOK, cycle_vars, trail
<1>3. Chosen' /\ Written'
  BY <1>1, CyclesUntouched
<1>4. OneToken'
  <2> SUFFICES ASSUME NEW i \in Ids PROVE Tokens(i)'
    BY DEF OneToken
  <2>1. /\ Holders(i)' = Holders(i) /\ Unaudited(i)' = Unaudited(i)
        /\ Reporting(i)' = Reporting(i)
    BY <1>1 DEF Holders, Unaudited, Reporting, Holds, Asks
  <2>2. CASE i \in Seeds
    <3>1. Offerings(i)' = Offerings(i) + 1
      BY <1>1, <2>2, NumbersAssumption DEF Offerings, TypeOK
    <3>2. Queued(i)' \in Nat /\ Queued(i)' <= Queued(i) + 1
      BY <1>1 DEF Queued
    <3> QED
      BY <1>1, <2>1, <3>1, <3>2, TokenTypes DEF Tokens, OneToken, trail
  <2>3. CASE i \notin Seeds
    <3>1. Queued(i)' = Queued(i) /\ Offerings(i)' = Offerings(i)
      BY <1>1, <2>3 DEF Queued, Offerings
    <3> QED
      BY <1>1, <2>1, <3>1, TokensUntouched DEF OneToken, trail
  <2> QED
    BY <2>2, <2>3
<1>5. Offers'
  BY <1>1, OffersKept DEF Offered, Kept, Holds, Asks, PlanId, trail
<1> QED
  BY <1>2, <1>3, <1>4, <1>5

LEMMA RestartPreservesIInv ==
    ASSUME IInv, Restart
    PROVE  IInv'
<1> USE DEF IInv
<1>1. /\ restarts' = restarts + 1 /\ restarts < MaxRestarts /\ queue' = {}
      /\ UNCHANGED <<cycle_vars, ledger, hitl_queue, decided, trail, reseeds>>
      /\ \A r \in Reviewers : review'[r] = NoReview
      /\ \A c \in Cycles : pc'[c] = IF pc[c] \in {"fetch", "done"} THEN pc[c] ELSE "failed"
  BY DEF Restart
<1>2. TypeOK'
  <2>1. pc' \in [Cycles -> Nodes]
    BY DEF Restart, TypeOK, Nodes
  <2>2. review' \in [Reviewers -> Review \cup {NoReview}] /\ restarts' \in 0..MaxRestarts
    BY <1>1, NumbersAssumption DEF Restart, TypeOK
  <2> QED
    BY <1>1, <2>1, <2>2 DEF TypeOK, cycle_vars, trail
<1>3. Chosen'
  <2>1. \A d \in Cycles : NeedsHitl(d, severity[d])' = NeedsHitl(d, severity[d])
    BY <1>1 DEF NeedsHitl, IsVip, cycle_vars
  <2> QED
    BY <1>1, <2>1 DEF Chosen, BeforeApproval, cycle_vars
<1>4. Written'
  BY <1>1 DEF Written, TypeOK, Rows, cycle_vars
<1>5. \A r \in Reviewers : \A id : ~Asks(r, id)' /\ ~Holds(r, id)'
  BY <1>1 DEF Asks, Holds
<1>6. OneToken'
  <2> SUFFICES ASSUME NEW i \in Ids PROVE Tokens(i)'
    BY DEF OneToken
  <2>1. Holders(i)' = {} /\ Unaudited(i)' = {} /\ Reporting(i)' = {}
    BY <1>5 DEF Holders, Unaudited, Reporting
  <2>2. Queued(i)' \in Nat /\ Queued(i)' <= Queued(i) /\ Offerings(i)' = Offerings(i)
    BY <1>1 DEF Queued, Offerings
  <2> QED
    BY <1>1, <2>1, <2>2, TokenTypes, FS_EmptySet DEF Tokens, OneToken, trail
<1>7. Offers'
  <2>1. restarts' # 0
    BY <1>1 DEF TypeOK
  <2>2. \A d \in Cycles : Offered(d)' => Offered(d)
    BY <1>1, <1>5 DEF Offered, PlanId, trail
  <2> QED
    BY <1>1, <2>1, <2>2 DEF Offers, cycle_vars
<1> QED
  BY <1>2, <1>3, <1>4, <1>6, <1>7

LEMMA StutterPreservesIInv == IInv /\ UNCHANGED vars => IInv'
<1> SUFFICES ASSUME IInv, UNCHANGED vars PROVE IInv'
  OBVIOUS
<1>1. TypeOK' /\ Chosen' /\ Written'
  BY CyclesUntouched DEF IInv, vars, cycle_vars, board_vars, trail, TypeOK
<1>2. OneToken'
  BY TokenUntouched DEF IInv, vars, board_vars
<1>3. Offers'
  BY DEF IInv, vars, cycle_vars, board_vars, trail, Offers, Offered, Kept, Holds, Asks, PlanId
<1> QED
  BY <1>1, <1>2, <1>3 DEF IInv

LEMMA IInvHolds == Spec => []IInv
<1>1. IInv /\ [Next]_vars => IInv'
  <2> SUFFICES ASSUME IInv, Next PROVE IInv'
    BY StutterPreservesIInv
  <2> QED
    BY PlanningPreservesIInv, ApprovePreservesIInv, RecordPreservesIInv, NotifyPreservesIInv,
       LearnPreservesIInv, TakeRequestPreservesIInv, RemoveRowPreservesIInv,
       WriteAuditPreservesIInv, WriteEventPreservesIInv, AnswerPreservesIInv,
       ReseedPreservesIInv, RestartPreservesIInv
    DEF Next, CycleStep, ReviewStep
<1> QED
  BY <1>1, InitEstablishesIInv, PTL DEF Spec

(***************************************************************************)
(* The state of the cycles, the ledger and the queues keeps its types.     *)
(***************************************************************************)
THEOREM TypeCorrect == Spec => []TypeOK
<1>1. IInv => TypeOK
  BY DEF IInv
<1> QED
  BY <1>1, IInvHolds, PTL

(***************************************************************************)
(* Only harmless plans are recorded as approved, with any number of cycles *)
(* and whatever fails around them.                                         *)
(***************************************************************************)
THEOREM OnlyHarmlessIsApproved == Spec => []ApprovedRowsAreHarmless
<1>1. IInv => ApprovedRowsAreHarmless
  <2> SUFFICES ASSUME IInv, NEW row \in ledger, row.tag = "approved"
               PROVE  /\ ~conflict[row.cycle] /\ ~IsVip(row.cycle)
                      /\ severity[row.cycle] <= ManagerMax
    BY DEF ApprovedRowsAreHarmless
  <2>1. row.cycle \in Cycles /\ approved[row.cycle] /\ pc[row.cycle] = "done"
    BY DEF IInv, Written, TypeOK, Rows
  <2>2. ~NeedsHitl(row.cycle, severity[row.cycle]) /\ deadlock[row.cycle] = conflict[row.cycle]
    BY <2>1 DEF IInv, Chosen, TypeOK
  <2> QED
    BY <2>1, <2>2 DEF NeedsHitl, IInv, TypeOK, ManagerMax
<1> QED
  BY <1>1, IInvHolds, PTL

(***************************************************************************)
(* A cycle leaves at most one row in the ledger.                           *)
(***************************************************************************)
THEOREM RecordedOnce == Spec => []OneRowPerCycle
<1>1. IInv => OneRowPerCycle
  <2> SUFFICES ASSUME IInv, NEW row \in ledger, NEW other \in ledger, row.cycle = other.cycle
               PROVE  row = other
    BY DEF OneRowPerCycle
  <2>1. /\ row \in Rows /\ other \in Rows
    BY DEF IInv, TypeOK
  <2>2. row.node = other.node
    BY <2>1 DEF IInv, Written, Chosen, Rows
  <2>3. row.tag = other.tag
    BY <2>2 DEF IInv, Written
  <2> QED
    BY <2>1, <2>2, <2>3 DEF Rows
<1> QED
  BY <1>1, IInvHolds, PTL

(***************************************************************************)
(* However many requests race, a plan is decided at most once, and a       *)
(* seeded one at most once for each time it was seeded.                    *)
(***************************************************************************)
THEOREM DecidedOnce == Spec => []OneDecisionPerPlan
<1>1. IInv => OneDecisionPerPlan
  BY TokenTypes DEF IInv, OneToken, Tokens, OneDecisionPerPlan
<1> QED
  BY <1>1, IInvHolds, PTL

(***************************************************************************)
(* The audit trail records no decision twice, and the feed none that the   *)
(* trail does not have, whatever write is lost.                            *)
(***************************************************************************)
THEOREM TrailIsSound == Spec => []TrailMatchesDecisions
<1>1. IInv => TrailMatchesDecisions
  BY TokenTypes DEF IInv, OneToken, Tokens, TrailMatchesDecisions
<1> QED
  BY <1>1, IInvHolds, PTL

(***************************************************************************)
(* The plans that need a review, and only these, are offered for one and   *)
(* none is dropped while the process runs.                                 *)
(***************************************************************************)
THEOREM ReviewsAreNotLost == Spec => []PendingPlansAreOffered
<1>1. IInv => PendingPlansAreOffered
  BY DEF IInv, Offers, Offered, Kept, Holds, Asks, PendingPlansAreOffered
<1> QED
  BY <1>1, IInvHolds, PTL
-----------------------------------------------------------------------------
(* How far a cycle has come *)

(* A node lies behind all that lead to it; failed and done are the ends. *)
Place(node) ==
    CASE node = "fetch" -> 0 [] node = "transform" -> 1 [] node = "reason" -> 2
      [] node = "negotiate" -> 3 [] node = "approve" -> 4 [] node = "record" -> 5
      [] node = "notify" -> 6 [] node = "learn" -> 7 [] OTHER -> 8

LEMMA Places ==
    /\ \A node \in Nodes : Place(node) \in 0..8
    /\ Place("fetch") = 0 /\ Place("transform") = 1 /\ Place("reason") = 2
    /\ Place("negotiate") = 3 /\ Place("approve") = 4 /\ Place("record") = 5
    /\ Place("notify") = 6 /\ Place("learn") = 7 /\ Place("done") = 8 /\ Place("failed") = 8
  BY DEF Place, Nodes

(***************************************************************************)
(* No cycle is ever at the executive's node, however severe its plan and   *)
(* whatever fails: the level that route_after_approve asks for is in every *)
(* reachable state the initial one, which node_approve does not return     *)
(* (master_graph.py 722-723, 745-760, 938-949).                            *)
(***************************************************************************)
THEOREM ExecutiveIsNeverReached ==
    Spec => [](\A c \in Cycles : level[c] = "manager" /\ pc[c] # "executive")
<1> DEFINE NotThere == \A c \in Cycles : pc[c] # "executive"
<1>1. Init => NotThere
  BY DEF Init
<1>2. IInv /\ NotThere /\ [Next]_vars => NotThere'
  <2> SUFFICES ASSUME IInv, NotThere, [Next]_vars, NEW c \in Cycles PROVE pc'[c] # "executive"
    OBVIOUS
  <2>1. pc \in [Cycles -> Nodes] /\ \A d \in Cycles : level[d] = "manager"
    BY DEF IInv, TypeOK, Chosen
  <2>2. ASSUME NEW d \in Cycles, CycleStep(d) PROVE pc'[c] # "executive"
    BY <2>1, <2>2 DEF CycleStep, Fetch, Transform, Reason, Negotiate, NegotiateRaises, Approve,
       Record, Notify, LearnApproved, LearnNothing, Goto, RouteAfterApprove
  <2>3. CASE Restart
    BY <2>1, <2>3 DEF Restart
  <2>4. ASSUME NEW r \in Reviewers, ReviewStep(r) PROVE pc' = pc
    BY <2>4 DEF ReviewStep, TakeRequest, RemoveRow, WriteAudit, WriteEvent, Answer
  <2>5. CASE Reseed \/ UNCHANGED vars
    BY <2>5 DEF Reseed, vars
  <2> QED
    BY <2>2, <2>3, <2>4, <2>5 DEF Next
<1>3. IInv /\ NotThere => \A c \in Cycles : level[c] = "manager" /\ pc[c] # "executive"
  BY DEF IInv, Chosen
<1>4. Spec => []NotThere
  BY <1>1, <1>2, IInvHolds, PTL DEF Spec
<1> QED
  BY <1>3, <1>4, IInvHolds, PTL

(***************************************************************************)
(* A cycle cannot be held up by its surroundings: each of its own steps    *)
(* brings it nearer to its end, so that it takes at most eight, and no     *)
(* other cycle, no reviewer and no seeding moves it; a restart leaves it   *)
(* where it is or ends it as failed (MasterGraph.build, 1030-1054).        *)
(***************************************************************************)
THEOREM CyclesAreBounded ==
    Spec => /\ [](\A c \in Cycles : Place(pc[c]) \in 0..8)
            /\ [][\A c \in Cycles :
                     IF CycleStep(c) THEN Place(pc[c])' > Place(pc[c])
                     ELSE pc'[c] \in {pc[c]} \cup (IF Restart THEN {"failed"} ELSE {})]_vars
<1> DEFINE MovesOn(c) ==
       IF CycleStep(c) THEN Place(pc[c])' > Place(pc[c])
       ELSE pc'[c] \in {pc[c]} \cup (IF Restart THEN {"failed"} ELSE {})
<1>1. IInv /\ [Next]_vars => [\A c \in Cycles : MovesOn(c)]_vars
  <2> SUFFICES ASSUME IInv, Next, NEW c \in Cycles PROVE MovesOn(c)
    OBVIOUS
  <2>1. pc \in [Cycles -> Nodes] /\ level[c] = "manager"
    BY DEF IInv, TypeOK, Chosen
  <2>2. ASSUME CycleStep(c) PROVE Place(pc'[c]) > Place(pc[c])
    BY <2>1, <2>2, Places DEF CycleStep, Fetch, Transform, Reason, Negotiate, NegotiateRaises,
       Approve, Record, Notify, LearnApproved, LearnNothing, Goto, RouteAfterApprove
  <2>3. ASSUME ~CycleStep(c) PROVE pc'[c] = pc[c] \/ (Restart /\ pc'[c] = "failed")
    <3>1. ASSUME NEW d \in Cycles, CycleStep(d) PROVE pc'[c] = pc[c]
      <4>1. d # c
        BY <2>3, <3>1
      <4> QED
        BY <2>1, <3>1, <4>1 DEF CycleStep, Fetch, Transform, Reason, Negotiate, NegotiateRaises,
           Approve, Record, Notify, LearnApproved, LearnNothing, Goto
    <3>2. ASSUME NEW r \in Reviewers, ReviewStep(r) PROVE pc' = pc
      BY <3>2 DEF ReviewStep, TakeRequest, RemoveRow, WriteAudit, WriteEvent, Answer
    <3>3. CASE Reseed
      BY <3>3 DEF Reseed
    <3>4. CASE Restart
      BY <2>1, <3>4 DEF Restart
    <3> QED
      BY <3>1, <3>2, <3>3, <3>4 DEF Next
  <2> QED
    BY <2>2, <2>3
<1>2. IInv => \A c \in Cycles : Place(pc[c]) \in 0..8
  BY Places DEF IInv, TypeOK
<1> QED
  BY <1>1, <1>2, IInvHolds, PTL DEF Spec
=============================================================================

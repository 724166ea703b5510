---------------------------- MODULE PlanningCycle ----------------------------
(***************************************************************************)
(* The planning cycles of orchestrator/master_graph.py, the Experience     *)
(* Ledger they write to and the dashboard's approval queue.                *)
(*                                                                         *)
(* The demands of a cycle are abstracted to their highest priority, the    *)
(* agents' proposals to whether two allocations use one supply: that is    *)
(* what the negotiation's verdict depends on (RightVerdict of Negotiation, *)
(* which ConflictResolver implements by the theorem VerdictIsAFunction).   *)
(* What a reviewer decides is left out: nothing reads it.                  *)
(* LangGraph (external) hands each node a copy of the state and merges     *)
(* only what the node returns; node_approve's assignments to state are     *)
(* therefore seen by the ledger it calls and by no later node.             *)
(*                                                                         *)
(* Between two steps of a cycle other cycles and reviewers run: a step     *)
(* ends where the code awaits the database or the graph moves on.          *)
(***************************************************************************)
EXTENDS Integers, FiniteSets

CONSTANTS
    Cycles,      \* planning requests
    Reviewers,   \* concurrent POST /approvals/action requests
    Priorities,  \* bound: demand priorities considered
    Scores,      \* bound: products impact * urgency * depts * customer_risk
    Seeds,       \* plans that migration put into hitl_queue
    MaxRestarts, \* bound: restarts of the process
    MaxReseeds,  \* bound: runs of seed() while the dashboard is in use
    NoReview     \* the reviewer has no request running

VipAbove == 80
ManagerMax == 2000
DirectorMax == 10000

VARIABLES
    pc,         \* the node each cycle runs next, and the awaits inside approve
    priority,   \* the highest priority of its demands, 0 when it has none
    conflict,   \* two of its agents' allocations use one supply
    deadlock,
    severity,   \* node_approve's severity_score
    approved,
    hitl,       \* hitl_required
    level,      \* escalation_level
    ledger,     \* committed rows of experience_records
    queue,      \* _pending_approvals, in memory
    hitl_queue, \* axon_board.hitl_queue
    review,     \* the request each reviewer has running
    decided,    \* history: decisions that were answered with success
    audits,     \* rows of axon_board.approval_audit about each plan
    events,     \* rows of axon_board.board_events about its decisions
    reseeds,
    restarts

cycle_vars == <<priority, conflict, deadlock, severity, approved, hitl, level>>
trail == <<audits, events>>
board_vars == <<queue, hitl_queue, review, decided, trail, reseeds>>
vars == <<pc, cycle_vars, ledger, board_vars, restarts>>

(* A row is named by the node that wrote it, each runs once in a cycle.    *)
(* This stands for the id the database draws; the row's plan_id is another *)
(* uuid4, which nobody is told, so ledger.get(id) never finds a row.       *)
Rows == [cycle : Cycles, node : {"approve", "learn"}, tag : {"approved", "pending"}]
PlanIds == Cycles \X {"approve"}
Ids == PlanIds \cup Seeds

PlanId(c) == <<c, "approve">>

Review == [id : Ids, data : BOOLEAN, step : {"remove", "audit", "event", "answer"}]

Nodes == {"fetch", "transform", "reason", "negotiate", "approve", "record", "notify",
          "learn", "executive", "done", "failed"}

ASSUME NumbersAssumption ==
    /\ Priorities \subseteq Nat \ {0} /\ Scores \subseteq Nat
    /\ MaxRestarts \in Nat /\ MaxReseeds \in Nat /\ IsFiniteSet(Reviewers)
ASSUME NamesAssumption == NoReview \notin Review /\ PlanIds \cap Seeds = {}

TypeOK ==
    /\ pc \in [Cycles -> Nodes]
    /\ priority \in [Cycles -> Priorities \cup {0}]
    /\ conflict \in [Cycles -> BOOLEAN]
    /\ deadlock \in [Cycles -> BOOLEAN]
    /\ severity \in [Cycles -> Nat]
    /\ approved \in [Cycles -> BOOLEAN]
    /\ hitl \in [Cycles -> BOOLEAN]
    /\ level \in [Cycles -> {"manager", "executive"}]
    /\ ledger \subseteq Rows
    /\ queue \subseteq PlanIds
    /\ hitl_queue \subseteq Seeds
    /\ review \in [Reviewers -> Review \cup {NoReview}]
    /\ decided \in [Ids -> Nat]
    /\ audits \in [Ids -> Nat] /\ events \in [Ids -> Nat]
    /\ reseeds \in 0..MaxReseeds
    /\ restarts \in 0..MaxRestarts

Goto(c, node) == pc' = [pc EXCEPT ![c] = node]

-----------------------------------------------------------------------------
(* FETCH and TRANSFORM *)

(* Whatever the servers that answer hold, a part of it where a server      *)
(* fails at its second tool, or the request's own demands when nothing at  *)
(* all arrives: any demands, as far as this module is concerned.           *)
Fetch(c) ==
    /\ pc[c] = "fetch"
    /\ \E p \in Priorities \cup {0} : priority' = [priority EXCEPT ![c] = p]
    /\ Goto(c, "transform")
    /\ UNCHANGED <<conflict, deadlock, severity, approved, hitl, level,
                   ledger, board_vars, restarts>>

(* Outputs that do not parse, or that no transformer can map, are dropped. *)
Transform(c) ==
    /\ pc[c] = "transform"
    /\ \E p \in Priorities \cup {0} :
        p <= priority[c] /\ priority' = [priority EXCEPT ![c] = p]
    /\ Goto(c, "reason")
    /\ UNCHANGED <<conflict, deadlock, severity, approved, hitl, level,
                   ledger, board_vars, restarts>>

-----------------------------------------------------------------------------
(* REASON and NEGOTIATE *)

(* The agents' proposals; an agent that raises proposes no allocation. *)
Reason(c) ==
    /\ pc[c] = "reason"
    /\ \E clash \in BOOLEAN : conflict' = [conflict EXCEPT ![c] = clash]
    /\ Goto(c, "negotiate")
    /\ UNCHANGED <<priority, deadlock, severity, approved, hitl, level,
                   ledger, board_vars, restarts>>

(* A tie that cannot be broken raises, and ends the graph's run. *)
NegotiateRaises(c) ==
    /\ pc[c] = "negotiate" /\ conflict[c]
    /\ Goto(c, "failed")
    /\ UNCHANGED <<cycle_vars, ledger, board_vars, restarts>>

Negotiate(c) ==
    /\ pc[c] = "negotiate"
    /\ deadlock' = [deadlock EXCEPT ![c] = conflict[c]]
    /\ Goto(c, "approve")
    /\ UNCHANGED <<priority, conflict, severity, approved, hitl, level,
                   ledger, board_vars, restarts>>

-----------------------------------------------------------------------------
(* APPROVE *)

(* compute_severity_from_state; a deadlock is a production_broken event.   *)
(* Without demands the raw demands are scored, which may be none either.   *)
Severities(c) ==
    {IF deadlock[c] /\ score <= DirectorMax THEN DirectorMax + 1 ELSE score : score \in Scores}
        \cup (IF priority[c] = 0 THEN {0} ELSE {})

IsVip(c) == priority[c] > VipAbove

NeedsHitlUnlessVip(c, score) == deadlock[c] \/ score > ManagerMax \* mutant

(* SeverityScorer.needs_hitl *)
NeedsHitl(c, score) == deadlock[c] \/ IsVip(c) \/ score > ManagerMax

AwaitReview(c) ==
    IF level[c] = "executive" THEN "executive" ELSE IF hitl[c] THEN "approve" ELSE "learn" \* mutant

(* route_after_approve, once node_approve's updates are merged: every plan *)
(* is approved or needs review, so none ends here.                         *)
RouteAfterApprove(c) == IF level[c] = "executive" THEN "executive" ELSE "learn"

Approve(c) ==
    /\ pc[c] = "approve"
    /\ \E s \in Severities(c) :
        /\ severity' = [severity EXCEPT ![c] = s]
        /\ hitl' = [hitl EXCEPT ![c] = NeedsHitl(c, s)]
        /\ approved' = [approved EXCEPT ![c] = ~NeedsHitl(c, s)]
        /\ Goto(c, IF NeedsHitl(c, s) THEN "record" ELSE RouteAfterApprove(c))
    /\ UNCHANGED <<priority, conflict, deadlock, level, ledger, board_vars, restarts>>

(***************************************************************************)
(* ExperienceLedger.record returns or raises, and its row is committed or  *)
(* not, in all four combinations.  A raise may lose the answer to a        *)
(* commit.  An error of the embedding UPDATE is suppressed inside the      *)
(* transaction, which PostgreSQL then rolls back at COMMIT without an      *)
(* error: record returns the id of a row that is not there.                *)
(***************************************************************************)
RejectedUnlessApproved(c) == IF approved[c] THEN "approved" ELSE "rejected" \* mutant

Tag(c) == IF approved[c] THEN "approved" ELSE "pending"

LedgerRecord(c, node) ==
    ledger' \in {ledger, ledger \cup {[cycle |-> c, node |-> node, tag |-> Tag(c)]}}

(* An exception leaves node_approve and ends the graph's run. *)
Record(c) ==
    /\ pc[c] = "record"
    /\ LedgerRecord(c, "approve")
    /\ \E outcome \in {"notify", "failed"} : Goto(c, outcome)
    /\ UNCHANGED <<cycle_vars, board_vars, restarts>>

(* notify_pending_approval, which does not await; the graph moves on. *)
Notify(c) ==
    /\ pc[c] = "notify"
    /\ queue' = queue \cup {PlanId(c)}
    /\ Goto(c, RouteAfterApprove(c))
    /\ UNCHANGED <<cycle_vars, ledger, hitl_queue, review, decided, trail, reseeds, restarts>>

-----------------------------------------------------------------------------
(* LEARN, with which the cycle ends (STORE finds no store in its state) *)

LearnsPendingToo(c) == approved[c] \/ hitl[c] \* mutant

(* The branch for an approved plan with an approval_plan_id is dead:       *)
(* node_approve returns one only together with approved = False.           *)
Learns(c) == approved[c]

(* A ledger failure is suppressed. *)
LearnApproved(c) ==
    /\ pc[c] = "learn" /\ Learns(c)
    /\ LedgerRecord(c, "learn")
    /\ Goto(c, "done")
    /\ UNCHANGED <<cycle_vars, board_vars, restarts>>

LearnNothing(c) ==
    /\ pc[c] = "learn" /\ ~Learns(c)
    /\ Goto(c, "done")
    /\ UNCHANGED <<cycle_vars, ledger, board_vars, restarts>>

-----------------------------------------------------------------------------
(* The dashboard: approve_or_reject *)

PeekQueue(id) == queue \* mutant

PopQueue(id) == queue \ {id}

(* Any id that a listing has ever shown: another request may have come     *)
(* first.  The route takes any other id as well, finds it in neither place *)
(* and answers 404; such a request changes nothing and is left out.  The   *)
(* entry leaves the memory queue before the first await.                   *)
TakeRequest(r, id) ==
    /\ review[r] = NoReview
    /\ id \in queue \cup Seeds \/ decided[id] > 0
    /\ review' = [review EXCEPT ![r] =
           [id |-> id, data |-> id \in queue, step |-> "remove"]]
    /\ queue' = PopQueue(id)
    /\ UNCHANGED <<pc, cycle_vars, ledger, hitl_queue, decided, trail, reseeds, restarts>>

Waits(r, step) == review[r] # NoReview /\ review[r].step = step

RowOnly(r, row) == row \* mutant

(* data, or the row when the memory queue had none *)
Found(r, row) == review[r].data \/ row

(* DELETE ... RETURNING; a failure is suppressed, and may lose the answer. *)
RemoveRow(r) ==
    /\ Waits(r, "remove")
    /\ \E answered \in BOOLEAN :
        LET id == review[r].id
            row == answered /\ id \in hitl_queue
        IN  /\ hitl_queue' \in {hitl_queue \ {id}} \cup (IF answered THEN {} ELSE {hitl_queue})
            /\ review' = [review EXCEPT ![r] =
                   IF Found(r, row) THEN [@ EXCEPT !.step = "audit"] ELSE NoReview]
    /\ UNCHANGED <<pc, cycle_vars, ledger, queue, decided, trail, reseeds, restarts>>

EventInAnyCase(returned) == "event" \* mutant

(* One suppress holds both writes: without the first there is no second. *)
AfterAudit(returned) == IF returned THEN "event" ELSE "answer"

(* record_approval; one that raises may have been committed. *)
WriteAudit(r) ==
    /\ Waits(r, "audit")
    /\ \E returned \in BOOLEAN :
        /\ audits' \in {[audits EXCEPT ![review[r].id] = @ + 1]}
                         \cup (IF returned THEN {} ELSE {audits})
        /\ review' = [review EXCEPT ![r].step = AfterAudit(returned)]
    /\ UNCHANGED <<pc, cycle_vars, ledger, queue, hitl_queue, decided, events, reseeds, restarts>>

(* record_event *)
WriteEvent(r) ==
    /\ Waits(r, "event")
    /\ events' \in {events, [events EXCEPT ![review[r].id] = @ + 1]}
    /\ review' = [review EXCEPT ![r].step = "answer"]
    /\ UNCHANGED <<pc, cycle_vars, ledger, queue, hitl_queue, decided, audits, reseeds, restarts>>

(* The decision is answered with success.  The tag is left out: it is      *)
(* appended to a copy of the ledger row that is never written back.        *)
Answer(r) ==
    /\ Waits(r, "answer")
    /\ decided' = [decided EXCEPT ![review[r].id] = @ + 1]
    /\ review' = [review EXCEPT ![r] = NoReview]
    /\ UNCHANGED <<pc, cycle_vars, ledger, queue, hitl_queue, trail, reseeds, restarts>>

(* seed() once more: the seeded plans that were decided are offered again. *)
Reseed ==
    /\ reseeds < MaxReseeds
    /\ reseeds' = reseeds + 1
    /\ hitl_queue' = hitl_queue \cup Seeds
    /\ UNCHANGED <<pc, cycle_vars, ledger, queue, review, decided, trail, restarts>>

-----------------------------------------------------------------------------
(* A restart loses what is in memory: the runs, the requests, the queue. *)
Restart ==
    /\ restarts < MaxRestarts
    /\ restarts' = restarts + 1
    /\ pc' = [c \in Cycles |-> IF pc[c] \in {"fetch", "done"} THEN pc[c] ELSE "failed"]
    /\ queue' = {}
    /\ review' = [r \in Reviewers |-> NoReview]
    /\ UNCHANGED <<cycle_vars, ledger, hitl_queue, decided, trail, reseeds>>

Init ==
    /\ pc = [c \in Cycles |-> "fetch"]
    /\ priority = [c \in Cycles |-> 0]
    /\ conflict = [c \in Cycles |-> FALSE]
    /\ deadlock = [c \in Cycles |-> FALSE]
    /\ severity = [c \in Cycles |-> 0]
    /\ approved = [c \in Cycles |-> FALSE]
    /\ hitl = [c \in Cycles |-> FALSE]
    /\ level = [c \in Cycles |-> "manager"]
    /\ ledger = {}
    /\ queue = {}
    /\ hitl_queue = Seeds
    /\ review = [r \in Reviewers |-> NoReview]
    /\ decided = [id \in Ids |-> 0]
    /\ audits = [id \in Ids |-> 0] /\ events = [id \in Ids |-> 0]
    /\ reseeds = 0
    /\ restarts = 0

CycleStep(c) ==
    \/ Fetch(c) \/ Transform(c) \/ Reason(c) \/ Negotiate(c) \/ NegotiateRaises(c)
    \/ Approve(c) \/ Record(c) \/ Notify(c)
    \/ LearnApproved(c) \/ LearnNothing(c)

ReviewStep(r) ==
    \/ \E id \in Ids : TakeRequest(r, id)
    \/ RemoveRow(r) \/ WriteAudit(r) \/ WriteEvent(r) \/ Answer(r)

Next ==
    \/ \E c \in Cycles : CycleStep(c)
    \/ \E r \in Reviewers : ReviewStep(r)
    \/ Reseed \/ Restart

Spec == Init /\ [][Next]_vars

(* ainvoke runs the graph to its end; reviewers may never come. *)
FairSpec == Spec /\ \A c \in Cycles : WF_vars(CycleStep(c))

-----------------------------------------------------------------------------
(* Properties *)

(* How often the plan has been put into a queue, at most. *)
Offerings(id) == IF id \in Seeds THEN 1 + reseeds ELSE 1

(***************************************************************************)
(* What is learned as approved was harmless when it was recorded: no       *)
(* deadlock, no demand above priority 80, severity at most 2000; whatever  *)
(* servers failed, and whatever happens to other cycles and to the plans   *)
(* under review (needs_hitl, record_plan_from_state's tags).               *)
(***************************************************************************)
ApprovedRowsAreHarmless ==
    \A row \in ledger : row.tag = "approved" =>
        /\ ~conflict[row.cycle] /\ ~IsVip(row.cycle)
        /\ severity[row.cycle] <= ManagerMax

(***************************************************************************)
(* A cycle is recorded at most once: a plan that was recorded for its      *)
(* review is not recorded again by node_learn (781-800).                   *)
(***************************************************************************)
OneRowPerCycle == \A row, other \in ledger : row.cycle = other.cycle => row = other

(***************************************************************************)
(* A plan is decided at most once, however many requests race for it, and  *)
(* a seeded plan once more only for each time it was seeded again          *)
(* (routes.py 293-303, seed.py 342-370).                                   *)
(***************************************************************************)
OneDecisionPerPlan ==
    \A id \in Ids : decided[id] <= Offerings(id)

(***************************************************************************)
(* The audit trail never holds more decisions about a plan than the times  *)
(* it was offered, although a write that raises may have been committed,   *)
(* and the feed reports no decision that is not in it, although either     *)
(* write may be lost, and a restart come in between (routes.py 306-313).   *)
(***************************************************************************)
TrailMatchesDecisions ==
    \A id \in Ids : events[id] <= audits[id] /\ audits[id] <= Offerings(id)

(***************************************************************************)
(* Without a restart no plan that waits for its review gets lost: it is    *)
(* in the queue, in the hands of one reviewer or decided, and a plan that  *)
(* needs no review is never offered to one (routes.py 293-303).            *)
(***************************************************************************)
PendingPlansAreOffered ==
    \A c \in Cycles :
        LET offered == \/ PlanId(c) \in queue \/ decided[PlanId(c)] > 0
                       \/ \E r \in Reviewers : review[r] # NoReview /\ review[r].id = PlanId(c)
        IN  /\ pc[c] = "done" /\ hitl[c] /\ restarts = 0 => offered
            /\ offered => hitl[c]

(***************************************************************************)
(* Every cycle ends, whether its plan is reviewed or not.                  *)
(***************************************************************************)
EveryCycleEnds == \A c \in Cycles : <>[](pc[c] \in {"done", "failed"})

(***************************************************************************)
(* master_graph.py: "Record the plan first so it's available for review":  *)
(* the row of every plan in the queue is in the ledger.                    *)
(***************************************************************************)
QueuedPlansAreRecorded ==
    \A c \in Cycles : PlanId(c) \in queue => \E row \in ledger : row.cycle = c
=============================================================================

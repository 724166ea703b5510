------------------------- MODULE ExecutiveEscalation -------------------------
(***************************************************************************)
(* The planning cycle together with node_executive, which its graph has    *)
(* but no cycle reaches: route_after_approve asks for escalation_level,    *)
(* which only node_executive itself returns.  node_approve assigns it in   *)
(* the copy of the state it was given and leaves it out of its result.     *)
(***************************************************************************)
EXTENDS PlanningCycle

Executive(c) ==
    /\ pc[c] = "executive"
    /\ level' = [level EXCEPT ![c] = "executive"]
    /\ Goto(c, "learn")
    /\ UNCHANGED <<priority, conflict, deadlock, severity, approved, hitl,
                   ledger, board_vars, restarts>>

ExecutiveNext == Next \/ \E c \in Cycles : Executive(c)

ExecutiveSpec == Init /\ [][ExecutiveNext]_vars

(***************************************************************************)
(* node_executive is "called when severity score > DIRECTOR_MAX or event   *)
(* type is in ALWAYS_EXECUTIVE" (820-824): a cycle whose plan deadlocked   *)
(* or scored above 10000 does not end without the executive assessment.    *)
(***************************************************************************)
SevereCyclesAreAssessed ==
    \A c \in Cycles :
        pc[c] = "done" /\ (deadlock[c] \/ severity[c] > DirectorMax) => level[c] = "executive"
=============================================================================

--------------------------- MODULE MCPlanningCycle ---------------------------
(* One cycle with every outcome of needs_hitl; the plans that migration     *)
(* queued compete with its plan for the reviewers.  See the README.         *)
EXTENDS PlanningCycle

CONSTANTS order, alice, bob, boeing

MCCycles == {order}
MCReviewers == {alice, bob}
MCPriorities == {80, 81}
MCScores == {2000, 2001}
MCSeeds == {boeing}
=============================================================================

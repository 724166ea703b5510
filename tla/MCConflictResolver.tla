-------------------------- MODULE MCConflictResolver --------------------------
(* Proposals of three agents, four allocations at most of two supplies. *)
EXTENDS ConflictResolver

CONSTANTS steel, press

MCSupplies == {steel, press}
MCUtilities == {25, 50, 75}
(* sales and logistics with delivery = 0; the third agent has a weight *)
MCWeightless == {1, 2}
=============================================================================

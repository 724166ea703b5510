------------------------ MODULE MCExecutiveEscalation ------------------------
EXTENDS ExecutiveEscalation

CONSTANTS order, alice, bob, boeing

MCCycles == {order}
MCReviewers == {alice, bob}
MCPriorities == {80, 81}
MCScores == {2000, 2001}
MCSeeds == {boeing}
=============================================================================

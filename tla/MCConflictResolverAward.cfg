SPECIFICATION Spec
\* The negotiation is over once the plan has been collected.
CHECK_DEADLOCK FALSE
CONSTANTS
    steel = steel
    press = press
    NumAgents = 3
    Supplies <- MCSupplies
    MaxPerPair = 2
    MaxAllocs = 4
    Utilities <- MCUtilities
    Weightless <- MCWeightless
    MaxRounds = 2
INVARIANT SupplyIsAwardedOnce

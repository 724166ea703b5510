SPECIFICATION ExecutiveSpec
CONSTANTS
    order = order
    alice = alice
    bob = bob
    boeing = boeing
    Cycles <- MCCycles
    Reviewers <- MCReviewers
    Priorities <- MCPriorities
    Scores <- MCScores
    Seeds <- MCSeeds
    MaxRestarts = 2
    MaxReseeds = 1
    NoReview = NoReview
INVARIANT SevereCyclesAreAssessed

SPECIFICATION FairSpec
CONSTANTS
    c1 = c1
    c2 = c2
    c3 = c3
    Callers <- MCCallers
    FailureThreshold = 3
    CooldownSeconds = 3
    CountCap = 4
    NoFailure = NoFailure
INVARIANTS
    TypeOK
    HalfOpenIsRested
    ClosedCountsConsecutiveFailures
PROPERTIES
    OpenClosesOnlyByReset
    OpenIsTemporary

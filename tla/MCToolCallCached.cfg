SPECIFICATION Spec
CONSTANTS
    reader = reader
    writer = writer
    Callers <- MCCallers
    Writers <- MCWriters
    FailureThreshold = 2
    CooldownSeconds = 1
    CountCap = 2
    NoFailure = NoFailure
    RetryCount = 1
    NoSession = NoSession
    Startup = Startup
PROPERTY FreshDataServedWhenOpen

SPECIFICATION HealthySpec
CONSTANTS
    reader = reader
    writer = writer
    Callers <- MCWriters
    Writers <- MCWriters
    FailureThreshold = 2
    CooldownSeconds = 1
    CountCap = 2
    NoFailure = NoFailure
    RetryCount = 1
    NoSession = NoSession
    Startup = Startup
PROPERTY RecoversAfterOutage

SPECIFICATION ServicesSpec
CONSTANTS
    stock = stock
    alice = alice
    bob = bob
    order = order
    late = late
    third = third
    boeing = boeing
    sap = sap
    odoo = odoo
    ebs = ebs
    plm = plm
    rag = rag
    cost = cost
    delivery = delivery
    lookup = lookup
    create = create
    first = first
    second = second
    plan = plan
    CacheKeys <- MCCacheKeys
    TTL = 1
    Clients <- MCClients
    RedisDelay = 1
    MaxValues = 2
    MaxTime = 3
    NoEntry = NoEntry
    NoRequest = NoRequest
    Threads <- MCThreads
    Requests <- MCClients
    MaxRetainedThreads = 1
    MaxPlace = 4
    NoThread = NoThread
    NoJob = NoJob
    SeededPlans <- MCSeededPlans
    MaxCuts = 2
    ErpServers <- MCErpServers
    RagServer = rag
    Fields <- MCFields
    Puttable <- MCPuttable
    Default = 1
    RowValue = 2
    Readers <- MCClients
    NoPut = NoPut
    Connectors = 2
    Names <- MCNames
    SourceTools <- MCSourceTools
    Syncs <- MCClients
    Source = Source
    NoSync = NoSync
    Unanswered = Unanswered
    Records <- MCRecords
    Sweeps <- MCSweeps
    Hot = 1
    Warm = 2
    MaxDay = 4
    NoRecord = NoRecord
    NoRun = NoRun
INVARIANTS
    ServicesTypeOK
    ServedIsFresh
    InvalidatedStaysGone
    RunningHasARun
    UnsharedRunIsShown
    SetupConverges
    UpdatesMergeUntilARead
    ToolsAreListedOnce
PROPERTIES
    PruningSparesTheRunning
    OnlyRecoveryImproves
    ReportedToolsAreListed
    RetentionSparesTheYoung
    NothingRunsForever

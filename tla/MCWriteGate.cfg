SPECIFICATION Spec
CONSTANTS
    buyer = buyer
    planner = planner
    Agents <- MCAgents
    Calls <- MCCalls
    writeback_enabled = TRUE
    purchase_req_threshold = 10000
    schedule_shift_days_threshold = 7
    NoBaseline = NoBaseline
    Unparsable = Unparsable
    ApprovalKey <- MCApprovalKey
    NoKey = NoKey
    MaxCalls <- MCMaxCalls
    MaxPlans = 3
    NoEntry = NoEntry
    NoPlan = NoPlan
    Idle = Idle
INVARIANTS
    TypeOK
    GatedRunIsApproved
    ApprovalUsedOnce
    AuditedUnlessCutShort
PROPERTY ImplementsApprovals

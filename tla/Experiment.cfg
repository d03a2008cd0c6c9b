SPECIFICATION Spec
CONSTANTS
    PriceUnit = 4
    InputPrice = 4
    OutputPrice = 2
    OutputCap = 3
    Estimate = 1
    Margin = 1
    MinSupport = 2
    MaxAge = 1
    Worlds = {1, 2}
    Streams <- MCStreams
    Usages <- MCUsages
    CausalMethods <- MCMethods
    Evidence <- MCEvidence
    SettlementDelay = 1
    TraceMethods <- MCTraceMethods
    TraceEvidence <- MCTraceEvidence
    TraceStreams <- MCTraceStreams
    TraceUsages <- MCTraceUsages
    Tenants <- MCTenants
    Publishers = {1, 2}
    Plans <- MCPlans
    MaxRestarts = 1
    MaxPowerLosses = 1
    Writers = {1, 2}
    AuditRequests = {1, 2}
    EventIDs = {1, 2, 3}
    LastWindow = 2
    BatchSize = 2
INVARIANTS
    CausalRunIsSound
    TraceIsVerifiable
    
    
CHECK_DEADLOCK FALSE

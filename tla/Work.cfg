SPECIFICATION ExpiryLiveSpec
CONSTANTS
    t1 = t1
    r1 = r1
    r2 = r2
    p1 = p1
    w1 = w1
    w2 = w2
    Tenants = {t1}
    Requests = {r1}
    Items = {r1}
    Owner <- OneOwner
    Policies = {p1}
    PolicyBudget <- OneBudget
    Costs = {1}
    Actuals = {1}
    Adjusted = {2}
    Payments = {0}
    MaxWindow = 1
    MaxVersion = 1
    Workers = {w1, w2}
    MaxAttempts = 2
    MaxStalls = 1
    MaxCrashes = 1
CHECK_DEADLOCK FALSE

    
PROPERTIES
    AckIsOfLatestClaim
    WorkEnds

SPECIFICATION GatewaySpec
CONSTANTS
    t1 = t1
    r1 = r1
    r2 = r2
    p1 = p1
    s1 = s1
    s2 = s2
    s3 = s3
    Tenants = {t1}
    Requests = {r1, r2}
    Owner <- OneOwner
    Policies = {p1}
    PolicyBudget <- OneBudget
    Costs = {2}
    Actuals = {1, 3}
    Adjusted = {3}
    Payments = {0}
    MaxWindow = 2
    MaxVersion = 1
    Streams = {s1, s2, s3}
    RequestOf <- Carried
SYMMETRY SameRequest
INVARIANTS
    OneProviderCall
    CalledIsNeverReleased
    AnsweredIsSettled

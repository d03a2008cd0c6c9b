SPECIFICATION MemorySpec
CONSTANTS
    t1 = t1
    r1 = r1
    r2 = r2
    p1 = p1
    Tenants = {t1}
    Requests = {r1, r2}
    Owner <- OneOwner
    Policies = {p1}
    PolicyBudget <- OneBudget
    Costs = {2}
    Actuals = {1, 3}
    Adjusted = {4}
    Payments = {0, 1}
    MaxWindow = 2
    MaxVersion = 2
SYMMETRY RequestSymmetry
INVARIANTS
    MemoryBooks

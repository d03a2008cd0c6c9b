SPECIFICATION Spec
CONSTANTS
    t1 = t1
    r1 = r1
    r2 = r2
    p1 = p1
    Tenants = {t1}
    Requests = {r1, r2}
    Owner <- OneOwner
    Policies = {p1}
    PolicyBudget <- OneBudget
    Costs = {2}
    Actuals = {1, 3}
    Adjusted = {4}
    Payments = {1}
    MaxWindow = 3
    MaxVersion = 3
SYMMETRY RequestSymmetry
INVARIANTS
    TypeOK
    BooksBalance
    ExposureCoversCeiling
    
PROPERTIES
    CommitmentGrowth
    

SPECIFICATION PlacementSpec
CONSTANTS
    Evidences = {n1}
    Nodes = {n1, n2}
    NodeOf <- mcNodeOf
    Pods = {p1}
    Specs <- mcSpecs
    InitialSpec <- Lax
    ExpectedTEE = "tdxvm"
    MaxTokenAge = 0
    RevocationTTL = 1
    MaxReports = 2
    MaxClock = 2
    MaxEdits = 1
INVARIANT AttestationTypeOK
PROPERTIES BoundWasChecked BoundNodeAttested
CHECK_DEADLOCK FALSE

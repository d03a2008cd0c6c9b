SPECIFICATION Spec
CONSTANTS
    Candidates = {"a", "b"}
    Datasets <- mcDatasets
    IDs <- mcIDs
    Initially <- mcInitially
    MaxUID = 2
    MaxGen = 2
    MaxGateEdits = 1
    MaxFaults = 1
INVARIANTS
    EvidenceIsOwn

    
    
CHECK_DEADLOCK FALSE

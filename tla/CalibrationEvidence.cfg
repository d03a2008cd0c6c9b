SPECIFICATION FairSpec
CONSTANTS
    Scenarios <- MCScenarios
    p1 = p1
    p2 = p2
    MaxTokens = 2
    Producers = {p1, p2}
    Fair = p1
    Versions = {1}
    Thresholds = {0, 50}
    Target = 60
    Scale = 100
    MinimumSupport = 1
    MaxEdits = 2
INVARIANTS
    EvidenceIsSound
    AcceptedIsJudged

    
CHECK_DEADLOCK FALSE

SPECIFICATION ChangeLiveSpec
CONSTANTS
    None = None
    alice = alice
    bob = bob
    Users = {alice, bob}
    Reviewers = {alice}
    Names = {1}
    MaxTime = 2
    Ends = {2}
    MaxUid = 2
    MaxEdits = 1
    StaleAfter = 1
INVARIANTS
    ApprovalIsGenuine
    AdmittedScopeWasCurrent
PROPERTIES
    DecisionIsFinal
    LapsedIsClosed

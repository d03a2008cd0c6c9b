SPECIFICATION AdmissionSpec
CONSTANTS
    MaxInt64 = 2000000000
    Precision = 2
    Models = {1, 2}
    PriceLists <- MCPriceLists
    Calls <- MCCalls
    FirstList <- MCFirstList
    ModelSpec <- MCModelSpec
    Edited = {1}
    MaxEdits = 2
    MaxClock = 1
    MaxUsage = 4
CHECK_DEADLOCK FALSE
INVARIANTS
    StrictCovers
    UsageIsPriced
    ChoiceIsBest

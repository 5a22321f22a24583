SPECIFICATION FairSpec
CONSTANTS
    NumCalls = 3
    Attempts = 2
    MaxCulls = 1
    MaxFaults = 2
INVARIANT SessionInv
PROPERTY FetchesEnd
CHECK_DEADLOCK FALSE

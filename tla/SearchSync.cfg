SPECIFICATION FairSpec
CONSTANTS
    NumCollections = 1
    NumObjects = 1
    NumFresh = 0
    NumStaff = 1
    MaxOps = 2
    MaxFaults = 2
    NumTicks = 2
    BatchSize = 2
    MaxAttempts = 2
    Rebuilds = TRUE
INVARIANTS  OnlyPoisonIsParked
 
CHECK_DEADLOCK FALSE

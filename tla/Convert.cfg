SPECIFICATION FairSpec
CONSTANTS
    NumRows = 2
    MaxAttempts = 2
    MaxChecks = 2
    MaxRestarts = 2
    MaxFaults = 1
INVARIANTS QueueInv 
PROPERTY RowsSettle
CHECK_DEADLOCK FALSE

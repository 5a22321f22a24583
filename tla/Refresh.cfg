SPECIFICATION FairSpec
CONSTANTS
    NumObjects = 2
    NumBatches = 1
    NumRequests = 1
    NumRows = 2
    NumTicks = 1
    ChunkSize = 1
    Concurrency = 2
    MaxAttempts = 2
    RotateTokens = TRUE
    MaxFaults = 1
    MaxOps = 2
INVARIANTS CountersHonest UndisturbedIsClean
PROPERTIES ClosedStaysClosed RowsSettle ImplementsLedger
CHECK_DEADLOCK FALSE

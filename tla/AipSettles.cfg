SPECIFICATION FairSpec
CONSTANTS
    NumAips = 2
    Held = {1}
    NumBackfill = 1
    NumStaff = 1
    Concurrency = 2
    Stage6Serial = TRUE
    ScanWindow = 2
    ChunkSize = 1
    MaxAttempts = 2
    NotFoundMax = 2
    MaxFaults = 1
    MaxOps = 1
INVARIANTS OneCopy CompleteIsStored BudgetKept
PROPERTIES OnlyDueCopiesStart RowsSettle

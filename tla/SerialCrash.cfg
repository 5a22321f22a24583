SPECIFICATION FairSpec
CONSTANTS
    NumRows = 2
    BatchSize = 2
    NumTicks = 2
    NumStaff = 0
    Concurrency = 2
    PipelineSerial = TRUE
    AmParallel = FALSE
    OverlapClaims = FALSE
    DipCopy = FALSE
    AipEnabled = FALSE
    MaxFaults = 1
    MaxOps = 0
INVARIANTS TypeOK  OneInArchivematica
PROPERTY BatchDrains
CHECK_DEADLOCK FALSE

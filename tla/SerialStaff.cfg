SPECIFICATION Spec
CONSTANTS
    NumRows = 2
    BatchSize = 2
    NumTicks = 1
    NumStaff = 1
    Concurrency = 2
    PipelineSerial = TRUE
    AmParallel = FALSE
    OverlapClaims = FALSE
    DipCopy = FALSE
    AipEnabled = FALSE
    MaxFaults = 0
    MaxOps = 1
INVARIANTS OneInArchivematica ObjectHasAip
CHECK_DEADLOCK FALSE

SPECIFICATION Spec
CONSTANTS
    NumRows = 1
    BatchSize = 1
    NumTicks = 1
    NumStaff = 2
    Concurrency = 2
    PipelineSerial = TRUE
    AmParallel = FALSE
    OverlapClaims = FALSE
    DipCopy = TRUE
    AipEnabled = TRUE
    MaxFaults = 1
    MaxOps = 2
INVARIANTS StageInputs CompleteHasObject RepeatsNeedFaults
CHECK_DEADLOCK FALSE

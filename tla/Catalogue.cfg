SPECIFICATION CatalogueSpec
CONSTANTS
    NumCollections = 2
    NumObjects = 1
    NumFresh = 2
    NumStaff = 2
    MaxOps = 2
    MaxFaults = 1
    Suffixes = {h1}
INVARIANTS NoCycle NothingHalfDeleted RecordHonest
PROPERTY PublicBelowPublic
CHECK_DEADLOCK FALSE

SPECIFICATION Spec
CONSTANTS
    NumFiles = 2
    Titles = {0, 1}
    MaxParts = 2
    Urls = {u1}
    Refreshers = {w1, w2}
    MaxWrites = 3
INVARIANTS  RefreshSettles UploadShows
 
SYMMETRY Interchangeable
CHECK_DEADLOCK FALSE

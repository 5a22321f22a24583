SPECIFICATION Spec
CONSTANTS
    f1 = f1
    f2 = f2
    p1 = p1
    p2 = p2
    x1 = x1
    x2 = x2
    s1 = s1
    s2 = s2
    Sessions = {s1, s2}
    Holds <- TwoFolders
    MaxRuns = 3
    MaxRows = 2
SYMMETRY Alike
INVARIANTS WorkspaceInv StageFiveFindsIds  HiddenWasChecked
CHECK_DEADLOCK FALSE

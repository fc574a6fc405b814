SPECIFICATION Spec
CONSTANTS
    Jobs = {j1, j2}
    Keys = {k1}
    Procs = {p1, p2}
    Requests <- MCRequests
    None = None
    EpochBlockSize = 2
    DropsPages = FALSE
    MaxLog = 4
    MaxEpoch = 4
    MaxCrashes = 1
    MaxFaults = 0
SYMMETRY Symmetry
INVARIANT
    DedupedSurvive

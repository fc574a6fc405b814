SPECIFICATION Spec
CONSTANTS
    Jobs = {j1, j2}
    Keys = {k1}
    Procs = {p1, p2}
    Requests <- MCRequests
    None = None
    EpochBlockSize = 2
    DropsPages = TRUE
    MaxLog = 4
    MaxEpoch = 4
    MaxCrashes = 1
    MaxFaults = 1
SYMMETRY Symmetry
INVARIANT
    AcceptedSurvive

SPECIFICATION SnapSpec
CONSTANTS
    Jobs = {j1, j2}
    Keys = {}
    Procs = {p1}
    Requests <- MCRequests
    None = None
    EpochBlockSize = 1
    DropsPages = FALSE
    MaxLog = 5
    MaxEpoch = 2
    MaxCrashes = 2
    MaxFaults = 0
    SnapshotsKept = 1
    MaxSnapshots = 2
    MaxUnreadable = 0
SYMMETRY Symmetry
INVARIANT
    AcceptedSurviveSnapshots

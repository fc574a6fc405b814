SPECIFICATION FairSpec
CONSTANTS
    Procs = {p1, p2}
    Flusher = flusher
    None = None
    MaxSegmentSize = 1
    MaxAppends = 2
    MaxFaults = 1
    MaxCrashes = 1
PROPERTY
    CallersReturn

SPECIFICATION Spec
CONSTANTS
    Procs = {p1, p2}
    Flusher = flusher
    None = None
    MaxSegmentSize = 2
    MaxAppends = 3
    MaxFaults = 1
    MaxCrashes = 1
SYMMETRY Symmetry
INVARIANTS
    WalTypeOK
    ConfirmedReadable
    ReplayInOrder
    NoLostWaiter
PROPERTIES
    ImplementsDurableLog
    ReadableStays

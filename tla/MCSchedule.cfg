SPECIFICATION Spec
CONSTANTS
    WordBits = 6
    MaxBackoffShift = 3
    DefaultBackoffBase = 2
    DefaultBackoffCap = 4
    Jobs = {1, 2}
    q1 = q1
    q2 = q2
    Queues <- MCQueues
    Served <- MCServed
    Requests <- MCRequests
    MaxRetries = 1
    BackoffBase = 2
    BackoffCap = 4
    DispatchTick = 2
    MaxTime = 2
    MaxFaults = 2
    MaxLost = 1
INVARIANTS
    SchedTypeOK
    EntriesExact
    NoticedWithinTick
    BackoffSound
PROPERTY
    BestFirst

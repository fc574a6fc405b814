SPECIFICATION Spec
CONSTANTS
    j1 = j1
    j2 = j2
    Jobs = {j1, j2}
    None = None
    MaxRetries <- Retries
    MaxInFlight = 1
    MaxStreams = 2
    MaxEvents = 4
    Milli = 2
    Second = 6
    DefaultLease = 8
    MaxLease = 12
INVARIANT
    RenewedWorkContinues

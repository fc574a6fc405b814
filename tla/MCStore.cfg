SPECIFICATION Spec
CONSTANTS
    Jobs = {j1, j2}
    Keys = {k1}
    Procs = {p1, p2}
    Requests <- MCRequests
    None = None
    EpochBlockSize = 2
    DropsPages = FALSE
    MaxLog = 6
    MaxEpoch = 4
    MaxCrashes = 2
    MaxFaults = 1
SYMMETRY Symmetry
INVARIANTS
    TypeOK
    AcceptedSurvive
    CompletedStayDone
    OneVerdict
    TokensIncrease
    OnlyNewestLeaseHolds
    RecoveryAgrees
    NoneStranded
    LeasedSetExact
    OneJobPerKey
    Inductive
PROPERTIES
    BudgetCharged
    PoisonFreezesJobs
    ImplementsJobQueue

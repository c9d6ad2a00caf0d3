SPECIFICATION KSpec
CONSTANTS
    Cpus = 2
    Task = {k1, k2, k3}
    CpuOf <- TaskCpu
    Windows = 2
    Frame = {1, 2}
    Mapper = {k2, k3}
    k1 = k1
    k2 = k2
    k3 = k3
    k4 = k4
    k0 = k0
    NULL = NULL
CHECK_DEADLOCK FALSE
INVARIANTS
    RequestsAnswered
    NoLostWakeup
    PriorityRestoredUnnested
    WindowIsFresh
    MemoryIsConserved
    NothingIsLost
    TimeWasShown
    DriversAreWhole
PROPERTIES
    TickPicksTheBest
    InterruptsRestored

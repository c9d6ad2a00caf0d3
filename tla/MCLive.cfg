SPECIFICATION LiveSpec
CONSTANTS
    r1 = r1
    p1 = p1
    p2 = p2
    NULL = NULL
    Creator = Creator
    Destroyers = {r1}
    PvSpin = FALSE
    PanicOnBug = TRUE
    Policy = "MCQS"
    N = 3
    CpuOf <- ThreeOnTwo
INVARIANTS
    TypeOK
    CountedOnce
    FinalizedWhenAllTerminated
    FailureFindsPartition
PROPERTIES
    TerminatedStays
    TeardownCompletes
    ShootdownReturns
CHECK_DEADLOCK FALSE

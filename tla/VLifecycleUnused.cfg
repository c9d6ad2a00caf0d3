SPECIFICATION FairSpec
CONSTANTS
    r1 = r1
    r2 = r2
    p1 = p1
    p2 = p2
    NULL = NULL
    Creator = Creator
    Destroyers = {r1}
    PvSpin = FALSE
    PanicOnBug = TRUE
    Policy = "MCQS"
    N = 2
    CpuOf <- TwoOnTwo
INVARIANT
    NotifiedMeansUnused

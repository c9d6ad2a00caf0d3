SPECIFICATION FairSpec
CONSTANTS
    r1 = r1
    r2 = r2
    p1 = p1
    p2 = p2
    NULL = NULL
    Creator = Creator
    Destroyers = {r1}
    PvSpin = TRUE
    PanicOnBug = FALSE
    Policy = "MCQS"
    N = 2
    CpuOf <- TwoOnTwo
PROPERTY
    KickedIsSpinning

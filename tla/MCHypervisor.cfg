SPECIFICATION HvSpec
CONSTANTS
    v1 = v1
    v2 = v2
    u1 = u1
    u2 = u2
    t1 = t1
    t2 = t2
    t3 = t3
    p1 = p1
    p2 = p2
    r1 = r1
    creator = creator
    NMI = NMI
    EXC = EXC
    IDLE = IDLE
    NULL = NULL
CHECK_DEADLOCK FALSE
INVARIANTS
    NoInterruptIsMissed
    SubscribersHear
    ShootdownIsComplete
    TimersOnTime
    RoutesAreGrants
    QueuesHoldTheReady
    SliceEnds
    EmulatedOnce
    EnteredAsAsked
PROPERTIES
    LevelsAreGranted
    TerminatedForGood

SPECIFICATION FairSpec
CONSTANTS
    c1 = c1
    c2 = c2
    c3 = c3
    Ctx = {c1, c2, c3}
    ReaderMod = 4
    TicketMod = 4
INVARIANT
    ReaderFlagsRestored

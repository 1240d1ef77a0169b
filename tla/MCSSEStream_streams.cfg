CONSTANTS
    u1 = u1
    Users = {u1}
    Bots = {b1, b2}
    Resps = {p1, p2}
    Conns = {c1, c2}
    NoUser = NoUser
    NoBot = NoBot
    NoResp = NoResp
    UserOf <- OneUser
    Limit = 1
    EndCap = 1
    Grace = 1
    GaugeBound = 2
    Room = 3
SPECIFICATION FairSpec
INVARIANTS TypeOK SlotAccounting
PROPERTIES ImplementsSlots ShutDrains DialogEnds GaugeRight
\* Every instance shut and every client gone: nothing is left to do.
CHECK_DEADLOCK FALSE

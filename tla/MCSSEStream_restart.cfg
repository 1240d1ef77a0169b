CONSTANTS
    u1 = u1
    Users = {u1}
    Bots = {b1, b2}
    Resps = {p1}
    Conns = {c1, c2}
    NoUser = NoUser
    NoBot = NoBot
    NoResp = NoResp
    UserOf <- OneUser
    Limit = 2
    EndCap = 1
    Grace = 1
    GaugeBound = 3
    Room = 3
SPECIFICATION Spec
PROPERTY ReconnectKeepsDialog
\* Every instance shut and every client gone: nothing is left to do.
CHECK_DEADLOCK FALSE

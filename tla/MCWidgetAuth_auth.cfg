CONSTANTS
    Users = {u1}
    Resps = {p1}
    Origins = {o1, o2}
    Jtis = {j1, j2}
    Conns = {c1, c2}
    TTL = 1
    Never = Never
    NoJti = NoJti
    NoCode = NoCode
    NoClaim = NoClaim
    MaxNow = 1
    MaxCodes = 1
SPECIFICATION Spec
SYMMETRY Symmetry
INVARIANTS TypeOK SessionRooted GrantsBacked

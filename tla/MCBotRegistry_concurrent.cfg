CONSTANTS
    Users = {u1}
    Bots = {b1, b2}
    Requests = {r1, r2}
    Patience = 1
    NoUser = NoUser
    NoBot = NoBot
SPECIFICATION Spec
INVARIANT ReplacedIsStopped

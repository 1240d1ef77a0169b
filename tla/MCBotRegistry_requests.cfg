\* Three requests for one user: the fewest of which two create and one stops.
CONSTANTS
    Users = {u1}
    Bots = {b1, b2, b3}
    Requests = {r1, r2, r3}
    Patience = 1
    NoUser = NoUser
    NoBot = NoBot
SPECIFICATION FairSpec
INVARIANTS TypeOK ShutOnce RegisteredLive
PROPERTIES ImplementsInstances SerialStops StopReturns DeadBotLeaves

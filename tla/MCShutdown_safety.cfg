CONSTANTS
    Users = {u1, u2}
    Bots = {b1, b2}
    NoBot = NoBot
    Producers = {p1, p2}
    Listener = listener
SPECIFICATION FairSpec
\* The process ends.
CHECK_DEADLOCK FALSE
INVARIANTS TypeOK CloseAfterProducers StopReachesAll
PROPERTY SignalExits

CONSTANTS
    Users = {u1}
    Bots = {b1}
    NoBot = NoBot
    Producers = {p1}
    Listener = listener
SPECIFICATION Spec
\* The process ends.
CHECK_DEADLOCK FALSE
INVARIANT SavedBeforeClose

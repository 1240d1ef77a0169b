\* One respondent, one request at a time, no call fails and no key expires.
CONSTANTS
    Senders = {s1}
    Handlers = {h1}
    MaxInst = 2
    HasCache = TRUE
    MayFail = {}
    None = None
SPECIFICATION Spec
CHECK_DEADLOCK FALSE
INVARIANT FirstOnce

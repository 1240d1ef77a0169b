\* One respondent, two handlers, two instances, every call may fail.
CONSTANTS
    Senders = {s1}
    Handlers = {h1, h2}
    MaxInst = 2
    HasCache = TRUE
    MayFail = {"redis", "channel", "crm", "ttl"}
    None = None
SPECIFICATION Spec
SYMMETRY Symmetry
\* The last instance may be stopped and every request answered.
CHECK_DEADLOCK FALSE
INVARIANTS
    TypeOK
    RecordedFirst
    WarmCovers
    DialogOpened

\* One respondent, whose second channel replaces a cleaned one.
CONSTANTS
    Resps = {p1}
    Conns = {c1, c2}
    Watched = {c1}
    Bots = {1}
    Chans = {1, 2}
    Msgs = {m1}
    Ids = {1, 2}
    NoResp = NoResp
    NoBot = 0
    NoCh = 0
    StartCap = 1
SPECIFICATION FairSpec
\* The instance may be stopped, and the handlers done.
CHECK_DEADLOCK FALSE
INVARIANTS TypeOK StartsServed SilentExplained
PROPERTIES ImplementsConversation LossExplained MessageAnswered ClosedChannelLeft

SPECIFICATION FairSpec
CONSTANTS
    p1 = p1
    p2 = p2
    t1 = t1
    t2 = t2
    None = None
    Junk = Junk
    Display = Display
    Peers = {p1, p2}
    NMons = 1
    Clients = {}
    Tags = {t1, t2}
    Requests <- Mixed
    Leavers = {p1}
    MaxRequests = 2
    Cap = 1
    MaxBuffer = 2
INVARIANTS ArmedPending AnsweredInOrder EventsChain SubscriberKnows
PROPERTIES Answered BlockedByPeersOnly
CHECK_DEADLOCK FALSE

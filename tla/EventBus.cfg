SPECIFICATION FairSpec
CONSTANTS
    w1 = w1
    w2 = w2
    p1 = p1
    p2 = p2
    k1 = k1
    Workspaces = {w1, w2}
    Publishers = {p1, p2}
    Watchers = {k1}
    All = All
    Nobody = Nobody
    Waits = {{}, {"gate", "stopped"}}
    BufferSize = 1
    MaxWork = 3
INVARIANTS ViewIsCurrentUnlessSlip
PROPERTIES WaitReturns FeedSpec

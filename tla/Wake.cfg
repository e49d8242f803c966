SPECIFICATION FairSpec
CONSTANTS
    Calls = {c1}
    Wakers = {w1}
    WakeMaxSends = 2
CONSTRAINTS StopEarly NoSlip
INVARIANTS NoLostWakeUnlessSlip HandsOutCurrentTask
PROPERTY NobodyWaitsForEver

SPECIFICATION ActivitySpec
CONSTANTS
    Reqs = {1}
    MaxRuns = 2
    MaxFlight = 1
    MaxBreaks = 1
    MaxStrain = 1
INVARIANTS
    ShownIsTrueUnlessSlip
    EndAndWaitAreShownUnlessSlip
CONSTRAINTS StillPromised OneTrouble
CHECK_DEADLOCK FALSE

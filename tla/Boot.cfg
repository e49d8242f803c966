SPECIFICATION Spec
CONSTANTS
    Edited = {"settings", "workflows", "reviews", "images", "claude", "pitfalls"}
    Broken <- BrokenEdits
    MaxEdits = 1
    MaxUpgrades = 1
    MaxRestarts = 2
    MaxVMs = 3
    MaxFaults = 1
INVARIANTS
    RunsWhatWasCheckedUnlessUpgraded
    FailuresLeaveNothingUnlessInterrupted
    RecordIsOfTheNameUnlessSlip
CONSTRAINT ImagesInOrder
CHECK_DEADLOCK FALSE

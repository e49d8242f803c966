SPECIFICATION Spec
CONSTANTS
    Files <- MCFiles
    Plan <- MCPlan
    Byproducts <- MCByproducts
    step1 = step1
    step2 = step2
    occ1 = occ1
    occ2 = occ2
    Steps <- MCSteps
    Occurrences <- MCOccurrences
    MaxEdits = 2
    MaxCommits = 3
    MaxFaults = 2
INVARIANTS
    BranchIsAllowedAndShown
    GuestHeadKnown
PROPERTIES
    WorkIsKept
SYMMETRY Symmetry
CHECK_DEADLOCK FALSE

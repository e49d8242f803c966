SPECIFICATION MCSpec
CONSTANTS
    MaxCommits = 2
    MaxUser = 1
    MaxFaults = 2
    Procs = {p1, p2, p3}
    MaxAsks = 2
    MaxSwaps = 2
    Depth = 3
    Patterns <- SomePatterns
    Names <- SomeNames
    Trees <- SomeTrees
    Files <- SomeFiles
    Hosts <- SomeHosts
INVARIANTS
    OneServeIsReachedUnlessMishap
    BootsOnOwnContractUnlessMishap
    SelectsWhatPatternsSay
    DeclaredIsConsistent
PROPERTIES
    PublishKeepsUsersWork
    NothingLostAtTheEnd
SYMMETRY Symmetry
CHECK_DEADLOCK FALSE

SPECIFICATION FilesSpec
CONSTANTS
    Keys = {k1, k2}
    Users = {u1, u2}
    MaxValue = 1
    Runs <- MCRuns
    Findings = {"f1"}
    Remarks = {"r1"}
    Tasks <- MCTasks
SYMMETRY Alike
INVARIANTS CommentsKept ContinuesToItsSubagent
PROPERTY PromisedUnlessTwo
CHECK_DEADLOCK FALSE

CONSTANTS
    GateOccs = {gate}
    FixedOccs = {fix}
    RoleOccs = {ask}
    Clients = {c1, c2}
    Askers = {a1, a2}
    Hashes = {"h1", "h2"}
    MaxOpen = 3
    MaxFaults = 1
SPECIFICATION MCSpec
INVARIANTS
    GateRecordsTrue
    QuestionsAreTrue
PROPERTIES
    ApprovalIsOfWhatWasSeen
    AnsweredReturns
CHECK_DEADLOCK FALSE

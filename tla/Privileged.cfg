SPECIFICATION MCSpec
CONSTANTS
    Callers = {c1, c2}
    Plain = {"p"}
    Secret = {"s"}
    MaxRuns = 2
    MaxCommits = 2
    MaxFaults = 1
INVARIANTS
    SecretsStayInside
    RecordsAreTrueUnlessLate
PROPERTY CallsEnd
CHECK_DEADLOCK FALSE

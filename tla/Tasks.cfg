SPECIFICATION TasksSpec
CONSTANTS
    Plans <- MCPlans
    Bad <- MCBad
    Reports <- MCReports
    r1 = r1
    r2 = r2
    MaxOcc = 5
    MaxRuns = 2
INVARIANTS
    RecordsAreOfTheReportUnlessSlip
    EndShowsItsReasonUnlessSlip
    StepsAreDoneOnceUnlessRenumbered
CHECK_DEADLOCK FALSE
SYMMETRY Alike
CONSTRAINT FewSlips

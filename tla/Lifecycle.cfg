SPECIFICATION Spec
CONSTANTS
    r1 = r1
    r2 = r2
    Runs = {r1, r2}
    Callers = {"loop", "direct", "ask"}
    MaxActive = 2
INVARIANTS
    OneRunAtATime
    StateAndVMAgreeUnlessSlip
PROPERTIES
    StoppedAndLiveStayUnlessSlip
SYMMETRY Symmetry
CONSTRAINTS NoSlip Few

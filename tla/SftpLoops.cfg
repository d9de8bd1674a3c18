SPECIFICATION Spec
CONSTANTS
    Observations = {o1, o2}
    Loops = {l1, l2}
    Rule = "CreateAndUpdate"
    PageSize = 2
    Timeout = 1
    MaxTime = 5
    MaxAdmin = 2
    MaxFaults = 1
    None = None
SYMMETRY Symmetry
INVARIANTS
    TypeOK
    StopClearsTimer
    SuccessIsUploaded
    NothingSlips
PROPERTIES
    RemoteNeverRegresses
CHECK_DEADLOCK FALSE
CONSTRAINT UntilOverlap

SPECIFICATION FairSpec
CONSTANTS
    Exports = {x1, x2}
    Readers = {r1}
    MaxFaults = 1
    MaxCrashes = 1
    None = None
INVARIANTS
    TypeOK
    CompletedIsWhole
    RunningHasWriter
    OnlyKnownStrays
    CompletedReadsWhole
PROPERTIES
    SettledStays
    ExpiredReclaimed

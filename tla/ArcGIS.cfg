SPECIFICATION FairSpec
CONSTANTS
    LastId = 2
    PageSize = 1
    MaxBatches = 2
    MaxChains = 1
    MaxTime = 3
    MaxUpsets = 2
INVARIANTS
    TypeOK
    OneFeature
PROPERTIES
    EditsReachLayer

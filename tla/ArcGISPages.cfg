SPECIFICATION FairSpec
CONSTANTS
    LastId = 2
    PageSize = 1
    MaxBatches = 1
    MaxChains = 1
    MaxTime = 3
    MaxUpsets = 0
PROPERTIES
    EditsReflected

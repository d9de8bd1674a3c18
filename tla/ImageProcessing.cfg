SPECIFICATION FairSpec
CONSTANTS
    Images = {a1, a2}
    BatchSize = 1
    MaxUploads = 2
    MaxConfigs = 1
    MaxFaults = 1
INVARIANTS
    TypeOK
    NewestUploadKept
    NoOtherChain
PROPERTIES
    EventuallyOriented
    DisabledStops
CHECK_DEADLOCK FALSE

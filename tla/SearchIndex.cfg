SPECIFICATION FairSpec
CONSTANTS
    LastId = 2
    Entries = {e1, e2}
    Requests = {r1}
    Boot = Boot
    BatchSize = 1
    Existing = {e1}
    Edited = {1}
    MaxSaves = 2
    MaxMishaps = 1
INVARIANTS
    TypeOK
    OneIndexer
    NeverStale
PROPERTIES
    SavedIsFound
    ClaimReleased
CHECK_DEADLOCK FALSE

SPECIFICATION FairSpec
CONSTANTS
    u1 = u1
    u2 = u2
    Uploads = {u1, u2}
    None = None
    Attachments = {1, 2}
    Saved = {1, 2}
    Target <- TargetEach
    Malware = {u2}
    Editors = {}
    RetryLimit = 2
    BatchSize = 1
    MaxEdits = 0
    MaxFaults = 2
INVARIANTS
    AckedUploadTracked
    RetriesBeforeGivingUp
PROPERTIES
    KeepsPromise

SPECIFICATION FairSpec
CONSTANTS
    u1 = u1
    u2 = u2
    Uploads = {u1, u2}
    None = None
    Attachments = {1, 2}
    Saved = {1}
    Target <- TargetTwice
    Malware = {u2}
    Editors = {e1}
    RetryLimit = 2
    BatchSize = 1
    MaxEdits = 2
    MaxFaults = 1
INVARIANTS
    TypeOK
    SuccessHasContent
PROPERTIES
    RemovedStaysRemoved
    PendingSettles

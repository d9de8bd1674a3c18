SPECIFICATION Spec
CONSTANTS
    u1 = u1
    u2 = u2
    Uploads = {u1, u2}
    None = None
    Attachments = {1, 2}
    Saved = {1}
    Target <- TargetTwice
    Malware = {}
    Editors = {}
    RetryLimit = 2
    BatchSize = 1
    MaxEdits = 0
    MaxFaults = 0
INVARIANTS
    AckedUploadTracked

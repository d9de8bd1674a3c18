SPECIFICATION Spec
CONSTANTS
    u1 = u1
    u2 = u2
    Uploads = {u1, u2}
    None = None
    Attachments = {1}
    Saved = {1}
    Target <- TargetTwice
    Malware = {u2}
    Editors = {e1, e2}
    RetryLimit = 1
    BatchSize = 1
    MaxEdits = 2
    MaxFaults = 0
INVARIANTS
    OnlyScannedContentPublished

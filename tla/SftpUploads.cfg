SPECIFICATION FairSpec
CONSTANTS
    Observations = {o1, o2, o3}
    Loops = {l1}
    Rule = "CreateAndUpdate"
    PageSize = 2
    Timeout = 1
    MaxTime = 5
    MaxAdmin = 0
    MaxFaults = 0
    None = None
PROPERTIES
    LatestVersionUploaded

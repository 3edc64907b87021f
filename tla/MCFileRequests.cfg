SPECIFICATION Spec
CONSTANTS
    p1 = p1
    p2 = p2
    p3 = p3
    Gone = Gone
    Threads = {1, 2}
    Providers = {p1, p2}
    Capacity <- MCSmall
    FirstAt <- MCOneBlock
    Requests = {"upload", "rename", "removeVersion", "removeFile", "pull"}
    MaxUploads = 2
    MaxRequests = 3
    MaxFaults = 1
    MaxCorrupt = 0
    MaxCrashes = 0
    MaxBatches = 0
    MaxAudits = 1
INVARIANTS
    TypeOK
    ListedIsStored
    VersionsKept
CHECK_DEADLOCK FALSE

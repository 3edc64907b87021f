SPECIFICATION Spec
CONSTANTS
    p1 = p1
    p2 = p2
    p3 = p3
    Gone = Gone
    Threads = {1, 2}
    Providers = {p1, p2, p3}
    Capacity <- MCCapacity
    FirstAt <- MCFirstAt
    Requests = {"rename", "removeVersion", "removeFile", "pull"}
    MaxUploads = 0
    MaxRequests = 1
    MaxFaults = 1
    MaxCorrupt = 2
    MaxCrashes = 1
    MaxBatches = 2
    MaxAudits = 0
INVARIANTS
    SpaceIsReal
PROPERTIES
    RestoreEnds
CHECK_DEADLOCK FALSE

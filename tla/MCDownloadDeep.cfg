SPECIFICATION Spec
CONSTANTS
    q1 = q1
    q2 = q2
    d1 = d1
    d2 = d2
    d3 = d3
    p1 = p1
    p2 = p2
    Requests = {q1}
    Batch <- DeepBatch
    Data <- DeepData
    Parity <- DeepParity
    Providers = {p1, p2}
    Location <- DeepLocation
    MaxDownloads = 2
    MaxOpenFiles = 6
    BlockQSize = 1
    WorkQSize = 1
    TempMayFail = FALSE
    NoBlock = NoBlock
CHECK_DEADLOCK FALSE
PROPERTY
    RequestsReturn

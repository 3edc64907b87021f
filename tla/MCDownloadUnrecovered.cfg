SPECIFICATION Spec
CONSTANTS
    q1 = q1
    q2 = q2
    d1 = d1
    d2 = d2
    d3 = d3
    p1 = p1
    p2 = p2
    Requests = {q1, q2}
    Batch <- WideBatch
    Data <- WideData
    Parity <- WideParity
    Providers = {p1, p2}
    Location <- WideLocation
    MaxDownloads = 2
    MaxOpenFiles = 2
    BlockQSize = 1
    WorkQSize = 1
    TempMayFail = TRUE
    NoBlock = NoBlock
CHECK_DEADLOCK FALSE
INVARIANT
    SubmittedAreRecovered

SPECIFICATION Spec
CONSTANTS
    q1 = q1
    q2 = q2
    u1 = u1
    u2 = u2
    u3 = u3
    a1 = a1
    a2 = a2
    d1 = d1
    e1 = e1
    c1 = c1
    c2 = c2
    p1 = p1
    p2 = p2
    Requests = {q1, q2}
    Folders = {q1}
    Batch <- CrowdBatch
    BlocksOf <- CrowdBlocks
    Workers = {w1, w2}
    Contracts = {c1}
    Providers = {p1}
    ProviderOf <- CrowdProviderOf
    Capacity <- CrowdCapacity
    PrepareMayFail = TRUE
    NoUpload = NoUpload
    NoBlock = NoBlock
    NoContract = NoContract
CHECK_DEADLOCK FALSE
INVARIANTS
    UndoIsComplete
PROPERTIES
    RequestsReturn

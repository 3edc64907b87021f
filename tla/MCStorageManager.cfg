SPECIFICATION Spec
CONSTANTS
    c1 = c1
    c2 = c2
    c3 = c3
    p1 = p1
    p2 = p2
    Contracts = {c1, c2, c3}
    Providers = {p1, p2}
    ProviderOf <- MCProviderOf
    Capacity <- MCCapacity
    Clients = {t1, t2}
    Estimates <- MCEstimates
    BlobSizes = {1, 2}
    MaxBlobs = 3
INVARIANTS
    TypeOK
    OneBlobPerContract
    FindIsExact
    FindSpreads
PROPERTY
    ImplementsLedger
SYMMETRY MCSymmetry

SPECIFICATION Spec
CONSTANTS
    r1 = r1
    r2 = r2
    b1 = b1
    b2 = b2
    b3 = b3
    Renters = {r1, r2}
    Blocks = {b1, b2, b3}
    Clients = {c1, c2}
    Owner <- MCOwner
    Size <- MCSize
    Spaces = {2}
    Capacities = {2, 4}
    Shared = {b2}
    Workloads <- MCWorkloads
    MaxRows = 2
    MaxDrift = 1
    NoBlock = NoBlock
    NoRenter = NoRenter
    NoSnap = NoSnap
SYMMETRY ClientSymmetry
INVARIANTS
    TypeOK
    NoOrphanRows
    PromiseKept
    OverfillBounded
    ReservedAccountsForContracts
    OvercommitBounded
    AdvertisedNeverBelowFree

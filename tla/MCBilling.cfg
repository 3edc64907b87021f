SPECIFICATION Spec
CONSTANTS
    r1 = r1
    p1 = p1
    p2 = p2
    c1 = c1
    c2 = c2
    c3 = c3
    Renters = {r1}
    Providers = {p1, p2}
    Contracts = {c1, c2, c3}
    RenterOf <- MCRenterOf
    ProviderOf <- MCProviderOf
    Fee <- MCFee
    Opening <- MCOpening
    Cents = {10}
    Duration = 2
    Handlers = {h1, h2}
    Formed <- MCFormed
    Deletable = {p1, c2}
    MaxContracts = 2
    MaxAge = 2
    MaxRequests = 1
    MaxFaults = 1
    NoUser = NoUser
    NoContract = NoContract
INVARIANTS
    TypeOK
    NeverOverdrawn
    StatementExplains
    Solvent
    NeverAhead
PROPERTY
    PaidInFull

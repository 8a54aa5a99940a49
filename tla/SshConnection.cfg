SPECIFICATION FairSpec
CONSTANTS
    Callers = {c1, c2}
    HostKeys = {k1, k2}
    Conns = {n1, n2}
    MaxTries = 3
    MaxEvents = 1
    None = None
INVARIANTS
    OneTrustedConnection
    UploadWhole
PROPERTY EveryCallReturns

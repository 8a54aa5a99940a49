SPECIFICATION FairSpec
CONSTANTS
    Requests = {r1, r2, r3}
    MaxFailures = 3
    Lockout = 2
    Window = 2
INVARIANT TypeOK
PROPERTIES
    FailuresKeepLock
    LockExpires

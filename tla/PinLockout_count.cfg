SPECIFICATION Spec
CONSTANTS
    Requests = {r1, r2}
    MaxFailures = 3
    Lockout = 2
    Window = 2
INVARIANT ThreeFailuresLock

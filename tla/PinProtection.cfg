SPECIFICATION VerifierSpec
CONSTANTS
    Requests = {r1}
    Touchscreen = screen
    MaxLost = 2
    Reporters = {r1, screen}
    MaxFailures = 3
    Lockout = 3
    Window = 2
    Thresholds = {4}
    DefaultThreshold = 4
    Ceiling = 4
    None = None
INVARIANTS
    ThreeFailuresLock
    CountExact
    GuessesBounded
PROPERTIES
    LockEarned
    FireEarned

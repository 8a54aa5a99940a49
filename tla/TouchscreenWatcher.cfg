SPECIFICATION FairSpec
CONSTANTS
    Poll = poll
    Pushes = {push}
    StreakLimit = 3
    MaxFailures = 6
    MaxUnlocks = 1
    MaxCounted = 7
INVARIANTS
    WatcherTypeOK
    FailuresBounded
    ClearsEarned
PROPERTIES
    LockoutsCount
    SnapshotCatchesUp

SPECIFICATION Spec
CONSTANTS
    Poll = poll
    Pushes = {push}
    StreakLimit = 3
    MaxFailures = 4
    MaxUnlocks = 1
    MaxCounted = 7
INVARIANT ExpiryIsNoSuccess

SPECIFICATION Spec
CONSTANTS
    Devices = {router, second}
    Default = router
    Requests = {r1, r2}
    MaxKeys = 2
    MaxWipes = 1
    None = None
PROPERTY LockdownSafe
SYMMETRY Symmetry

SPECIFICATION FairSpec
CONSTANTS
    MaxId = 2
    Bands = {b5}
    Operators = {op}
    MaxScans = 1
INVARIANTS
    SurveillanceTypeOK
    ActiveIsScheduled
    PassesAreStored
PROPERTY SessionEnds

SPECIFICATION Spec
CONSTANTS
    MaxId = 2
    Bands = {b5}
    Operators = {op}
    MaxScans = 1
INVARIANT DeletedScansGone

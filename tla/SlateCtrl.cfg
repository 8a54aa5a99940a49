SPECIFICATION FairSpec
CONSTANTS
    Profiles = {home, travel}
    Contents = {c1}
    Appliers = {x1, x2}
    Handlers = 2
    Inodes = {i1, i2, i3}
    None = None
INVARIANTS
    TypeOK
    OneProfileApplied
PROPERTIES
    ApplyEnds
    Implements

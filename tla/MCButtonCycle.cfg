SPECIFICATION FairButtonSpec
CONSTANTS
    Profiles = {p1}
    Contents = {body}
    Appliers = {1, 2, 3}
    Actions = {act}
    Cycles <- MCCycles
    MaxPresses = 3
    MaxReboots = 1
    None = None
    p1 = p1
    act = act
INVARIANT OneChoice
PROPERTY CursorRests

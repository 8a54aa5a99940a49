SPECIFICATION FairTheftSpec
CONSTANTS
    Reporters = {p1, p2}
    Thresholds = {3}
    DefaultThreshold = 3
    Ceiling = 3
    None = None
INVARIANTS
    TheftTypeOK
    WipeComplete
PROPERTY ActionEnds

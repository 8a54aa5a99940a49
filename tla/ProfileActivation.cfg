SPECIFICATION FairSpec
CONSTANTS
    Profiles = {home, travel}
    Templates = {home}
    Contents = {c1, c2}
    Appliers = {x1, x2}
    Tasks = {t1}
    Poller = poll
    None = None
INVARIANTS
    ActivationTypeOK
    BadgeHonest
PROPERTY MarkerConverges

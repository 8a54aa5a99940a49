SPECIFICATION Spec
CONSTANTS
    Profiles = {home, travel}
    Templates = {home}
    Contents = {c1, c2}
    Appliers = {x1}
    Tasks = {t1, t2}
    Poller = poll
    None = None
INVARIANT BadgeHonest

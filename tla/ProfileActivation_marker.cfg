SPECIFICATION Spec
CONSTANTS
    Profiles = {home, travel}
    Templates = {home}
    Contents = {c1}
    Appliers = {x1}
    Tasks = {t1}
    Poller = poll
    None = None
INVARIANT MarkerNamesProfile

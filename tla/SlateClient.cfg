SPECIFICATION FairSpec
CONSTANTS
    Callers = {c1, c2, c3}
    Urls = {lan, tailnet}
    Sids = {s1, s2, s3}
    Threshold = 3
    NoSid = NoSid
    Nobody = Nobody
INVARIANTS
    TypeOK
    RequestHasSession
    SessionOnUrl
    BreakerConsistent
    OneLateLogin
PROPERTIES
    NoSessionOverwritten
    EveryCallReturns

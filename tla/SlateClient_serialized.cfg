SPECIFICATION Spec
CONSTANTS
    Callers = {c1, c2}
    Urls = {lan, tailnet}
    Sids = {s1, s2, s3}
    Threshold = 3
    NoSid = NoSid
    Nobody = Nobody
INVARIANT OneRequestPerSession

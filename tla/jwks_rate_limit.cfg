SPECIFICATION Spec
CONSTANTS
    t1 = t1
    t2 = t2
    k1 = k1
    k2 = k2
    k3 = k3
    Thread = {t1, t2}
    Kid = {k1, k2}
    Usable = {k1, k2}
    TokenKid = {k1}
    Document <- WithAndWithoutK1
    Never = Never
    Ttl = 2
    MinRefreshInterval = 2
    FetchLatency = 1
    StoreDelay = 1
    MaxTime = 1
    MaxRotations = 1
PROPERTY
    OneRefreshPerWindow

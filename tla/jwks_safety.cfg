SPECIFICATION EarlySpec
CONSTANTS
    t1 = t1
    t2 = t2
    k1 = k1
    k2 = k2
    k3 = k3
    Thread = {t1, t2}
    Kid = {k1, k2, k3}
    Usable = {k1, k2}
    TokenKid = {k1}
    Document <- WithAndWithoutUsable
    Never = Never
    Ttl = 1
    MinRefreshInterval = 2
    FetchLatency = 1
    StoreDelay = 1
    MaxTime = 3
    MaxRotations = 1
INVARIANTS
    BoundedStaleness
    FailClosed
    StampVouchesForKeys
    CacheInv
PROPERTIES
    ImplementsKeyTrust
    AttemptSpacing
    CallsEnd

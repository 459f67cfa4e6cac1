SPECIFICATION BoundarySpec
CONSTANTS
    k1 = k1
    k2 = k2
    u1 = u1
    u2 = u2
    guest = guest
    Thread = {t1, t2}
    Kid = {k1, k2}
    Subject = {u1, u2, guest}
    User = {u1, u2}
    Token <- Tokens
    NoHeader = NoHeader
    NoKid = NoKid
    Nobody = Nobody
    Never = Never
    Skew = 1
    KeyAlgorithm <- KeyTypes
    TrustWindow = 1
    MaxTime = 2
SYMMETRY ThreadSymmetry
INVARIANTS
    HandlerActsForBearer
    ExpiredTokenIsRefused
    WithdrawnKeyLosesAccess
    BoundaryInv

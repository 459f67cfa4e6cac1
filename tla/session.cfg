SPECIFICATION LiveSpec
CONSTANTS
    Request = {r1, r2, r3}
    Conn = {c1}
    User = {u1, u2}
    Unverified = Unverified
    Nobody = Nobody
INVARIANTS
    IdleIsAnonymous
    RowsBelongToTheirAuthor
    ReadsOwnRowsOnly
    BodyRunsAsCaller
    OneHolder
    SessionInv
PROPERTY
    WaitersAreServed

SPECIFICATION LoadSpec
CONSTANTS
    Request = {r1, r2}
    u1 = u1
    u2 = u2
    User = {u1, u2}
    Id = {1, 2}
    Deadline = {0, 1}
    None = None
    Operation = {"put_goal", "get_goal", "post_activity", "list_activities", "snapshot"}
    Limit = 1
    MaxHorizon = 1
    DayLength = 1
    MaxTime = 1
INVARIANTS
    StoreInv
    PutAnswersAFutureDeadline
    NoOrphans
    AcknowledgedIsDurable
    ReadYourWrites
    SettledReplayReproduces
PROPERTIES
    ImplementsAtomicStore
    CallsAreAnswered

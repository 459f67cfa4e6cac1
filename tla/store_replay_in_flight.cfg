SPECIFICATION Spec
CONSTANTS
    Request = {r1, r2}
    User = {u1}
    Id = {1, 2}
    Deadline = {}
    None = None
    Operation <- Replay
    Limit = 1
    MaxHorizon = 1
    DayLength = 2
    MaxTime = 2
SYMMETRY RequestSymmetry
INVARIANTS
    ReplayReproduces

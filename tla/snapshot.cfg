SPECIFICATION Spec
CONSTANTS
    Record = {a1, a2, a3}
    Topic = {arrays, trees}
    Retired = {tries}
    Difficulty = {"easy", "hard"}
    Minutes = {5}
    Instant = {0, 1, 2}
    AsOf = 1
    UnknownTopic = UnknownTopic
    None = None
SYMMETRY Symmetry
INVARIANTS
    PathsAgree
    TotalsCountEveryActivity
    MinutesAreHonest
    DatesAreExtrema
CHECK_DEADLOCK FALSE

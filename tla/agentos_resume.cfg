SPECIFICATION Spec
CONSTANTS
    p1 = p1
    p2 = p2
    Project = {p1, p2}
    Unlisted = {p2}
    Absent = Absent
    Empty = Empty
    Edited = Edited
    Manifest <- TwoScenarios
    Request <- Requests
    Expected <- ExpectedAgents
    Coverage <- Covers
    Subsystem <- Subsystems
    AuthIds = {"VS-1-auth"}
    Trees <- SomeTrees
    MaxActs = 1
PROPERTY
    SetupKeepsContext
CHECK_DEADLOCK FALSE

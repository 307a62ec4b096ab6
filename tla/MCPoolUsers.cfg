SPECIFICATION Spec
CONSTANTS
    CallIds = {1, 2, 3, 4}
    Modes = {"users"}
    InitUsers = 2
    UserTargets = {1, 3}
    Limits = {2}
    MaxCalls = 0
    Circuits = {}
    Secondary = TRUE
    Ramp = FALSE
    HardTwin = FALSE
    Outcomes = {"lives", "ends"}
    Stops = {"key", "timeout", "socket"}
    Resets = FALSE
    MaxCredit = 2
    MaxUserId = 4
    MaxSecondary = 1
    Wrap = 8
INVARIANTS
    UserIdsAreUnique
    NoUserIdIsLost
    PopulationIsKept

SPECIFICATION FairSpec
CONSTANTS
    CallIds = {1, 2, 3}
    Modes = {"users"}
    InitUsers = 2
    UserTargets = {1, 3}
    Limits = {2}
    MaxCalls = 0
    Circuits = {}
    Secondary = FALSE
    Ramp = FALSE
    HardTwin = FALSE
    Outcomes = {"lives", "ends"}
    Stops = {}
    Resets = FALSE
    MaxCredit = 2
    MaxUserId = 4
    MaxSecondary = 0
    Wrap = 8
PROPERTIES
    UsersTakeTurns

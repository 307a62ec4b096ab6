SPECIFICATION FairSpec
CONSTANTS
    CallIds = {1, 2}
    Modes = {"rate", "server", "commands"}
    InitUsers = 2
    UserTargets = {1, 3}
    Limits = {1, 2}
    MaxCalls = 3
    Circuits = {1, 2}
    Secondary = FALSE
    Ramp = TRUE
    HardTwin = TRUE
    Outcomes = {"lives", "ends", "quits"}
    Stops = {"key", "abort", "twin", "exec"}
    Resets = TRUE
    MaxCredit = 2
    MaxUserId = 4
    MaxSecondary = 0
    Wrap = 5
INVARIANTS
    CountsAgree
    NoCallIsAbandoned
    CircuitsFollowCalls
PROPERTIES
    CallsStartWithinCaps
    StopEndsTheRun

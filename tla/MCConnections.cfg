SPECIFICATION Spec
CONSTANTS
    Peers = {"p", "q"}
    Clients = {"p"}
    Target = "p"
    MaxConns = 3
    Ports = {1, 2}
    MaxData = 1
    Calls = {1, 2}
    Configs <- All
INVARIANTS
    EveryCallIsReported
    LossesAreNoticed
    BudgetsHold
    EndIsLast
PROPERTIES
    LingeringCallsComplete
CHECK_DEADLOCK FALSE

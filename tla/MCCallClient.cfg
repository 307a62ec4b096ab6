SPECIFICATION FairSpec
CONSTANTS
    Steps <- Client
    Uas = FALSE
    Peer <- ClientPeer
    AutoAnswered = {"INFO"}
    MaxRetrans = 1
    PauseMsgIgn = FALSE
    AbortUnexp = TRUE
    PingReply = TRUE
    DeadcallWait = FALSE
    Handler = 17
    Retaddr = TRUE
    Pausedaddr = TRUE
    Lossy = TRUE
    TimerIds = {1, 2, 3, 4, 5, 6}
    MaxInst = 1
    MaxPackets = 2
    MaxFires = 1
    MaxCmds = 1
    MaxCloses = 0
INVARIANTS
    TimersFollowWaits
    PauseIsRestored
    CallsStayOnTheirPath
PROPERTIES
    StaleWaitFiresIgnored
    CallsEnd

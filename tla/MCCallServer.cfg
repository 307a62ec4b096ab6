SPECIFICATION Spec
CONSTANTS
    Steps <- Server
    Uas = TRUE
    Peer <- ServerPeer
    AutoAnswered = {}
    MaxRetrans = 1
    PauseMsgIgn = FALSE
    AbortUnexp = TRUE
    PingReply = TRUE
    DeadcallWait = TRUE
    Handler = 0
    Retaddr = FALSE
    Pausedaddr = FALSE
    Lossy = TRUE
    TimerIds = {1, 2, 3, 4, 5, 6}
    MaxInst = 2
    MaxPackets = 5
    MaxFires = 2
    MaxCmds = 0
    MaxCloses = 1
PROPERTIES
    StaleWaitFiresIgnored
    TimewaitIsQuiet

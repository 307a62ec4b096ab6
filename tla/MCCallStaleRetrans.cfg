SPECIFICATION Spec
CONSTANTS
    Steps <- Challenged
    Uas = FALSE
    Peer <- ChallengedPeer
    AutoAnswered = {}
    MaxRetrans = 1
    PauseMsgIgn = TRUE
    AbortUnexp = TRUE
    PingReply = TRUE
    DeadcallWait = FALSE
    Handler = 0
    Retaddr = FALSE
    Pausedaddr = FALSE
    Lossy = FALSE
    TimerIds = {1, 2, 3, 4, 5, 6}
    MaxInst = 1
    MaxPackets = 1
    MaxFires = 2
    MaxCmds = 0
    MaxCloses = 0
PROPERTY
    StaleRetransFiresIgnored

SPECIFICATION Spec
CONSTANTS
    Calls = {1, 2}
    Scripts <- Scripts0
    Sources <- Sources0
    AutoPort = TRUE
    Base = 10
    MaxRtpPort = 13
    Kinds = {"audio"}
    MaxPlays = 2
    MaxQueue = 1
    MaxBurst = 1
    MaxSent = 1
    MaxOthers = 1
INVARIANTS
    StreamsAreKept
    EveryStreamIsJudged
PROPERTIES
    ReportComes
CHECK_DEADLOCK FALSE

SPECIFICATION Spec
CONSTANTS
    RingFiles = 2
    RingSize = 1
    MaxLogSize = 0
    Counters = {"created", "failed"}
    Rtds = {"1"}
    Classes = {1, 2}
    Ticked = {"c"}
    Kinds <- MCKinds
    Hidden = {3}
    Loss = TRUE
    Mixed = TRUE
    Traces = {"stat", "counts", "codes", "rtt"}
    PeriodicRtd = TRUE
    RttFreq = 2
    MaxEvents = 3
    MaxTurns = 3
    MaxSeconds = 1
INVARIANTS
    CountsAddUp
    RowsAgree
    RingKeepsTheLatest
CHECK_DEADLOCK FALSE

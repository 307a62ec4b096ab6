SPECIFICATION FairSpec
CONSTANTS
    MaxTimers = 3
    MaxTime = 2
INVARIANTS
    NoLostWakeup
    NoLostShutdown
PROPERTIES
    ImplementsContract
    DriverGetsOn

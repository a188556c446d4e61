SPECIFICATION FairPipelineSpec
CONSTANTS
    RlPeriod = 1
    Deadline = 1
    FirstTimeout = 1
    MaxActionAge = 1
    DiscardLate = TRUE
    AgeCap = 2
    MaxRequests = 1
INVARIANTS
    LeaseHolds
    ReadyIsAtRest
PROPERTIES
    WatchdogBites
    JoinEnds

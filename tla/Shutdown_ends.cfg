SPECIFICATION FairSpec
CONSTANTS
    w1 = w1
    Worker <- OneWorker
    MaxBatch = 2
    MaxAccounts = 2
    MaxRequests = 2
    MaxTicks = 1
INVARIANTS
    NothingInFlightAtExit
PROPERTIES
    EndsUnlessMissed
CHECK_DEADLOCK FALSE

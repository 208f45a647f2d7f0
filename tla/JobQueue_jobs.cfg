SPECIFICATION FairSpec
CONSTANTS
    w1 = w1
    w2 = w2
    r1 = r1
    r2 = r2
    NoJob = NoJob
    NoWorker = NoWorker
    Worker <- MCWorker
    Replica <- MCReplica
    Host <- TwoReplicas
    MaxJobs = 2
    BatchSize = 2
    MaxAttempts = 2
    MaxFaults = 1
INVARIANTS
    TypeOK
    OwnedUnlessOverrun
    AttemptBudget
    FinishedJobsRan
PROPERTIES
    ImplementsContract
    EveryJobFinishes

SPECIFICATION Spec
CONSTANTS
    w1 = w1
    w2 = w2
    job = job
    NoWorker = NoWorker
    NumTasks = 1
    MaxRetries = 1
    Concurrency = 2
    MaxDisruptions = 1
    Faults = {"timeout", "loss", "operator"}
    MaxRuns = 5
    Workers <- MCWorkers
    Jobs <- MCJobs
    JobOf <- MCJobOf
    Mortal <- MCImmortal
SYMMETRY Symmetric
INVARIANTS
    TypeOK
    LeaseConsistent
    AssignerExclusive
    LatestRunOnHolder
    RegisteredExact
    ConcurrencyLimit
    DeadLetterEarned
PROPERTIES
    BackoffRespected
    ImplementsOwnership

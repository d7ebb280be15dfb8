SPECIFICATION Spec
CONSTANTS
    w1 = w1
    w2 = w2
    job = job
    NoWorker = NoWorker
    NumTasks = 2
    MaxRetries = 2
    Concurrency = 2
    MaxDisruptions = 0
    Faults = {}
    MaxRuns = 4
    Workers <- MCWorkers
    Jobs <- MCJobs
    JobOf <- MCJobOf
    Mortal <- MCImmortal
SYMMETRY Symmetric
INVARIANTS
    CalmLeaseUsedOnce
    CalmReportFresh
    RegisteredExact
PROPERTY
    ImplementsLifeCycle

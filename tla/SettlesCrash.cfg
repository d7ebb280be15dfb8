SPECIFICATION FairSpec
CONSTANTS
    w1 = w1
    w2 = w2
    job = job
    NoWorker = NoWorker
    NumTasks = 1
    MaxRetries = 0
    Concurrency = 1
    MaxDisruptions = 1
    Faults = {"crash"}
    MaxRuns = 3
    Workers <- MCWorkers
    Jobs <- MCJobs
    JobOf <- MCJobOf
    Mortal <- MCMortal
INVARIANT
    LatestRunOnHolder
PROPERTIES
    TaskSettles
    OrphanRescued

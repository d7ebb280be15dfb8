SPECIFICATION FairSpec
CONSTANTS
    w1 = w1
    w2 = w2
    job = job
    NoWorker = NoWorker
    NumTasks = 1
    MaxRetries = 1
    Concurrency = 1
    MaxDisruptions = 1
    Faults = {"timeout", "loss", "operator"}
    MaxRuns = 6
    Workers <- MCWorkers
    Jobs <- MCJobs
    JobOf <- MCJobOf
    Mortal <- MCImmortal
PROPERTY
    TaskSettles

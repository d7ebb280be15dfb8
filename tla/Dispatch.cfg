SPECIFICATION Spec
CONSTANTS
    extract = extract
    load = load
    publish = publish
    k1 = k1
    NoKey = NoKey
    Jobs <- MCJobs
    DependsOn <- MCCycle
    Lists <- MCLists
    Keys <- MCOneKey
    MaxEdits = 1
    MaxTasks = 2
    MaxRunning = 2
INVARIANTS
    TypeOK
    KeyUsedOnce
    CyclesNeverRun
PROPERTY
    DependenciesRan
CHECK_DEADLOCK FALSE

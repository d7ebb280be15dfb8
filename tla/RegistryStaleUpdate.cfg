SPECIFICATION Spec
CONSTANTS
    j1 = j1
    j2 = j2
    hourly = hourly
    daily = daily
    typo = typo
    None = None
    Jobs <- MCJobs
    Crons <- MCOneCron
    BadCrons <- MCNoCron
    MaxVersion = 2
    MaxRequests = 1
SYMMETRY Symmetric
PROPERTY
    StaleUpdateRefused

SPECIFICATION FairSpec
CONSTANTS
    Requests <- MCRequests
    DefaultRetries = 3
    DefaultInterval = 1
    Bits = 8
    Second = 3
    MaxLog = 2
    Marker = 2
    MaxOutput = 1
    MaxEdits = 2
    MaxReruns = 1
    MaxCount = 10
INVARIANTS
    TypeOK
    RowTellsOutcome
    BackoffExact
PROPERTY
    AttemptsEnd

SPECIFICATION FairSpec
CONSTANTS
    MaxCrashes = 1
    MaxExpiries = 1
    Limits <- MCLimits
    DefaultLimit = 1
    MaxLimit = 2
    Filters <- MCFilters
    FirstTasks <- MCFirstTasks
    MaxChanges = 2
    MaxReceived = 4
INVARIANTS
    TypeOK
    AdminCanLogIn
    ListingComplete
PROPERTY
    GaugesCatchUp

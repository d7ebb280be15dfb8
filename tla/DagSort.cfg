SPECIFICATION Spec
CONSTANTS
    a = a
    b = b
    c = c
    gone = gone
    Jobs <- MCJobs
    Unknown <- MCUnknown
    MaxRepeat = 2
INVARIANTS
    TypeOK
    ResultOrdered
    DegreeExact
    SortDecides

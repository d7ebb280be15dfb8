SPECIFICATION Spec
CONSTANTS
    j1 = j1
    j2 = j2
    hourly = hourly
    daily = daily
    typo = typo
    None = None
    Jobs <- MCOneJob
    Crons <- MCCrons
    BadCrons <- MCBadCrons
    MaxVersion = 2
    MaxRequests = 2
INVARIANTS
    TypeOK
    EntryMatchesRow

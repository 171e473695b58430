SPECIFICATION FairSpec
CONSTANTS
    once = once
    hourly = hourly
    None = None
    Tasks = {once, hourly}
    Once = {once}
    NextRun <- MCNextRun
    Limit = 1
    MaxTime = 4
    MaxLost = 1
INVARIANTS
    ActiveHasNext
    OccurrencesRecordedOnce
    CountMatches
    DuplicatesExplained
    CancelStops
PROPERTIES
    CancelIsFinal
    DueAreServed
CHECK_DEADLOCK FALSE

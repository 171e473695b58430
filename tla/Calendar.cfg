SPECIFICATION CalendarSpec
CONSTANTS
    Never = Never
    Schedules <- MCSchedules
    Starts <- MCStarts
    Delays = {0, 1, 25}
    Horizon = 240
INVARIANTS
    NextIsFuture
    AtTimeOfDay
    NoneMissed
PROPERTIES
    EachDayOnce
CHECK_DEADLOCK FALSE

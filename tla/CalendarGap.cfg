SPECIFICATION CalendarSpec
CONSTANTS
    Never = Never
    Schedules <- MCGapSchedules
    Starts <- MCStarts
    Delays = {0, 1}
    Horizon = 120
PROPERTIES
    EachDayOnce
CHECK_DEADLOCK FALSE

SPECIFICATION Spec
CONSTANTS
    a = a
    b = b
    c = c
    Rows = {a, b, c}
    Sizes = {0, 3}
    DefaultSize = 1
    MaxSize = 2
    Day = 2
    StartTime = 3
    MaxTime = 4
    Absent = Absent
SYMMETRY Symmetry
INVARIANTS
    MissedExplained
    RepeatsExplained
CHECK_DEADLOCK FALSE

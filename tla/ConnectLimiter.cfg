SPECIFICATION Spec
CONSTANTS
    c1 = c1
    c2 = c2
    c3 = c3
    c4 = c4
    c5 = c5
    here = here
    there = there
    Calls = {c1, c2, c3, c4, c5}
    Keys = {here, there}
    KeyOf <- MCKeyOf
    Limit = 2
    Window = 3
    MaxWait = 1
    MaxTime = 6
SYMMETRY Symmetry
INVARIANTS
    WithinLimit
    RefusedForCause
CHECK_DEADLOCK FALSE

SPECIFICATION FairSpec
CONSTANTS
    r1 = r1
    r2 = r2
    t1 = t1
    d1 = d1
    plain = plain
    infrared = infrared
    n1 = n1
    x = x
    y = y
    Requests = {r1, r2}
    Tokens = {t1}
    Devices = {d1}
    Types = {plain, infrared}
    Infrared = infrared
    Names = {n1}
    Contents = {x, y}
    Seed = Seed
    None = None
INVARIANTS
    SentAsOfRequest
PROPERTIES
    LedgerSpec
    Answered
CHECK_DEADLOCK FALSE

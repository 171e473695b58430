SPECIFICATION FairSpec
CONSTANTS
    s1 = s1
    s2 = s2
    m1 = m1
    d1 = d1
    Servers = {s1, s2}
    Commands = {m1}
    N = 2
    Devices = {d1}
    None = None
INVARIANTS
    ServesMigrated
    PresenceIsOwn
PROPERTIES
    LedgerSpec
    EachDecides
CHECK_DEADLOCK FALSE

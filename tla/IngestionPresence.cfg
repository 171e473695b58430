SPECIFICATION Spec
CONSTANTS
    c1 = c1
    c2 = c2
    c3 = c3
    d1 = d1
    d2 = d2
    f1 = f1
    None = None
    Conns = {c1, c2}
    Clients = {d1}
    ClientOf <- Rivals
    Malformed = {}
    Filters = {}
    MaxPublish = 1
    V5 = {c1, c2}
    QoS1 <- AllPackets
    Unsupported = {}
    Faults = {}
INVARIANTS
    LatestIsOnline
CHECK_DEADLOCK FALSE

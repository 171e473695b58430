SPECIFICATION Spec
CONSTANTS
    c1 = c1
    c2 = c2
    c3 = c3
    d1 = d1
    d2 = d2
    f1 = f1
    None = None
    Conns = {c1, c2, c3}
    Clients = {d1}
    ClientOf <- ThreeRivals
    Malformed = {}
    Filters = {}
    MaxPublish = 1
    V5 = {c1, c2, c3}
    QoS1 <- AllPackets
    Unsupported = {}
    Faults = {"timeout", "alert_error"}
SYMMETRY Symmetry
INVARIANTS
    OfflineExplained
    OnlineExplained
CHECK_DEADLOCK FALSE

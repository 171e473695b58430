SPECIFICATION FairSpec
CONSTANTS
    c1 = c1
    c2 = c2
    c3 = c3
    d1 = d1
    d2 = d2
    f1 = f1
    None = None
    Conns = {c1, c3}
    Clients = {d1, d2}
    ClientOf <- AndMalformed
    Malformed = {d2}
    Filters = {f1}
    MaxPublish = 3
    V5 = {}
    QoS1 <- EachQoS
    Unsupported <- Refused
    Faults = {"error", "timeout"}
INVARIANTS
    RoutedArePersisted
    GrantedAreRecorded
    SessionsOfLiving
    NoSilentLoss
PROPERTIES
    HooksReturn
    DropsAreClosed
CHECK_DEADLOCK FALSE

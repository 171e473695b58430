SPECIFICATION FairSpec
CONSTANTS
    h1 = h1
    h2 = h2
    p1 = p1
    p2 = p2
    None = None
    Handlers = {h1, h2}
    Publishers = {p1, p2}
    Buffer = 2
    MaxEvents <- TwoAndOne
INVARIANTS
    NoSendOnClosed
    InOrder
PROPERTIES
    PublishersReturn
    GoneAreNoticed
CHECK_DEADLOCK FALSE

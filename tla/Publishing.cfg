SPECIFICATION FairSpec
CONSTANTS
    p1 = p1
    p2 = p2
    Commands = {p1, p2}
    QoS1 = {p1}
INVARIANTS
    RoutedInHistory
    PublishedWasHandled
    PendingExplained
PROPERTIES
    AuditSpec
    CancelledCallsReturn
    GoroutinesEnd
CHECK_DEADLOCK FALSE

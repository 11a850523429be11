SPECIFICATION Spec
CONSTANTS
    Mesh = {m1}
    Node = {n1, n2}
    Thread = {t1}
    m1 = m1
    n1 = n1
    n2 = n2
    t1 = t1
    MaxVersion = 5
    MaxPersistence = 0
    MaxCapability = 1
    DirectionAvailable = TRUE
    TransitionClass = {1}
    RequestedDirection = {"constrain", "support"}
    PublishedStatus = {"ISOLATED"}
INVARIANTS
    NoInterveningBridgeChange
CHECK_DEADLOCK FALSE

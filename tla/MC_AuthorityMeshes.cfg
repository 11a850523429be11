SPECIFICATION Spec
CONSTANTS
    Mesh = {m1, m2}
    Node = {n1, n2}
    Thread = {t1}
    m1 = m1
    m2 = m2
    n1 = n1
    n2 = n2
    t1 = t1
    MaxVersion = 6
    MaxPersistence = 1
    MaxCapability = 1
    DirectionAvailable = TRUE
    TransitionClass = {1, 99}
    RequestedDirection = {"constrain", "support"}
    PublishedStatus = {"ISOLATED"}
SYMMETRY Symmetry
INVARIANTS
    BridgeIffRelationship
    RefusalIsFinal
CHECK_DEADLOCK FALSE

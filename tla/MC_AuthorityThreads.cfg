SPECIFICATION Spec
CONSTANTS
    Mesh = {m1}
    Node = {n1, n2}
    Thread = {t1, t2}
    m1 = m1
    n1 = n1
    n2 = n2
    t1 = t1
    t2 = t2
    MaxVersion = 7
    MaxPersistence = 0
    MaxCapability = 2
    DirectionAvailable = TRUE
    TransitionClass = {1}
    RequestedDirection = {"constrain"}
    PublishedStatus = {}
SYMMETRY Symmetry
INVARIANTS
    NoInterveningChange
    VersionsAreUnique
    OneEffectPerVersion
    ConsumedIffEffect
PROPERTIES
    ImplementsContract
CHECK_DEADLOCK FALSE

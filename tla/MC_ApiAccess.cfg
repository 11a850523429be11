SPECIFICATION Spec
CONSTANTS
    Thread = {t1, t2, t3}
    Coordinates <- TwoCoordinates
    Place = {p1, p2}
    Value <- States
    HealthOf <- HealthOfState
    Invalid = Invalid
    MaxCalls = 1
    Capacity <- BridgeCapacities
    Geometry = {g1, g2}
    None = None
INVARIANTS
    SnapshotsAreInstants
    UpdateRestoresStatus
PROPERTIES
    CallsReturn
CHECK_DEADLOCK FALSE

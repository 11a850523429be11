SPECIFICATION Spec
CONSTANTS
    Node = {0, 1, 2}
    Edge <- Row
    Baseline <- Baselines
    MaxEpsilon = 1000
    Weight <- Slanted
    Magnitude <- Shocks
    MaxShock = 2
    MaxCommit = 2
    MaxStep = 4
    Threshold = {50, 200}
    MaxChange = 2
CHECK_DEADLOCK FALSE
INVARIANTS
    StatusTellsCapacity
    HealthTellsState
PROPERTIES
    StepsStayInHull

SPECIFICATION Spec
CONSTANTS
    Node = {0, 1, 2}
    Edge <- Row
    Baseline <- Baselines
    MaxEpsilon = 1000
    Weight <- Level
    Magnitude <- Shocks
    MaxShock = 2
    MaxCommit = 0
    MaxStep = 4
    Threshold = {50, 200}
    MaxChange = 0
CHECK_DEADLOCK FALSE
INVARIANTS
    WeightsStaySymmetric

SPECIFICATION Spec
CONSTANTS
    Mesh = {m1}
    Node = {n1, n2}
    Evaluator = {v1}
    MaxVersion = 7
    MaxPersistence = 2
    DirectionAvailable = TRUE
INVARIANTS
    EligibleIsEarned
    OneLifePerEvaluation

SPECIFICATION ScenarioSpec
CONSTANTS
    ActivationThreshold = 8
    ReleaseThreshold = 4
    ActivationSamples = 2
    ReleaseSamples = 3
    CompatibilityScale = 4
    ConfidenceScale = 4
    Address = {a1, a2, a3}
    MaxSamples = 14
INVARIANTS
    PendingIsEarned
    OneFailureHidesNothing
    ChangesAreDamped
    ShadowChangesAreExplained
PROPERTIES
    ChangesAreExact
    IntentsNeverFlip
CHECK_DEADLOCK FALSE

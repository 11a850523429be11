SPECIFICATION Spec
CONSTANTS
    MaxNode = 3
    MaxGeneration = 8
    Position <- Line
    Radius = {1, 2}
    Batch <- Batches
INVARIANTS
    LifecycleMatchesBridges
    AlphaFitsDegree
    BuffersFit
    GuardsNeverFire
PROPERTIES
    FailedCallsChangeNothing

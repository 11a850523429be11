SPECIFICATION FairSpec
CONSTANTS
    Evaluator = {e1, e2, e3, e4}
    e1 = e1
    e2 = e2
    e3 = e3
    e4 = e4
INVARIANTS
    NoReaderOutlivesDrain
    SleeperHasWaker
PROPERTIES
    NoLeaseAfterInvalidation
    DestructionEnds
    ImplementsGate
CHECK_DEADLOCK FALSE

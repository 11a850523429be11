SPECIFICATION FairSpec
CONSTANTS
    MaxNode = 4
    MaxStep = 3
    WorkerLimit = 3
INVARIANTS
    WorkersOnlyDuringWait
    StepsAreAtomic
    RangesAreDisjoint
PROPERTIES
    FailedStepsPublishNothing
    CallsReturn
CHECK_DEADLOCK FALSE

SPECIFICATION Validators
CONSTANTS
    Binding = binding
    Context = {binding, other}
    MaxEdit = 2
    Correlation <- Correlations
INVARIANTS
    DecisionFollowsPrecedence
    ValidationIsExact
PROPERTIES
    RepairNeverSetsBack
CHECK_DEADLOCK FALSE

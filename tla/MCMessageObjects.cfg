SPECIFICATION Spec
CONSTANTS
    Programs <- SomePrograms
    Values = {0, 1}
INVARIANTS
    OneOwner
    ContentsSurvive
CHECK_DEADLOCK FALSE

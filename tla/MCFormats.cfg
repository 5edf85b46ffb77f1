SPECIFICATION Spec
CONSTANTS
    Objects <- TwoObjects
    Keys <- OneKey
    Capacity = 1
    MaxId = 2
INVARIANTS
    TextsSurvive
    ReportSurvives
    ContentIsWhole
PROPERTIES
    ImplementsStore
CHECK_DEADLOCK FALSE

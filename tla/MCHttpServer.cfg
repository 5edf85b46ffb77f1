SPECIFICATION FairSpec
CONSTANTS
    c1 = c1
    c2 = c2
    Conns <- TwoClients
    Programs <- SomePrograms
INVARIANTS
    ConnectionsAreLive
    AnswersMatch
    NoFunctionAfterDestructor
    StopClosesAll
PROPERTIES
    ClosedInTheEnd
CHECK_DEADLOCK FALSE

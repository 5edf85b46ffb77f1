SPECIFICATION FairSpec
CONSTANTS
    Requests = 2
    Timeouts = TRUE
    MaxStopped = 1
    Answers <- SomeAnswers
INVARIANTS
    OneSessionPerConnection
    AnswersMatch
    SentAtMostTwice

    
CHECK_DEADLOCK FALSE

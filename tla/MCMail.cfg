SPECIFICATION MailFairSpec
CONSTANTS
    Mails = 1
    MaxRefusals = 1
    MaxCuts = 1
INVARIANTS
    FailureMeansNotAccepted
PROPERTIES
    SettledInTheEnd

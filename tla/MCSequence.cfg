SPECIFICATION Spec
CONSTANTS
    Keys <- OneKey
    Routable <- OneKey
    Registered <- OneKey
    Rules <- ShortRules
    Contents <- ShortContents
    MaxReports = 2
    MaxAttempts = 3
    MaxCuts = 1
    MaxKills = 1
    MaxCrashes = 0
INVARIANTS
    OneRowPerRequest
    DuplicateHasCause
    LateRowHasCause

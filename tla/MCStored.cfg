SPECIFICATION Spec
CONSTANTS
    Keys <- OneKey
    Routable <- OneKey
    Registered <- OneKey
    Rules <- ShortRules
    Contents <- ShortContents
    MaxReports = 1
    MaxAttempts = 3
    MaxCuts = 0
    MaxKills = 0
    MaxCrashes = 0
INVARIANTS
    AckMeansStored

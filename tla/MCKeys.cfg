SPECIFICATION Spec
CONSTANTS
    Keys <- ThreeKeys
    Routable <- RoutableKeys
    Registered = {"b"}
    Rules <- BadRules
    Contents <- AnyContents
    MaxReports = 1
    MaxAttempts = 2
    MaxCuts = 0
    MaxKills = 0
    MaxCrashes = 0
INVARIANTS
    RefusedLeavesNoTrace
    BadRuleNeverAcked

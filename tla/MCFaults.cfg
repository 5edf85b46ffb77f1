SPECIFICATION FairSpec
CONSTANTS
    Keys <- OneKey
    Routable <- OneKey
    Registered <- OneKey
    Rules <- LongRules
    Contents <- LongContents
    MaxReports = 1
    MaxAttempts = 3
    MaxCuts = 2
    MaxKills = 1
    MaxCrashes = 2
INVARIANTS
    AtMostTwoRows
    AckMeansAlerted
    AlertsArePrefix
PROPERTIES
    DeliverySpec
    SendReturns

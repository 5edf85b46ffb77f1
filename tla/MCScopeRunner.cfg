SPECIFICATION FairSpec
CONSTANTS
    t1 = t1
    t2 = t2
    t3 = t3
    s1 = s1
    s2 = s2
    Threads <- ThreeThreads
    Stoppers <- TwoStoppers
    MaxScopes = 3
INVARIANTS
    CountIsExact
    NoneInsideAfterStop
PROPERTIES
    GateSpec
    StopReturns

SPECIFICATION FairSpec
CONSTANTS
    Cpus = 2
    MemInfos <- AnyFiles
    IntMax = 3
    MaxTicks = 3
    MaxIdle = 6
    MaxForks = 4
INVARIANTS
    MemoryIsWhole
    MemoryIsTheFiles
    UseIsOfOneSecond
PROPERTIES
    GetsReady

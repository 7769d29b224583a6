\* The COMMIT of a claim fails while the idle node it took is disabled.
CONSTANTS
    Tasks = {a}
    MaxNode = 1
    cheap = cheap
    large = large
    Providers = {cheap, large}
    Suitable <- AnyProvider
    Priority <- CheapFirst
    MaxNodes <- OneNodeEach
    OpLimit <- OneOperation
    AllocateLimit = 1
    LongTolerance = FALSE
    Faults = {"commit"}
    MaxFaults = 1
    NoNode = NoNode
    NoTask = NoTask
    Untracked = Untracked
    NoProvider = NoProvider
SPECIFICATION FairSpec
PROPERTIES
    SkippedIsReaped
CHECK_DEADLOCK FALSE

\* Three tasks compete for one allocator worker, two providers with one node each, no
\* failures.
CONSTANTS
    Tasks = {a, b, c}
    MaxNode = 2
    cheap = cheap
    large = large
    Providers = {cheap, large}
    Suitable <- AnyProvider
    Priority <- CheapFirst
    MaxNodes <- OneNodeEach
    OpLimit <- OneOperation
    AllocateLimit = 1
    LongTolerance = TRUE
    Faults = {}
    MaxFaults = 0
    NoNode = NoNode
    NoTask = NoTask
    Untracked = Untracked
    NoProvider = NoProvider
SPECIFICATION FairSpec
PROPERTIES
    NotFalselyDeduped
CHECK_DEADLOCK FALSE

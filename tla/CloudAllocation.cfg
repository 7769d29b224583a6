\* Two tasks, two node ids, two providers with one node each, two
\* failures or restarts.
CONSTANTS
    Tasks = {a, b}
    MaxNode = 2
    cheap = cheap
    large = large
    Providers = {cheap, large}
    Suitable <- AnyProvider
    Priority <- CheapFirst
    MaxNodes <- OneNodeEach
    OpLimit <- OneOperation
    AllocateLimit = 2
    LongTolerance = FALSE
    Faults = {"create", "setup", "delete", "db", "connect", "deploy", "commit",
              "restart"}
    MaxFaults = 2
    NoNode = NoNode
    NoTask = NoTask
    Untracked = Untracked
    NoProvider = NoProvider
SPECIFICATION FairSpec
INVARIANTS
    TypeOK
    CapacityRespected
    VmIsKnown
    RequestedOnce
PROPERTIES
    SlotIsReleased
    DisabledIsReaped
CHECK_DEADLOCK FALSE

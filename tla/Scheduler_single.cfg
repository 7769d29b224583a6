\* One allocator worker (the default is several), static nodes, one failing
\* deploy or download.
CONSTANTS
    Tasks = {a, b}
    Nodes = {x, y}
    CloudNodes = {}
    Engines = {cp2k}
    EngineOf <- SharedEngine
    AllocateLimit = 1
    BrokenPasses = 1
    Faults = {"deploy", "spawn", "download"}
    MaxFaults = 1
    MaxRestarts = 0
    NoNode = NoNode
    NoEngine = NoEngine
SPECIFICATION FairSpec
INVARIANTS
    SeparateNodes
    SpawnedOnce
    FailedKeepsDir
PROPERTIES
    LifecycleSpec
    AllDone
    BusyIsReleased

\* Two allocators and the deallocator compete for one cloud node.
CONSTANTS
    Tasks = {a, b}
    Nodes = {x}
    CloudNodes = {x}
    Engines = {cp2k}
    EngineOf <- SharedEngine
    AllocateLimit = 2
    BrokenPasses = 1
    Faults = {"deploy", "spawn", "delete"}
    MaxFaults = 1
    MaxRestarts = 0
    NoNode = NoNode
    NoEngine = NoEngine
SPECIFICATION Spec
INVARIANTS
    RunningHasRow
    NoOrphanProcess
    BusyHasReason

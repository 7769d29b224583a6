\* Two allocator workers that hold the same free machine.
CONSTANTS
    Tasks = {a, b}
    Nodes = {x}
    CloudNodes = {}
    Engines = {cp2k}
    EngineOf <- SharedEngine
    AllocateLimit = 2
    BrokenPasses = 1
    Faults = {}
    MaxFaults = 0
    MaxRestarts = 0
    NoNode = NoNode
    NoEngine = NoEngine
SPECIFICATION Spec
INVARIANTS
    SeparateNodes

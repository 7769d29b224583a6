\* A consume message that is late on a machine that is being deployed to.
CONSTANTS
    Tasks = {a, b}
    Nodes = {x}
    CloudNodes = {}
    Engines = {cp2k}
    EngineOf <- SharedEngine
    AllocateLimit = 1
    BrokenPasses = 1
    Faults = {}
    MaxFaults = 0
    MaxRestarts = 0
    NoNode = NoNode
    NoEngine = NoEngine
SPECIFICATION Spec
INVARIANTS
    CompletedAfterExit

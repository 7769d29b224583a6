\* A late message for a task whose cloud node was torn down.
CONSTANTS
    Tasks = {a, b}
    Nodes = {x}
    CloudNodes = {x}
    Engines = {cp2k}
    EngineOf <- SharedEngine
    AllocateLimit = 1
    BrokenPasses = 1
    Faults = {}
    MaxFaults = 0
    MaxRestarts = 0
    NoNode = NoNode
    NoEngine = NoEngine
SPECIFICATION Spec
PROPERTIES
    DoneIsFinal

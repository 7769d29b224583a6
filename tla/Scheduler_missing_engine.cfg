\* A restart drops the engine of a RUNNING task.
CONSTANTS
    Tasks = {a}
    Nodes = {x}
    CloudNodes = {}
    Engines = {cp2k}
    EngineOf <- SharedEngine
    AllocateLimit = 1
    BrokenPasses = 1
    Faults = {}
    MaxFaults = 0
    MaxRestarts = 1
    NoNode = NoNode
    NoEngine = NoEngine
SPECIFICATION FairSpec
PROPERTIES
    MissingEngineFinalised

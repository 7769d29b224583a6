\* One cloud node, a restart that may drop the engine, and a failing commit,
\* cleanup or VM deletion.
CONSTANTS
    Tasks = {a, b}
    Nodes = {x}
    CloudNodes = {x}
    Engines = {cp2k}
    EngineOf <- SharedEngine
    AllocateLimit = 1
    BrokenPasses = 1
    Faults = {"spawn", "commit", "rmtree", "delete"}
    MaxFaults = 1
    MaxRestarts = 1
    NoNode = NoNode
    NoEngine = NoEngine
SPECIFICATION Spec
INVARIANTS
    TypeOK
    RunningWasSpawned

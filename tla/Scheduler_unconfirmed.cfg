\* The confirmation of a start is lost: what the docs of the allocate phase and
\* of run_bg() promise does not hold.
CONSTANTS
    Tasks = {a}
    Nodes = {x, y}
    CloudNodes = {}
    Engines = {cp2k}
    EngineOf <- SharedEngine
    AllocateLimit = 1
    BrokenPasses = 1
    Faults = {"spawn"}
    MaxFaults = 1
    MaxRestarts = 0
    NoNode = NoNode
    NoEngine = NoEngine
SPECIFICATION Spec
INVARIANTS
    NoDuplicate

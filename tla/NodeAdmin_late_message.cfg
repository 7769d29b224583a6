SPECIFICATION Spec
CONSTANTS
    Nodes = {s1}
    Tasks = {t1, t2}
    CloudNodes = {}
    NewNodes = {}
    QueueSize = 2
    ConnectLimit = 2
    MaxFaults = 0
    MaxCommands = 0
    NoNode = NoNode
    NoTask = NoTask
INVARIANTS ConsumedWhenFree
CHECK_DEADLOCK FALSE

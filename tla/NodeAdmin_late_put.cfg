SPECIFICATION Spec
CONSTANTS
    Nodes = {c1, s1}
    Tasks = {t1}
    CloudNodes = {c1}
    NewNodes = {s1}
    QueueSize = 1
    ConnectLimit = 2
    MaxFaults = 1
    MaxCommands = 1
    NoNode = NoNode
    NoTask = NoTask
PROPERTIES YieldsUnconnected
CHECK_DEADLOCK FALSE

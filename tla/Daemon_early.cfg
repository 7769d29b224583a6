\* One signal, perhaps while start() waits for its first machine.
CONSTANTS
    Phases = {"connect", "consume"}
    First = "connect"
    Limit = 1
    QueueSize = 1
    Nodes = {n1}
    MaxSignals = 1
    EarlySignals = TRUE
    SlowConsumers = TRUE
SPECIFICATION FairSpec
PROPERTIES
    ExitsOnAnySignal
CHECK_DEADLOCK FALSE

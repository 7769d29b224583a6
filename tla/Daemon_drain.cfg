\* One signal to a daemon that is up and whose messages take less than five seconds.
CONSTANTS
    Phases = {"connect", "consume"}
    First = "connect"
    Limit = 1
    QueueSize = 1
    Nodes = {n1}
    MaxSignals = 1
    EarlySignals = FALSE
    SlowConsumers = FALSE
SPECIFICATION Spec
PROPERTIES
    DrainLeavesNothing
CHECK_DEADLOCK FALSE

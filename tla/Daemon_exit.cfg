\* One signal to a daemon that is up.
CONSTANTS
    Phases = {"connect", "consume"}
    First = "connect"
    Limit = 1
    QueueSize = 1
    Nodes = {n1}
    MaxSignals = 1
    EarlySignals = FALSE
    SlowConsumers = TRUE
SPECIFICATION Spec
INVARIANTS
    ExitAfterCleanup
CHECK_DEADLOCK FALSE

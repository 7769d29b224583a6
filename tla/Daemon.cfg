\* Two phases with one worker each: the one start() waits for and one that it
\* launches later.  Queues of one place (the default of three of the four), two
\* machines, two signals at any time.
CONSTANTS
    Phases = {"connect", "consume"}
    First = "connect"
    Limit = 1
    QueueSize = 1
    Nodes = {n1, n2}
    MaxSignals = 2
    EarlySignals = TRUE
    SlowConsumers = TRUE
SPECIFICATION FairSpec
INVARIANTS
    QuietCleanup
    NothingLeftOpen
PROPERTIES
    ExitsOnSignal
CHECK_DEADLOCK FALSE

\* Four ids compete for two slots and two workers, so that a put waits on a full
\* queue while another waits on the lock; no symmetry, as some properties are
\* temporal.
CONSTANTS
    Ids = {m1, m2, m3, m4}
    Putters = {p1, p2}
    Workers = {w1, w2}
    MaxSize = 2
    None = None
SPECIFICATION FairSpec
INVARIANTS
    TypeOK
    NoDuplicates
    OneWorkerPerId
    UnfinishedIsExact
PROPERTIES
    QueuedIsProcessed

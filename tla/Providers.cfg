\* Two machines on each of the five providers, one of them at a time; two
\* attempts and two polls per loop; two interrupts.
CONSTANTS
    Calls = {m, n}
    Modelled = {"az", "hetzner", "upcloud", "vastai", "vultr"}
    DeleteAttempts = 2
    ReconcileAttempts = 2
    Polls = 2
    MaxCancels = 2
    Addresses = {ip1, ip2}
    NoAddress = NoAddress
    NoCall = NoCall
SPECIFICATION FairSpec
INVARIANTS
    NoSilentOrphan
    KeyUploadedOnce
    ForeignOnlyAfterOwn
PROPERTIES
    OriginalErrorPropagates
    KeepsContract
    CallsEnd
CHECK_DEADLOCK FALSE

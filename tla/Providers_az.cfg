\* One Azure machine whose NIC cannot be tagged.
CONSTANTS
    Calls = {m}
    Modelled = {"az"}
    DeleteAttempts = 2
    ReconcileAttempts = 2
    Polls = 2
    MaxCancels = 0
    Addresses = {ip1, ip2}
    NoAddress = NoAddress
    NoCall = NoCall
SPECIFICATION FairSpec
INVARIANTS
    PartialCreateIsCleanedUp
CHECK_DEADLOCK FALSE

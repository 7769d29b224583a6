\* One UpCloud server whose DELETE is answered late.
CONSTANTS
    Calls = {m}
    Modelled = {"upcloud"}
    DeleteAttempts = 2
    ReconcileAttempts = 2
    Polls = 2
    MaxCancels = 0
    Addresses = {ip1, ip2}
    NoAddress = NoAddress
    NoCall = NoCall
SPECIFICATION FairSpec
PROPERTIES
    GoneIsNoError
CHECK_DEADLOCK FALSE

SPECIFICATION Spec
CONSTANTS
    Runners = {r1, r2}
    PyKinds <- Transactional
    RecordFailures = {"insert"}
INVARIANTS DaemonOnSnapshot SuccessIsHead AppliedOnce CanUpgrade

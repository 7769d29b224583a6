SPECIFICATION Spec
CONSTANTS
    Runners = {r1, r2}
    PyKinds <- OneOfEach
    RecordFailures = {"insert", "commit"}
INVARIANTS AppliedIffRecorded

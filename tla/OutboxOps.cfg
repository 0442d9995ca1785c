CONSTANTS
    Messages = {m1}
    Twice = {}
    Replicas = {r1, r2}
    Cap = 1
    MaxAttempts = 2
    MaxTransientFailures = 2
    MaxVerifyAttempts = 1
    Included = {"dismiss", "retry", "park", "archive", "sweep", "lookup", "fail", "forget"}
    MaxRows = 3
    Stamps = 2
    MaxCrashes = 0
CHECK_DEADLOCK FALSE
SPECIFICATION Spec
INVARIANTS HookOnce
SYMMETRY Symmetry

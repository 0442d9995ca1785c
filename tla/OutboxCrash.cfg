CONSTANTS
    Messages = {m1}
    Twice = {}
    Replicas = {r1, r2}
    Cap = 1
    MaxAttempts = 2
    MaxTransientFailures = 1
    MaxVerifyAttempts = 1
    Included = {"lookup", "fail", "sweep"}
    MaxRows = 2
    Stamps = 2
    MaxCrashes = 2
CHECK_DEADLOCK FALSE
SPECIFICATION Spec
INVARIANTS NeverLost 
SYMMETRY Symmetry

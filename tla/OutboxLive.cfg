CONSTANTS
    Messages = {m1}
    Twice = {m1}
    Replicas = {r1}
    Cap = 1
    MaxAttempts = 2
    MaxTransientFailures = 1
    MaxVerifyAttempts = 1
    Included = {}
    MaxRows = 2
    Stamps = 1
    MaxCrashes = 0
CHECK_DEADLOCK FALSE
SPECIFICATION FairSpec
INVARIANTS DuplicateIsAccepted
PROPERTIES  AcceptedResolves

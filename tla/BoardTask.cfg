CONSTANTS
    AttemptsCap = 1
    BusyRenewCap = 1
    MaxDeliveries = 2
    MaxInputs = 2
    MaxFaults = 1
SPECIFICATION FairSpec
INVARIANTS AttemptsExact OneAuthorizedWorker HolderIsNamed
 
CHECK_DEADLOCK FALSE

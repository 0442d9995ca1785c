CONSTANTS
    Entries = {e1}
    MaxAttempt = 2
    AdmissionAttempts = 1
    TornTails = FALSE
    MaxFaults = 1
SPECIFICATION Spec
INVARIANTS AdmittedReached
PROPERTIES NoRepost

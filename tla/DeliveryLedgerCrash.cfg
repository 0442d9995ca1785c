CONSTANTS
    Entries = {e1}
    MaxAttempt = 1
    AdmissionAttempts = 2
    TornTails = FALSE
    MaxFaults = 3
SPECIFICATION FairSpec
INVARIANTS AckedSurvives
PROPERTIES ImplementsContract AckedResolves

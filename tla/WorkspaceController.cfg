CONSTANTS
    MaxInputs = 3
    MaxLost = 1
SPECIFICATION FairSpec
CHECK_DEADLOCK FALSE
INVARIANTS  ParkedPodStops ResumeOnce
PROPERTIES SuspendHonoured Settles

CONSTANTS
    Subs = {api}
    RingCap = 2
    RingBytes = 3
    ChanCap = 2
    BigEvents = {1}
    MaxSeq = 3
    MaxEvents = 2
    MaxOrphans = 1
    MaxFaults = 1
SPECIFICATION FairSyncSpec
INVARIANTS SeqNeverReused RingServesExactly HarnessOrder AppliedOnce
PROPERTIES HonouredResumeGapless OnlyOvertakenBreaks CatchesUp

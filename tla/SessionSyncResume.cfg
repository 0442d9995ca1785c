CONSTANTS
    Subs = {api}
    RingCap = 1
    RingBytes = 2
    ChanCap = 2
    BigEvents = {}
    MaxSeq = 3
    MaxEvents = 2
    MaxOrphans = 0
    MaxFaults = 1
SPECIFICATION SyncSpec
INVARIANT FoldExact

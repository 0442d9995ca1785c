CONSTANTS
    Browsers = {b1, b2}
    Conns = {c1, c2, c3}
    ChanCap = 1
    MaxSeq = 2
    MaxStreams = 2
    MaxFaults = 1
SPECIFICATION Spec
INVARIANTS RefcountExact
 
CHECK_DEADLOCK FALSE

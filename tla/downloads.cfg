CONSTANTS
    Procs = {p1, p2}
    Paths = {"file"}
    MaxVer = 2
    Block = 2
    MaxIds = 1
    MaxOutbox = 1
    MaxSession = 2
    MaxOpens = 2
    Mixed = Mixed
    None = None
    Len <- MCLen
    Headers <- MCHeaders
SPECIFICATION FairSpec
INVARIANT TypeOK
INVARIANT RangeServed
INVARIANT StreamsAccounted
INVARIANT ChecksumOfQueued
PROPERTY RemovedOnlyDelivered
PROPERTY EndedStreamStops

CONSTANTS
    Procs = {p1, p2}
    Ids = {a}
    Size = 2
    MaxRecs = 2
    MaxSession = 2
    Slots = {1, 2, 3}
    MaxActive = 2
    MaxTickets = 2
    MaxDrops = 1
    Retries = FALSE
    MayEnd = {"rotate", "expire"}
    CrossVolume = FALSE
    None = None
SPECIFICATION FairSpec
INVARIANT PublishedWhole
 
INVARIANT ResultRemembered
 

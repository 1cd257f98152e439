CONSTANTS
    Procs = {p1, p2}
    Ids = {a, b}
    Size = 1
    MaxRecs = 2
    MaxSession = 2
    Slots = {1, 2, 3}
    MaxActive = 1
    MaxTickets = 1
    MaxDrops = 0
    Retries = TRUE
    MayEnd = {"disconnect"}
    CrossVolume = TRUE
    None = None
SPECIFICATION Spec
SYMMETRY Symmetry
INVARIANT TypeOK
PROPERTY NeverOverwritesInbox
PROPERTY DeliversAtomically

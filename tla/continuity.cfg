CONSTANTS
    Pointers = {q1}
    W = 6
    MaxPending = 1
    MaxSamples = 2
    MaxNumber = 8
    MaxResets = 1
    None = None
SPECIFICATION Spec
INVARIANT TypeOK
INVARIANT CountsExact
INVARIANT CleanSession
INVARIANT NoStuckPointer
CHECK_DEADLOCK FALSE

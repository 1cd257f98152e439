CONSTANTS
    Sources = {"monitor", "pattern"}
    Modes = {"H264Hardware", "H264Software"}
    Sizes = {1, 2}
    StartWidth = 2
    MaxInFlight = 1
    MaxGeneration = 1
    MaxUpsets = 1
    None = None
SPECIFICATION FairSpec
INVARIANT TypeOK
INVARIANT Intact
INVARIANT BuiltForSize
PROPERTY StopReturns
PROPERTY EncodesAsPlayout

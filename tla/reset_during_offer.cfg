CONSTANTS
    Peers = {k1}
    Sockets = {w1}
    MaxSession = 2
    MaxTokens = 1
    None = None
SPECIFICATION FairSpec
PROPERTY ResetClosesTransports

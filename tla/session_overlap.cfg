CONSTANTS
    Peers = {k1, k2}
    Sockets = {w1}
    MaxSession = 2
    MaxTokens = 1
    None = None
SPECIFICATION FairSpec
INVARIANT HeldByOpenTransport
 
 
 

CONSTANTS
    Peers = {p1}
    Modes = {"HevcHardware", "H264Software"}
    Capacity = 2
    Instances = 2
    MaxGeneration = 2
    None = None
SPECIFICATION FairSpec
INVARIANT Decodable
INVARIANT CodecLabelled
INVARIANT KeyframeOwed
PROPERTY Starts

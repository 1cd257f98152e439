CONSTANTS
    Procs = {p1, p2}
    Presets = {1}
    Usable = {"H264Hardware", "H264Software", "HevcHardware"}
    Configs <- MCConfigs
    Reports <- MCReports
    MaxScore = 1
    MaxOps = 3
    MaxMeets = 1
    None = None
SPECIFICATION Spec
SYMMETRY Symmetry
PROPERTY EditsBuildOnCurrent
INVARIANT PipelineCoherent
INVARIANT RuntimeFollowsAuthority
INVARIANT PeerHasCodec
INVARIANT FileFollowsAuthority

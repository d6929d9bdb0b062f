\* The source of a block that arrives twice.
CONSTANTS
    p1 = p1
    p2 = p2
    p3 = p3
    Node = {p1, p2}
    Length = 2
    Hash <- Chain
    Announced <- Heights
    MAX_CMPCTBLOCKS_INFLIGHT_PER_BLOCK = 2
    MAX_BLOCKS_IN_TRANSIT_PER_PEER = 2
    BLOCK_DOWNLOAD_WINDOW = 2
    MIN_BLOCKS_TO_KEEP = 2
    NODE_NETWORK_LIMITED_MIN_BLOCKS = 3
    IBDHeight = 0
    DirectFetchHeight = 0
    Preferred = {p1}
    Limited = {}
    Responsive = {}
    Unsolicited = {p2}
    CheckFails = {}
    ContextFails = {}
    ConnectFails = {}
    Submitted = {}
    FetchTargets = {}
    RpcThreads = 1
    Outbound = {p1}
    HighBandwidth = {p1}
SPECIFICATION RelaySpec
INVARIANTS
    SourceRetained
CHECK_DEADLOCK FALSE

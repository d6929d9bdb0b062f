\* One block, three peers, with getblockfrompeer and submitblock.
CONSTANTS
    p1 = p1
    p2 = p2
    p3 = p3
    Node = {p1, p2, p3}
    Length = 1
    Hash <- Chain
    Announced <- Heights
    MAX_CMPCTBLOCKS_INFLIGHT_PER_BLOCK = 2
    MAX_BLOCKS_IN_TRANSIT_PER_PEER = 2
    BLOCK_DOWNLOAD_WINDOW = 2
    MIN_BLOCKS_TO_KEEP = 2
    NODE_NETWORK_LIMITED_MIN_BLOCKS = 3
    IBDHeight = 0
    DirectFetchHeight = 0
    Preferred = {p1}
    Limited = {}
    Responsive = {}
    Unsolicited = {p2}
    CheckFails = {}
    ContextFails = {}
    ConnectFails = {}
    Submitted = {1}
    FetchTargets = {p1}
    RpcThreads = 1
    Outbound = {p1}
    HighBandwidth = {p1, p2, p3}
SPECIFICATION RelaySpec
INVARIANTS
    RequestsAgree
    LastSlotForOutbound
    OneFallback
PROPERTIES
    TrackerSpec
CHECK_DEADLOCK FALSE

\* Liveness: a preferred peer that may never answer, and one that does; one block may
\* also come by submitblock.
CONSTANTS
    p1 = p1
    p2 = p2
    p3 = p3
    Node = {p1, p3}
    Length = 4
    Hash <- Chain
    Announced <- Heights
    Behind = {}
    MAX_CMPCTBLOCKS_INFLIGHT_PER_BLOCK = 3
    MAX_BLOCKS_IN_TRANSIT_PER_PEER = 2
    BLOCK_DOWNLOAD_WINDOW = 2
    MIN_BLOCKS_TO_KEEP = 2
    NODE_NETWORK_LIMITED_MIN_BLOCKS = 3
    IBDHeight = 9
    Preferred = {p1}
    Limited = {}
    Responsive = {p3}
    Unsolicited = {}
    CheckFails = {}
    ContextFails = {}
    Submitted = {1}
    ConnectFails = {}
    FetchTargets = {}
    RpcThreads = 1
SPECIFICATION FairSpec
PROPERTIES
    DownloadCompletes
    RequestsResolved
CHECK_DEADLOCK FALSE

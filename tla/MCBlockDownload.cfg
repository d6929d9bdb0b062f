\* After initial block download: one preferred peer that getblockfrompeer is used with,
\* one that only serves recent blocks, and one that is a block behind, stays and sends
\* blocks unasked.  The second block cannot be connected, the third is invalid.
CONSTANTS
    p1 = p1
    p2 = p2
    p3 = p3
    Node = {p1, p2, p3}
    Length = 3
    Hash <- Chain
    Announced <- Heights
    Behind = {p3}
    MAX_CMPCTBLOCKS_INFLIGHT_PER_BLOCK = 3
    MAX_BLOCKS_IN_TRANSIT_PER_PEER = 1
    BLOCK_DOWNLOAD_WINDOW = 2
    MIN_BLOCKS_TO_KEEP = 2
    NODE_NETWORK_LIMITED_MIN_BLOCKS = 3
    IBDHeight = 0
    Preferred = {p1}
    Limited = {p2}
    Responsive = {p3}
    Unsolicited = {p3}
    CheckFails = {}
    ContextFails = {3}
    Submitted = {}
    ConnectFails = {2}
    FetchTargets = {p1}
    RpcThreads = 1
SPECIFICATION Spec
INVARIANTS
    StallFlagsAgree
    OnlyFetchAborts
    RequestsInWindow
    NoStoredBlockRequested
PROPERTIES
    StallerHasFirstRequest
    TrackerSpec
CHECK_DEADLOCK FALSE

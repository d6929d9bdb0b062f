CONSTANTS
    p1 = p1
    p2 = p2
    Node <- MCNode
    Full <- MCAnswering
    BlockOnly <- MCNone
    Preferred <- MCNode
    NoBan <- MCSilent
    Silent <- MCSilent
    Responsive <- MCAnswering
    MaxHeight = 2
    RecentHeight = 2
    MinimumChainWork = 1
    CHAIN_SYNC_TIMEOUT = 2
    HEADERS_RESPONSE_TIME = 1
    HEADERS_DOWNLOAD_TIMEOUT = 1
    MAX_OUTBOUND_PEERS_TO_PROTECT_FROM_DISCONNECT = 1
SPECIFICATION FairSpec
INVARIANTS SyncPeersCounted LaggardsHadTheirTime SyncedPeerKept
PROPERTIES HeadersComplete 
CHECK_DEADLOCK FALSE

\* Three full-relay peers where two are wanted, with the scored rule for two scored
\* candidates, or three block-relay-only peers where one is wanted.
CONSTANTS
    Node = {1, 2, 3}
    FullChoices = {{}, {1, 2, 3}}
    Networked = {}
    Network <- TwoNetworks
    m_max_outbound_full_relay = 2
    m_max_outbound_block_relay = 1
    MAX_OUTBOUND_PEERS_TO_PROTECT_FROM_DISCONNECT = 1
    PoolSize = 2
    Scores = {1, 2}
    MaxTime = 1
    Volatile = {1}
    Downloading = {3}
SPECIFICATION FairSpec
INVARIANTS
    ProtectCounted
    ConnCountsAgree
PROPERTIES
    HardProtectionsHold
    WorstChosen
    YoungRelayChosen
    ExtraPeerGoes

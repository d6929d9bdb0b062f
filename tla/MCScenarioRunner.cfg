CONSTANTS
    NodeCount = 3
    BOOTSTRAP_TARGET_HEIGHT = 4
    COINBASE_MATURITY = 2
    Fragile <- MCFragile
SPECIFICATION FairSpec
INVARIANTS OneInitialChain BarriersHold PassedOnlyAtOwnEnd PassMeansSuccess
 
CHECK_DEADLOCK FALSE

\* The constants of the code, in seconds.
CONSTANTS
    BLOCK_STALLING_TIMEOUT_DEFAULT = 2
    BLOCK_STALLING_TIMEOUT_MAX = 64
SPECIFICATION FairTimeoutSpec
PROPERTIES
    BackoffSpec
    ReturnsToDefault

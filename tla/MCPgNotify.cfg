SPECIFICATION FairSpec
CONSTANTS
    Backend = {"k", "w"}
    Channel = {"a", "b"}
    len <- MCLen
    script <- PairScript
    MaxXact = 3
    QUEUE_MAX_PAGE = 5
    QUEUE_PAGESIZE = 2
    SLRU_PAGES_PER_SEGMENT = 1
    NoPage = NoPage
    NoPos = NoPos
    NULL = NULL
CHECK_DEADLOCK FALSE
INVARIANTS
    HeardInCommitOrder
    IdleHasHeardAll
    
PROPERTIES
    FullQueueDrains

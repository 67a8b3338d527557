CONSTANTS
    p1 = p1
    p2 = p2
    p3 = p3
    a = a
    b = b
    Proc <- Three
    Lock <- Tables
    Asks <- MCAsks
    Bucket <- SameBucket
    FP_LOCK_SLOTS_PER_BACKEND = 1
    MaxHeld = 2
    MaxCancel <- MCCancel
SPECIFICATION LockSpec
INVARIANTS
    NoConflictingHolders
    NothingLeaks
    WaitersHaveCause
    StrongCountsExact
    EveryDeadlockHasAWatcher
    HardMeansHopeless

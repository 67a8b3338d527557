SPECIFICATION WorkerFairSpec
CONSTANTS
    NULL = NULL
    NoRow = NoRow
    Empty = ""
    Attr <- MCAttr
    Val <- MCVal
    lower <- MCLower
    Cid <- MCCid
    FinalCid <- MCFinalCid
    wed_pred <- MCWedPred
    Tgid <- MCTgid
    wed_trig <- MCWedTrig
    State <- MCState
    Start <- MCStart
    Worker = {"k1", "k2"}
    channel <- MCChannel
    set_clause <- MCClause
    Wid = {w1}
    Uptkn = {t1, t2, t3}
    Inspector = {i1}
    MaxTrace = 3
    MaxCrash = 2
CHECK_DEADLOCK FALSE
PROPERTIES
    JobsArePickedUp
    InstancesEnd

SPECIFICATION FairSpec
CONSTANTS
    NULL = NULL
    NoRow = NoRow
    Empty = ""
    Attr <- MCAttr
    Val <- MCVal
    lower <- MCLower
    Cid <- MCCid
    FinalCid <- MCFinalCid
    wed_pred <- MCWedPred
    Tgid <- MCTgid
    wed_trig <- MCWedTrig
    State <- LiveState
    Wid = {w1, w2}
    Uptkn = {t1, t2, t3}
    Inspector = {i1, i2}
    MaxTrace = 2
CHECK_DEADLOCK FALSE
INVARIANTS
    OneOpenJobPerTrigger
    SelectionStaysValid
    NeverStranded
PROPERTIES
    WriteConsumesItsJob
    FinalIsForever
    ExpiredJobsAreClosed

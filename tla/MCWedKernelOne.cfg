SPECIFICATION Spec
CONSTANTS
    NULL = NULL
    NoRow = NoRow
    Empty = ""
    Attr <- MCAttr
    Val <- MCVal
    lower <- MCLower
    Cid <- MCCid
    FinalCid <- MCFinalCid
    wed_pred <- MCWedPred
    Tgid <- MCTgid
    wed_trig <- MCWedTrig
    State <- MCState
    Wid = {w1}
    Uptkn = {t1, t2, t3, t4}
    Inspector = {i1}
    MaxTrace = 4
SYMMETRY TokenSymmetry
CHECK_DEADLOCK FALSE
INVARIANTS
    FinalIsQuiet
    TraceAccountsForJobs
    TraceIsCausal
PROPERTIES
    ImplementsInstance

SPECIFICATION SessionSpec
CONSTANTS
  Session = {s1, s2}
  Wid = {w1}
  Uptkn = {t1, t2, t3}
  Tgid = {1, 2}
  Cid <- Conds
  Val <- Vals
  Edits <- Every
  Initial <- Small
  NoRow = NoRow
  NULL = NULL
  MaxEdit = 2
  MaxWrite = 4
SYMMETRY Interchangeable
CHECK_DEADLOCK FALSE
INVARIANTS
    InconsistentIsDetected
    CatalogReadOnce
    EndedHasNoJobs
    CompletedByItsToken

SPECIFICATION AttrSpec
CONSTANTS
  Session = {s1, s2, s3}
  Aid = {a1, a2}
  Name <- FourNames
  Default = {"x", "y"}
  lowered <- LowerName
  Base <- Created
  NULL = NULL
  NoRow = NoRow
  MaxStatement = 3
SYMMETRY Interchangeable
INVARIANTS
    ColumnsAreAttributes
    KernelSeesOneSchema
    NoLockCycle

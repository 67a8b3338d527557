SPECIFICATION InspectorFairSpec
CONSTANTS
  Setter <- OneSetter
  IntBits = 8
  Naptimes <- MCNaptimes
  MS = 10
CHECK_DEADLOCK FALSE
INVARIANTS
    NothingSleptThrough
PROPERTIES
    EndsWhenTold
    ReloadTakesEffect
    InspectsAgain

SPECIFICATION InstallSpec
CONSTANTS
  Admin = {a1}
  DB = {d1, d2, d3}
  Faults <- Anything
  MaxScript = 5
CHECK_DEADLOCK FALSE
INVARIANTS
    ServerCanRestart
    WorkersHaveDatabase

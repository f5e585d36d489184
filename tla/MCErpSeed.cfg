SPECIFICATION Spec
CONSTANTS
  None = None
  Grain = 180
  MaxRuns = 2
INVARIANTS TypeOK NoHalfSeed RowsAgree
CHECK_DEADLOCK FALSE

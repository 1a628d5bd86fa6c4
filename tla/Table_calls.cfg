CONSTANTS
  c1 = c1
  v1 = v1
  v2 = v2
  alice = alice
  BadRow = BadRow
  Cols <- OneCol
  Values <- TwoValues
  CustomIds <- ChosenIds
  Calls <- AllCalls
  IndexKinds = {"plain"}
  IndexCols <- OneCol
  CellCols <- OneCol
  CellsBehindIndexes = FALSE
  AutoLimit = 4
  MaxRows = 3
  MaxBatch = 2
  MaxVersion = 2
SPECIFICATION Spec
SYMMETRY Symmetry
CONSTRAINT SmallIndexes
CHECK_DEADLOCK FALSE
INVARIANTS TypeOK IdMapSound GetAgrees RowsReachable PlainIndexExact
PROPERTY Refinement

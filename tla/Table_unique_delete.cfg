CONSTANTS
  c1 = c1
  v1 = v1
  v2 = v2
  alice = alice
  BadRow = BadRow
  Cols <- OneCol
  Values <- TwoValues
  CustomIds <- NoIds
  Calls <- DeleteCalls
  IndexKinds = {"unique"}
  IndexCols <- OneCol
  CellCols <- OneCol
  CellsBehindIndexes = TRUE
  AutoLimit = 4
  MaxRows = 4
  MaxBatch = 2
  MaxVersion = 2
SPECIFICATION Spec
SYMMETRY Symmetry
CHECK_DEADLOCK FALSE
INVARIANT FindByColumnCorrect

CHECK_DEADLOCK FALSE
CONSTANTS
  key = key
  info = info
  v1 = v1
  v2 = v2
  t1 = t1
  t2 = t2
  BadRow = BadRow
  Cols <- KeyAndInfo
  Values <- TwoValues
  CustomIds <- NoIds
  AutoLimit = 4
  Threads <- TwoThreads
  Key = key
  Kinds <- AllKinds
  DeleteKinds <- NotUnique
  MaxRows = 3
  MaxVersion = 2
  BatchSizes = {2}
SPECIFICATION WritersSpec
INVARIANT DuplicatesBounded
PROPERTIES KeysStay AbortsOnlyIfDeleted DeletedStay OthersUntouched CursorExact
SYMMETRY Symmetry

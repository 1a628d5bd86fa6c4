CONSTANTS
  users = users
  orders = orders
  None = None
  Tables <- TwoTables
  Calls = {"write", "failed_write", "query_write", "read", "begin", "commit", "rollback"}
  Faults = {"crash"}
  MaxWrites = 3
  MaxCrashes = 1
SPECIFICATION Spec
CHECK_DEADLOCK FALSE
INVARIANT UnsavedIsFlagged
PROPERTIES EventuallySaved NeverBackwards

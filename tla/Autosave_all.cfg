CONSTANTS
  users = users
  orders = orders
  None = None
  Tables <- TwoTables
  Calls <- AllCalls
  Faults <- AllFaults
  MaxWrites = 2
  MaxCrashes = 1
SPECIFICATION Spec
SYMMETRY TableSymmetry
CHECK_DEADLOCK FALSE
INVARIANT ExportExact

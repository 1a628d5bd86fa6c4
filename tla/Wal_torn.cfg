CONSTANTS
  c1 = c1
  v1 = v1
  v2 = v2
  alice = alice
  bob = bob
  BadRow = BadRow
  Garbage = Garbage
  NoFile = NoFile
  Torn = Torn
  NoRow = NoRow
  Cols <- OneCol
  Values <- TwoValues
  CustomIds <- TwoNames
  Profiles <- TornLines
  AutoLimit = 2
  MaxRows = 2
  MaxCrashes = 2
  MaxVersion = 2
  MaxSaves = 3
SPECIFICATION Spec
SYMMETRY Symmetry
CHECK_DEADLOCK FALSE
INVARIANT LogRecovers

SPECIFICATION SqlSpec
CONSTANTS
  Cols <- Columns
  Values <- CellValues
  BadRow = BadRow
  CustomIds = {}
  AutoLimit = 3
  Rows <- SomeRows
  StringCols = {"name"}
  Texts <- WrittenTexts
  Nodes <- AllNodes
  Conditions <- AllConditions
  Others <- SomePartners
  MaxUpdates = 1
  Clauses <- SomeClauses
  NoClause = NoClause
  Assignments <- OneCell
  IntMin = 0
  IntMax = 2
  MaxSize = 15
  PageSizes = {1, 2}
  Panic = Panic
CHECK_DEADLOCK FALSE
INVARIANTS
  InterningInvisible
  PlanSound
  WhereSound
  LikeSound
  JoinExact
  PagesPartition
  AggregatesAgree
  ReadersAgree
PROPERTY StatementsExact

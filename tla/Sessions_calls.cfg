CONSTANTS
  notes = notes
  one = one
  two = two
  Null = Null
  NoClause = NoClause
  Names = {notes}
  Schemas <- OneOrTwo
  Extras <- Added
  Inserted <- Maps
  Clauses <- SomeClauses
  Assignments <- Settings
  Prepared <- Statements
  FlatParams <- Flats
  MaxIds = 3
  MaxRows = 2
  MaxSaved = 1
  MaxColumns = 2
SPECIFICATION Spec
VIEW View
PROPERTIES Refinement BatchIsSequence UpdateReaches StatementsAdmit

SPECIFICATION Spec
CONSTANTS
  Name <- MCName
  Text <- MCText
  TextBefore <- MCTextBefore
  stoi <- MCstoi
  to_text <- MCto_text
  EmptyText = ""
  NaN = NaN
  NoTable = NoTable
  Gone = Gone
  Error = Error
  Schema <- MCSchema
  Inserts <- MCInserts
  Deletes <- MCDeletes
  Selects <- PointSelects
  Joins <- None
  MaxRowid = 2
  PointLookups = TRUE
INVARIANTS
  SelectAnswers

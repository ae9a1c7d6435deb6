SPECIFICATION Spec
CONSTANTS
  Name <- MCName
  Text <- MCText
  TextBefore <- MCTextBefore
  stoi <- MCstoi
  to_text <- MCto_text
  EmptyText = ""
  NaN = NaN
  NoTable = NoTable
  Gone = Gone
  Error = Error
  Schema <- MCSchema
  Inserts <- MCInserts
  Deletes <- MCDeletes
  Selects <- MCSelects
  Joins <- MCJoins
  MaxRowid = 2
  PointLookups = FALSE
INVARIANTS
  TypeOK
  SelectAnswers
  JoinAnswers
PROPERTIES
  DeleteLeavesTheRest

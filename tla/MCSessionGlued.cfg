SPECIFICATION Spec
CONSTANTS
  Number <- MCNumber
  Upper <- MCUpper
  NaN = NaN
  Error = Error
  Numeral <- MCNumeral
  BYTE = 16
  Code <- MCCode
  Name <- MCName
  Schema <- MCSchema
  Inserts <- MCInserts
  Deletes <- Empty
  Selects <- GluedSelects
  Joins <- Empty
  Junk <- Empty
  NoTable = NoTable
  Gone = Gone
  Looks <- GluedLooks
  MaxRowid = 2
INVARIANTS
  StatementsReadBack

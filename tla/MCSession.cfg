SPECIFICATION Spec
CONSTANTS
  Number <- MCNumber
  Upper <- MCUpper
  NaN = NaN
  Error = Error
  Numeral <- MCNumeral
  BYTE = 16
  Code <- MCCode
  Name <- MCName
  Schema <- MCSchema
  Inserts <- MCInserts
  Deletes <- MCDeletes
  Selects <- MCSelects
  Joins <- MCJoins
  Junk <- MCJunk
  NoTable = NoTable
  Gone = Gone
  Looks <- MCLooks
  MaxRowid = 2
INVARIANTS
  TypeOK
  StatementsReadBack
PROPERTIES
  ImplementsEngine

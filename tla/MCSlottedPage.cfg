SPECIFICATION Spec
CONSTANTS
  PageSize = 24
  a = a
  b = b
  Byte = {a, b}
  ZeroByte = ZeroByte
  EntryByte = EntryByte
  NoRecord = NoRecord
  Full = Full
  Record <- MCRecord
INVARIANTS
  TypeOK
  NoOverlap
PROPERTIES
  RoomMeansSuccess
  ImplementsSlotArray

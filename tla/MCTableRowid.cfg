SPECIFICATION Spec
CONSTANTS
  PageSize = 24
  a = a
  b = b
  Byte = {a, b}
  ZeroByte = ZeroByte
  EntryByte = EntryByte
  NoRecord = NoRecord
  Full = Full
  None = None
  Zero = Zero
  HEAP_PAGE_BASE = 1
  SCHEMA_PAGE_ID = 4
  SLOTS = 16
  Row <- MCRow
  Predicate <- MCPredicate
  MaxRowid = 2
  MaxCrashes = 1
  Exhaustion = FALSE
PROPERTIES
  RowidsAreFresh

SPECIFICATION Spec
CONSTANTS
  PageSize = 24
  a = a
  b = b
  Byte = {a, b}
  ZeroByte = ZeroByte
  EntryByte = EntryByte
  NoRecord = NoRecord
  Full = Full
  None = None
  Zero = Zero
  HEAP_PAGE_BASE = 1
  SCHEMA_PAGE_ID = 2
  SLOTS = 16
  Row <- MCRow
  Predicate <- MCPredicate
  MaxRowid = 4
  MaxCrashes = 0
  Exhaustion = TRUE
INVARIANTS
  MetaPageIsMeta

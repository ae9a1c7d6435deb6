SPECIFICATION Spec
CONSTANTS
  PageSize = 20
  a = a
  b = b
  Byte = {a, b}
  ZeroByte = ZeroByte
  EntryByte = EntryByte
  NoRecord = NoRecord
  Full = Full
  None = None
  Zero = Zero
  HEAP_PAGE_BASE = 1
  SCHEMA_PAGE_ID = 4
  SLOTS = 16
  Row <- FewRows
  Predicate <- FewPredicates
  MaxRowid = 2
  MaxCrashes = 2
  Exhaustion = FALSE
INVARIANTS
  CommittedRowsSurvive
  CreatedTablesWork

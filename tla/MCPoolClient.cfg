SPECIFICATION Spec
CONSTANTS
  LastPage = 2
  MaxPages = 2
  Window = 2
  blank = blank
  c1 = c1
  Zero = blank
  None = None
  Content <- MCContent
INVARIANTS
  TypeOK
  NoDanglingPointer
  FlushSavesAll
PROPERTIES
  NeverHandsOutUsedPage
  ImplementsPageStore

SPECIFICATION Spec
CONSTANTS
  MaxCells = 2
  Tombstone = Tombstone
  NoLeaf = NoLeaf
  MaxPages = 3
  v1 = v1
  v2 = v2
  Keys1 = {1, 3, 4, 5, 6}
  Keys2 = {2}
  RemovedKeys = {2}
  FoundKeys = {2, 3}
  LastPage = 12
  KeyLimit = 7
  EmptyFile <- pool_file
  Fetch <- pool_fetch
  Put <- pool_put
  Mark <- pool_mark
  Pages <- pool_pages
  Restart <- pool_restart
  Calls <- MCCalls
INVARIANTS
  NoDanglingPointer
  EveryWriteMarked
PROPERTIES
  ImplementsIndex

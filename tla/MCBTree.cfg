SPECIFICATION Spec
CONSTANTS
  MaxCells = 2
  Tombstone = Tombstone
  NoLeaf = NoLeaf
  v1 = v1
  v2 = v2
  Keys1 = {1, 2, 4, 5, 6, 7}
  Keys2 = {3}
  RemovedKeys = {3}
  LastPage = 12
  KeyLimit = 8
  EmptyFile <- flat
  Fetch <- flat_fetch
  Put <- flat_put
  Mark <- flat_mark
  Pages <- flat_pages
  Restart <- flat_restart
  Calls <- MCCalls
INVARIANTS
  TypeOK
  SearchTree
  OneParent
  LeafChain
  HalfFull
PROPERTIES
  ImplementsIndex
  EveryCallReturns

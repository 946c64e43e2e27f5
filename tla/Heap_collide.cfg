SPECIFICATION Spec
CONSTANTS
  p1 = p1
  p2 = p2
  Lock = Lock
  Mutexes = {Lock}
  Procs <- MCTwoProcs
  NUM_HEAPS = 2
  TidMaps <- MCCollide
  Classes <- MCOneClass
  Size <- MCSize
  ArenaHdr = 1
  Chunk = 2
  Page = 2
  HeapSize = 8
  TempSize = 1
  MaxHeld = 2
  MayEnd = FALSE
CHECK_DEADLOCK FALSE
INVARIANTS
  Disjoint

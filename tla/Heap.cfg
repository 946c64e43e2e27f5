SPECIFICATION Spec
CONSTANTS
  p1 = p1
  p2 = p2
  Lock = Lock
  Mutexes = {Lock}
  Procs <- MCTwoProcs
  NUM_HEAPS = 2
  TidMaps <- MCAnyTids
  Classes <- MCTwoClasses
  Size <- MCSize
  ArenaHdr = 1
  Chunk = 2
  Page = 2
  HeapSize = 8
  TempSize = 1
  MaxHeld = 1
  MayEnd = TRUE
CHECK_DEADLOCK FALSE
INVARIANTS
  TypeOK
  OwnDisjoint
  PagesOnce
  ArenaClear
PROPERTY
  NotWritten

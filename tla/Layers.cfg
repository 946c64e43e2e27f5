SPECIFICATION Spec
INVARIANT DoubleTakeInterposed SlotHeapsWhole FreeListsWhole RegionsAndObstacksWhole LeaTagged TightFit RecycledFits RequestsInside ListsAgree ShimsKeep ThreadHeapsSafe
CHECK_DEADLOCK FALSE
CONSTANTS
  TempUnits = 2
  NumChunks = 3
  LooseChunks = 5
  NumSlots = 3
  EmptyFraction = 2
  Slack = 8
  MaxFree = 0
  Threads = {t1, t2}
  NoChunk = NoChunk
  NumObjects = 5
  MaxObject = 2
  Bound = 2
  BatchNumber = 2
  ChunkUnits = 2
  MemoryUnits = 9
  NumBits = 8
  WordBits = 4
  NumBins = 2
  Pages = 3
  Mappers = {t1, t2}
  ObstackChunk = 4
  ObstackAlign = 2
  Spare = 1
  IntSpan = 96
  ObstackPlaces <- MCPlaces
  PlaceUnits = 20
  MaxObjects = 3
  MaxGrown = 6
  NumHeaps = 4
  LeaUnits = 10
  LeaHeaders = {1, 2}
  LeaSizes = {1, 2, 3, 4}
  QuickMax = 1
  MapAbove = 3
  HeldBase = 1
  NUMBINS = 7
  MaxSize = 1023
  Word = 1024
  IntWord = 256
  InitialMallocSize = 64
  HeaderSize = 16
  ArenaHeader = 24
  ChunkSize = 64
  PageSize = 32
  ListItems = {n1, n2, n3, n4, n5}
  ListA = ListA
  ListB = ListB
  NumNodes = 4
  NodeSize = 2
  MaxKey = 3
  MaxPriority = 2
  AoffUnits = 14
  AoffSizes = {2, 3}
  FreeThreshold = 8
  Double = 2
  ArenaUnits = 17
  StackSizes = {1, 2, 4}
  MaxOvershoot = 30
  SlopUnits = 2
  SlopMemory = 20
  MaxItems = 7
  MaxTagged = 4
  ShimUnits = 14
  ShimAsks = {1, 3}
  ShimClass = 2
  ShimAligns = {1, 2, 3, 4}
  ShimDouble = 2
  ShimMarks = 3
  LocalUnits = 6
  Workers = {1, 2, 3}
  Handles = {0, 2, 4, 10}
  HandleWord = 16
  HandleGap = 2
  NumThreadHeaps = 2
  NumShared = 2
  MaxHold = 2
  SourcePage = 4
  SourcePages = 5
  SourceAsks = {1, 4, 5}
  LMTemp = 5
  LMHeap = 10
  LMSizes = {1, 3}
  LMObjects = 2

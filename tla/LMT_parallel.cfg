SPECIFICATION Spec
CONSTANTS
  t1 = t1
  t2 = t2
  t3 = t3
  None = None
  Main = Main
  Threads <- MCThreeThreads
  Creators <- MCMainCreates
  EndBy <- MCBoth
  MaxLive = 3
  SpuriousWakeups = FALSE
  MAX_THREADS = 2
  Garbage <- MCGarbage
CHECK_DEADLOCK FALSE
INVARIANTS
  TypeOK
  SpawnReturnsRegistered
  OneRegistration
  Handshake
  IndexInBounds

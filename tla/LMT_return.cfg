SPECIFICATION FairSpec
CONSTANTS
  t1 = t1
  t2 = t2
  t3 = t3
  None = None
  Main = Main
  Threads <- MCTwoThreads
  Creators <- MCMainCreates
  EndBy <- MCReturn
  MaxLive = 2
  SpuriousWakeups = TRUE
  MAX_THREADS = 5
  Garbage <- MCGarbage
INVARIANTS
  NoStrandedJoin
PROPERTIES
  CreateReturns
  JoinReturns

SPECIFICATION FairSpec
CONSTANTS
  t1 = t1
  t2 = t2
  t3 = t3
  None = None
  Main = Main
  Threads <- MCThreeThreads
  Creators <- MCMainCreates
  EndBy <- MCExit
  MaxLive = 1
  SpuriousWakeups = FALSE
  MAX_THREADS = 5
  Garbage <- MCGarbage
INVARIANTS
  NoCrash
PROPERTIES
  KeepsPromise

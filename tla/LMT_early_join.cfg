SPECIFICATION Spec
CONSTANTS
  t1 = t1
  t2 = t2
  t3 = t3
  None = None
  Main = Main
  Threads <- MCTwoThreads
  Creators <- MCMainCreates
  EndBy <- MCExit
  MaxLive = 2
  SpuriousWakeups = FALSE
  MAX_THREADS = 5
  Garbage <- MCGarbage
CHECK_DEADLOCK FALSE
INVARIANTS
  JoinWaits

SPECIFICATION Spec
CONSTANTS
  p1 = p1
  p2 = p2
  p3 = p3
  m1 = m1
  m2 = m2
  m3 = m3
  NoMutex = NoMutex
  Procs <- MCThreeProcs
  Mutexes <- MCThreeMutexes
  Static <- MCStatic
  Conds = {c1}
  MayEnd = TRUE
  Tried <- MCTried
SYMMETRY MCSymmetry
CHECK_DEADLOCK FALSE
INVARIANTS
  TypeOK
  MutualExclusion
  HeldBySomebody
  NoLostWakeup

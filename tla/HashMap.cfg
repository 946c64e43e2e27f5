SPECIFICATION Spec
CONSTANTS
  k1 = k1
  k2 = k2
  k3 = k3
  Procs = {p1, p2}
  Keys = {k1, k2, k3}
  Entries = {e1, e2}
  _buckets = 2
  Hash <- MCHash
  Word = 6
  Nobody = Nobody
SYMMETRY MCSymmetry
CHECK_DEADLOCK FALSE
INVARIANTS
  TypeOK
  ScanSafe
  Agrees
  BucketWhole
  Distinct
  IteratesAll

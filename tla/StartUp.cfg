SPECIFICATION Spec
CONSTANTS
  main = main
  p1 = p1
  p2 = p2
  p3 = p3
  text = text
  data = data
  lib = lib
  libc = libc
  tls = tls
  heap = heap
  stack = stack
  page1 = page1
  page2 = page2
  page3 = page3
  Procs <- MCProcs
  Main = main
  Segs <- MCSegs
  Machines <- MCMachines
  Perm <- MCPerm
  Named <- MCNamed
  Lib = lib
  Libc = libc
  Tls = tls
  Stack = stack
  Vars = {data, stack}
  MAP_SIZE = 4
  Pages <- MCPages
  Tmp = Tmp
  Shared = Shared
  None = None
  Zero = Zero
SYMMETRY MCThreads
CHECK_DEADLOCK FALSE
INVARIANTS
  TypeOK
  
  HandleNames
PROPERTY
  IsThreadMemory

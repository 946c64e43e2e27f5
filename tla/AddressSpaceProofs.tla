------------------------- MODULE AddressSpaceProofs -------------------------
(***************************************************************************)
(* Proofs about AddressSpace: for every layout of the address space, every *)
(* number of processes and every order of segments, start-up and clone     *)
(* together give processes the memory of threads.                          *)
(***************************************************************************)
EXTENDS AddressSpace, FiniteSetTheorems, TLAPS

\* Start-up has its temporary zone.
HasTmp == {"copy", "unmap", "open", "map", "back", "release"}

\* Segments that have their shared frame
Remapped == {table[i] : i \in 1..(j - 1)} \cup (IF pc \in {"back", "release"} THEN {table[j]} ELSE {})

\* The segment that is not there, or not yet whole again
InHand(a, labels) == pc \in labels /\ a = table[j]

\* map[] holds each writable line read so far, once.
TableInv ==
  /\ \A i, k \in 1..Len(table) : table[i] = table[k] => i = k
  /\ \A k \in 1..Len(table) : table[k] \in Globals
  /\ pc = "parse" =>
       /\ \A k \in 1..Len(table) : \E i \in 1..Len(layout) : i < line /\ table[k] = layout[i]
       /\ \A i \in 1..Len(layout) :
            i < line /\ Taken(layout[i]) => \E k \in 1..Len(table) : table[k] = layout[i]
  /\ pc # "parse" => \A a \in Globals : \E k \in 1..Len(table) : table[k] = a
  /\ line \in Nat \ {0} /\ j \in Nat \ {0}
  /\ pc = "parse" => j = 1
  /\ pc = "tmp" => j <= Len(table) + 1
  /\ pc \in HasTmp \cup {"fault"} => j <= Len(table)
  /\ pc = "run" => j > Len(table)

\* Until the library is up there is one process.
AloneInv ==
  pc # "run" =>
    /\ stage = [p \in Procs |-> IF p = Main THEN "running" ELSE "unborn"]
    /\ known = [p \in Procs |-> {}]

\* During start-up every segment is mapped but the one in hand.
StartMaps ==
  /\ \A a \in Segs :
       maps[Main][a] = IF InHand(a, {"open", "map"}) THEN None
                       ELSE IF Perm[a] = "rw-s" \/ a \in Remapped THEN <<Shared, a>>
                       ELSE <<Main, a>>
  /\ \A a \in ToSet(Pages) : maps[Main][a] = None
  /\ maps[Main][Tmp] = IF pc \in HasTmp THEN <<Main, Tmp>> ELSE None

\* Contents are where they were, or in the temporary zone.
StartMem ==
  /\ \A a \in Globals \cup {Stack} :
       ~InHand(a, {"open", "map", "back"}) => mem[maps[Main][a]] = a
  /\ pc \in {"unmap", "open", "map", "back"} => mem[<<Main, Tmp>>] = table[j]

StartInv == pc \notin {"run", "fault", "aborted"} => StartMaps /\ StartMem

\* Once it is up, every process maps the one frame of each global, a stack of
\* its own, and at the addresses mmap gave the status of threads that exist.
RunInv ==
  pc = "run" => \A p \in Alive :
    /\ \A a \in Globals : maps[p][a] = <<Shared, a>>
    /\ maps[p][Stack] = <<p, Stack>>
    /\ \A a \in Segs : maps[p][a] \in {<<p, a>>, <<Shared, a>>}
    /\ maps[p][Tmp] = None
    /\ \A a \in ToSet(Pages) : maps[p][a] = None \/ \E d \in Procs : maps[p][a] = <<Shared, d>>

\* Whoever knows a handle maps its status, so does the thread itself until it
\* has stored it, and from then on the status is the thread's.
HandleInv ==
  /\ \A p \in Procs \ Alive : known[p] = {}
  /\ \A p \in Procs : \A h \in known[p] :
       /\ h[2] # Main
       /\ stage[h[2]] # "unborn"
       /\ maps[p][h[1]] = <<Shared, h[2]>>
       /\ stage[h[2]] = "new" => maps[h[2]][h[1]] = <<Shared, h[2]>>
  /\ stage[Main] \in {"running", "gone"}
  /\ \A c \in Procs \ {Main} : stage[c] \in {"running", "gone"} => mem[<<Shared, c>>] = c

Inv == TypeOK /\ TableInv /\ AloneInv /\ StartInv /\ RunInv /\ HandleInv

-----------------------------------------------------------------------------

\* What the layout says of addresses and frames.
LEMMA Layout ==
  /\ Main \in Procs /\ Shared \notin Procs
  /\ Segs \subseteq Addr /\ ToSet(Pages) \subseteq Addr /\ Tmp \in Addr
  /\ Globals \subseteq Segs /\ Stack \in Segs \ Globals
  /\ {Lib, Libc, Tls} \cup Vars \cup Named \subseteq Segs
  /\ Tmp \notin Segs /\ Tmp \notin ToSet(Pages) /\ Segs \cap ToSet(Pages) = {}
  /\ Procs \cap Addr = {} /\ None \notin Frames
  /\ \A p \in Procs \cup {Shared}, a \in Addr : <<p, a>> \in Frames /\ None # <<p, a>>
  /\ \A c \in Procs : <<Shared, c>> \in Frames /\ None # <<Shared, c>>
  BY LayoutAssumption DEF Globals, Taken, Addr, Frames

\* Initial states satisfy the invariant.
LEMMA InvInit == Init => Inv
<1> SUFFICES ASSUME Init PROVE Inv
  OBVIOUS
<1> USE Layout DEF Init
<1>1. TypeOK
  <2>1. maps \in [Procs -> [Addr -> Frames \cup {None}]]
    OBVIOUS
  <2>2. mem \in [Frames -> Values]
    BY DEF Values
  <2>3. [lines |-> layout, missing |-> missing] \in Machines
    <3>1. PICK m \in Machines : layout = m.lines /\ missing = m.missing
      OBVIOUS
    <3>2. QED
      BY <3>1, LayoutAssumption
  <2>4. QED
    BY <2>1, <2>2, <2>3, LayoutAssumption DEF TypeOK
<1>2. TableInv
  BY DEF TableInv, HasTmp
<1>3. AloneInv
  BY DEF AloneInv
<1>4. StartInv
  BY DEF StartInv, StartMaps, StartMem, InHand, HasTmp, Remapped, Globals, Taken
<1>5. RunInv /\ HandleInv
  BY DEF RunInv, HandleInv, Alive
<1>6. QED
  BY <1>1, <1>2, <1>3, <1>4, <1>5 DEF Inv

\* An array of different writable segments is no longer than map[] (pmparser.h:45).
LEMMA TableFits ==
  ASSUME NEW t \in Seq(Globals), \A i, k \in 1..Len(t) : t[i] = t[k] => i = k
  PROVE  Len(t) <= MAP_SIZE
<1>1. IsFiniteSet(Globals) /\ Cardinality(Globals) \in Nat
  BY LayoutAssumption, FS_Subset, FS_CardinalityType DEF Globals
<1>2. t \in Injection(1..Len(t), Globals)
  BY DEF Injection, IsInjective
<1>3. Len(t) \in Nat /\ Cardinality(1..Len(t)) = Len(t)
  <2>1. 1 \in Int /\ Len(t) \in Int /\ Len(t) \in Nat
    OBVIOUS
  <2>2. Cardinality(1..Len(t)) = IF 1 > Len(t) THEN 0 ELSE Len(t) - 1 + 1
    BY <2>1, FS_Interval
  <2>3. QED
    BY <2>1, <2>2
<1>4. Cardinality(1..Len(t)) <= Cardinality(Globals)
  BY <1>1, <1>2, FS_Injection DEF ExistsInjection
<1>5. QED
  BY <1>1, <1>3, <1>4, LayoutAssumption

\* The parser keeps map[] in order.
LEMMA ParseStep ==
  ASSUME Inv, Parse \/ ParseEnd
  PROVE  Inv'
<1> USE Layout DEF Inv
<1>1. layout \in Seq(Segs) /\ ToSet(layout) = Segs
      /\ \A i, k \in 1..Len(layout) : layout[i] = layout[k] => i = k
  <2>1. PICK m \in Machines : m = [lines |-> layout, missing |-> missing]
    BY DEF TypeOK
  <2>2. m.lines = layout
    BY <2>1
  <2>3. QED
    BY <2>2, LayoutAssumption
<1>2. CASE Parse
  <2> DEFINE s == layout[line]
  <2>1. line \in 1..Len(layout) /\ s \in Segs /\ pc = "parse" /\ pc' = "parse" /\ line' = line + 1
    BY <1>1, <1>2 DEF Parse, TableInv
  <2>2. UNCHANGED <<layout, missing, j, maps, mem, stage, known>>
    BY <1>2 DEF Parse, fileVars, threadVars
  <2>3. table' = IF Taken(s) THEN Append(table, s) ELSE table
    BY <1>2 DEF Parse, Keeps
  <2>4. table' \in Seq(Globals)
    <3>1. table \in Seq(Globals)
      BY DEF TableInv, TypeOK
    <3>2. Taken(s) => s \in Globals
      BY <2>1 DEF Globals
    <3>3. QED
      BY <2>3, <3>1, <3>2
  <2>5. TableInv'
    <3>1. CASE Taken(s)
      <4>1. /\ Len(table') = Len(table) + 1 /\ table'[Len(table) + 1] = s
            /\ \A k \in 1..Len(table) : table'[k] = table[k]
        BY <2>3, <3>1 DEF TypeOK
      <4>2. \A k \in 1..Len(table) : table[k] # s
        BY <1>1, <2>1 DEF TableInv
      <4>3. \A i, k \in 1..Len(table') : table'[i] = table'[k] => i = k
        BY <4>1, <4>2 DEF TableInv, TypeOK
      <4>4. \A k \in 1..Len(table') : \E i \in 1..Len(layout) : i < line + 1 /\ table'[k] = layout[i]
        BY <2>1, <4>1 DEF TableInv, TypeOK
      <4>5. \A i \in 1..Len(layout) : i < line + 1 /\ Taken(layout[i])
                => \E k \in 1..Len(table') : table'[k] = layout[i]
        <5> SUFFICES ASSUME NEW i \in 1..Len(layout), i < line + 1, Taken(layout[i])
                     PROVE  \E k \in 1..Len(table') : table'[k] = layout[i]
          OBVIOUS
        <5>1. CASE i = line
          <6>1. Len(table) + 1 \in 1..Len(table') /\ table'[Len(table) + 1] = layout[i]
            BY <4>1, <5>1 DEF TypeOK
          <6>2. QED
            BY <6>1
        <5>2. CASE i < line
          <6>1. PICK k \in 1..Len(table) : table[k] = layout[i]
            BY <2>1, <5>2 DEF TableInv
          <6>2. QED
            BY <4>1, <6>1 DEF TypeOK
        <5>3. QED
          BY <2>1, <5>1, <5>2
      <4>6. \A k \in 1..Len(table') : table'[k] \in Globals
        BY <2>4
      <4>7. QED
        BY <2>1, <2>2, <4>3, <4>4, <4>5, <4>6 DEF TableInv, HasTmp
    <3>2. CASE ~Taken(s)
      BY <1>1, <2>1, <2>2, <2>3, <3>2 DEF TableInv, HasTmp, TypeOK
    <3>3. QED
      BY <3>1, <3>2
  <2>6. TypeOK'
    BY <2>1, <2>2, <2>4, <2>5, TableFits DEF TypeOK, TableInv
  <2>7. AloneInv' /\ RunInv' /\ HandleInv'
    BY <2>1, <2>2 DEF AloneInv, RunInv, HandleInv, Alive
  <2>8. StartInv'
    BY <2>1, <2>2 DEF StartInv, StartMaps, StartMem, InHand, Remapped, HasTmp, TableInv
  <2>9. QED
    BY <2>5, <2>6, <2>7, <2>8
<1>3. CASE ParseEnd
  <2>1. /\ pc = "parse" /\ pc' = "tmp" /\ line > Len(layout)
        /\ UNCHANGED <<layout, missing, line, table, j, maps, mem, stage, known>>
    BY <1>3 DEF ParseEnd, Goto, fileVars, parseVars, threadVars
  <2>2. TableInv'
    <3>1. \A a \in Globals : \E k \in 1..Len(table) : table[k] = a
      <4>1. \A a \in Segs : \E i \in 1..Len(layout) : layout[i] = a
        BY <1>1 DEF ToSet
      <4>2. \A i \in 1..Len(layout) : i < line
        BY <1>1, <2>1 DEF TableInv
      <4>3. \A i \in 1..Len(layout) :
              i < line /\ Taken(layout[i]) => \E k \in 1..Len(table) : table[k] = layout[i]
        BY <1>1, <2>1 DEF TableInv
      <4>4. QED
        BY <4>1, <4>2, <4>3 DEF Globals
    <3>2. QED
      BY <2>1, <3>1 DEF TableInv, TypeOK, HasTmp
  <2>3. TypeOK' /\ AloneInv' /\ RunInv' /\ HandleInv'
    BY <2>1 DEF TypeOK, AloneInv, RunInv, HandleInv, Alive
  <2>4. StartInv'
    BY <2>1 DEF StartInv, StartMaps, StartMem, InHand, Remapped, HasTmp, TableInv
  <2>5. QED
    BY <2>2, <2>3, <2>4
<1>4. QED
  BY <1>2, <1>3

\* While start-up remaps, there is one process and it has given out no handle.
LEMMA StillAlone ==
  ASSUME Inv, pc # "run", pc' # "run", UNCHANGED <<stage, known>>
  PROVE  AloneInv' /\ RunInv' /\ HandleInv'
  BY Layout DEF Inv, AloneInv, RunInv, HandleInv, Alive

\* A store changes one frame.
LEMMA OneFrame ==
  ASSUME TypeOK, NEW f \in Frames, NEW v, SetMem(f, v)
  PROVE  mem'[f] = v /\ \A g \in Frames \ {f} : mem'[g] = mem[g]
  BY DEF TypeOK, SetMem

\* The entry in hand is a writable segment, not among the ones before it.
LEMMA EntryInHand ==
  ASSUME Inv, pc \in HasTmp \/ (pc = "tmp" /\ j <= Len(table))
  PROVE  /\ j \in 1..Len(table) /\ table[j] \in Globals /\ table[j] \in Segs
         /\ table[j] # Stack /\ Perm[table[j]] = "rw-p"
         /\ \A i \in 1..(j - 1) : table[i] # table[j]
<1>1. j \in 1..Len(table)
  BY DEF Inv, TypeOK, TableInv
<1>2. table[j] \in Globals
  BY <1>1 DEF Inv, TableInv
<1>3. \A i \in 1..(j - 1) : table[i] # table[j]
  <2>1. \A i, k \in 1..Len(table) : table[i] = table[k] => i = k
    BY DEF Inv, TableInv
  <2>2. \A i \in 1..(j - 1) : i \in 1..Len(table) /\ i # j
    BY <1>1
  <2>3. QED
    BY <1>1, <2>1, <2>2
<1>4. QED
  BY <1>1, <1>2, <1>3, Layout DEF Globals, Taken

\* Each step that remaps a segment keeps the invariant: contents move to the
\* temporary zone and back and nothing else moves (myglobals.h:29).
LEMMA RemapStep ==
  ASSUME Inv, MapTmp \/ CopyOut \/ Unmap \/ Open \/ MapShared \/ CopyBack \/ Release
  PROVE  Inv'
<1> USE Layout
<1> DEFINE t == table[j]
<1>0. UNCHANGED <<layout, missing, line, table, stage, known>>
  BY DEF MapTmp, CopyOut, Unmap, Open, MapShared, CopyBack, Release,
         fileVars, parseVars, threadVars
<1>a. /\ j \in 1..Len(table) /\ t \in Globals /\ t \in Segs /\ t # Stack /\ Perm[t] = "rw-p"
      /\ \A i \in 1..(j - 1) : table[i] # t
  BY EntryInHand DEF MapTmp, CopyOut, Unmap, Open, MapShared, CopyBack, Release, HasTmp
<1>b. pc # "run" /\ pc' # "run"
  BY DEF MapTmp, CopyOut, Unmap, Open, MapShared, CopyBack, Release, Goto
<1>c. AloneInv' /\ RunInv' /\ HandleInv'
  BY <1>0, <1>b, StillAlone
<1>d. TableInv'
  BY <1>0, <1>a DEF Inv, TypeOK, TableInv, HasTmp, Goto,
     MapTmp, CopyOut, Unmap, Open, MapShared, CopyBack, Release
<1>1. CASE MapTmp
  <2>1. CASE pc' = "aborted"
    BY <1>0, <1>1, <1>c, <1>d, <2>1 DEF MapTmp, Inv, TypeOK, StartInv, Goto
  <2>2. CASE pc' = "copy"
    <3>1. pc = "tmp" /\ j' = j /\ SetMap(Tmp, <<Main, Tmp>>) /\ SetMem(<<Main, Tmp>>, Zero)
      BY <1>1, <2>2 DEF MapTmp, Goto
    <3>2. TypeOK'
      BY <1>0, <2>2, <3>1 DEF Inv, TypeOK, SetMap, SetMem, Values
    <3>3. Remapped' = Remapped
      BY <1>0, <2>2, <3>1 DEF Remapped
    <3>4. StartMaps'
      BY <1>0, <1>a, <2>2, <3>1, <3>3
         DEF Inv, TypeOK, StartInv, StartMaps, SetMap, InHand, HasTmp
    <3>5. \A a \in Globals \cup {Stack} : mem'[maps'[Main][a]] = a
      <4>1. \A g \in Frames \ {<<Main, Tmp>>} : mem'[g] = mem[g]
        BY <3>1, OneFrame DEF Inv
      <4>2. \A a \in Segs : maps'[Main][a] = maps[Main][a] /\ maps[Main][a] \in {<<Main, a>>, <<Shared, a>>}
        BY <3>1 DEF Inv, TypeOK, StartInv, StartMaps, SetMap, InHand
      <4>3. QED
        BY <3>1, <4>1, <4>2 DEF Inv, StartInv, StartMem, InHand
    <3>6. QED
      BY <1>c, <1>d, <2>2, <3>2, <3>4, <3>5 DEF Inv, StartInv, StartMem
  <2>3. QED
    BY <1>1, <2>1, <2>2 DEF MapTmp, Goto
<1>2. CASE CopyOut
  <2>1. pc = "copy" /\ pc' = "unmap" /\ j' = j /\ maps' = maps
    BY <1>2 DEF CopyOut, Goto
  <2>2. maps[Main][Tmp] = <<Main, Tmp>> /\ mem[maps[Main][t]] = t
    BY <1>a, <2>1 DEF Inv, StartInv, StartMaps, StartMem, HasTmp, InHand
  <2>3. SetMem(<<Main, Tmp>>, t)
    BY <1>2, <2>2 DEF CopyOut
  <2>4. TypeOK'
    BY <1>0, <1>a, <2>1, <2>3 DEF Inv, TypeOK, SetMem, Values
  <2>5. Remapped' = Remapped
    BY <1>0, <2>1 DEF Remapped
  <2>6. StartMaps'
    BY <1>0, <2>1, <2>5 DEF Inv, StartInv, StartMaps, InHand, HasTmp
  <2>7. StartMem'
    <3>1. mem'[<<Main, Tmp>>] = t /\ \A g \in Frames \ {<<Main, Tmp>>} : mem'[g] = mem[g]
      BY <2>3, OneFrame DEF Inv
    <3>2. \A a \in Segs : maps[Main][a] \in {<<Main, a>>, <<Shared, a>>}
      BY <2>1 DEF Inv, StartInv, StartMaps, InHand
    <3>3. QED
      BY <1>0, <2>1, <3>1, <3>2 DEF Inv, StartInv, StartMem, InHand
  <2>8. QED
    BY <1>c, <1>d, <2>4, <2>6, <2>7 DEF Inv, StartInv
<1>3. CASE Unmap
  <2>1. pc = "unmap" /\ pc' = "open" /\ j' = j /\ mem' = mem /\ SetMap(t, None)
    BY <1>3 DEF Unmap, Goto
  <2>2. TypeOK'
    BY <1>0, <1>a, <2>1 DEF Inv, TypeOK, SetMap
  <2>3. StartInv'
    BY <1>0, <1>a, <2>1 DEF Inv, TypeOK, StartInv, StartMaps, StartMem, SetMap, InHand, HasTmp, Remapped
  <2>4. QED
    BY <1>c, <1>d, <2>2, <2>3 DEF Inv
<1>4. CASE Open
  <2>1. pc = "open" /\ pc' \in {"fault", "map"} /\ j' = j /\ mem' = mem /\ maps' = maps
    BY <1>4 DEF Open, Goto
  <2>2. TypeOK'
    BY <1>0, <2>1 DEF Inv, TypeOK
  <2>3. Remapped' = Remapped
    BY <1>0, <2>1 DEF Remapped
  <2>4. StartInv'
    BY <1>0, <1>a, <2>1, <2>3 DEF Inv, TypeOK, StartInv, StartMaps, StartMem, InHand, HasTmp
  <2>5. QED
    BY <1>c, <1>d, <2>2, <2>4 DEF Inv
<1>5. CASE MapShared
  <2>1. CASE pc' = "aborted"
    BY <1>0, <1>5, <1>c, <1>d, <2>1 DEF MapShared, Inv, TypeOK, StartInv, Goto
  <2>2. CASE pc' = "back"
    <3>1. pc = "map" /\ j' = j /\ SetMap(t, <<Shared, t>>) /\ SetMem(<<Shared, t>>, Zero)
      BY <1>5, <2>2 DEF MapShared, Goto, NewFrame
    <3>2. TypeOK'
      BY <1>0, <1>a, <2>2, <3>1 DEF Inv, TypeOK, SetMap, SetMem, Values
    <3>3. Remapped' = Remapped \cup {t}
      BY <1>0, <2>2, <3>1 DEF Remapped
    <3>4. StartMaps'
      BY <1>0, <1>a, <2>2, <3>1, <3>3
         DEF Inv, TypeOK, StartInv, StartMaps, SetMap, InHand, HasTmp
    <3>5. StartMem'
      <4>1. \A g \in Frames \ {<<Shared, t>>} : mem'[g] = mem[g]
        BY <1>a, <3>1, OneFrame DEF Inv
      <4>2. \A a \in Segs \ {t} : /\ maps'[Main][a] = maps[Main][a]
                                 /\ maps[Main][a] \in {<<Main, a>>, <<Shared, a>>}
        BY <1>a, <3>1 DEF Inv, TypeOK, StartInv, StartMaps, SetMap, InHand
      <4>3. QED
        BY <1>0, <1>a, <2>2, <3>1, <4>1, <4>2 DEF Inv, StartInv, StartMem, InHand
    <3>6. QED
      BY <1>c, <1>d, <3>2, <3>4, <3>5 DEF Inv, StartInv
  <2>3. QED
    BY <1>5, <2>1, <2>2 DEF MapShared, Goto
<1>6. CASE CopyBack
  <2>1. pc = "back" /\ pc' = "release" /\ j' = j /\ maps' = maps
    BY <1>6 DEF CopyBack, Goto
  <2>2. /\ maps[Main][Tmp] = <<Main, Tmp>> /\ mem[<<Main, Tmp>>] = t
        /\ maps[Main][t] = <<Shared, t>>
    BY <1>a, <2>1 DEF Inv, StartInv, StartMaps, StartMem, HasTmp, InHand, Remapped
  <2>3. SetMem(<<Shared, t>>, t)
    BY <1>6, <2>2 DEF CopyBack
  <2>4. TypeOK'
    BY <1>0, <1>a, <2>1, <2>3 DEF Inv, TypeOK, SetMem, Values
  <2>5. Remapped' = Remapped
    BY <1>0, <2>1 DEF Remapped
  <2>6. StartMaps'
    BY <1>0, <2>1, <2>5 DEF Inv, StartInv, StartMaps, InHand, HasTmp
  <2>7. StartMem'
    <3>1. mem'[<<Shared, t>>] = t /\ \A g \in Frames \ {<<Shared, t>>} : mem'[g] = mem[g]
      BY <1>a, <2>3, OneFrame DEF Inv
    <3>2. \A a \in Segs : maps[Main][a] \in {<<Main, a>>, <<Shared, a>>}
      BY <2>1 DEF Inv, StartInv, StartMaps, InHand
    <3>3. QED
      BY <1>0, <1>a, <2>1, <2>2, <3>1, <3>2 DEF Inv, StartInv, StartMem, InHand
  <2>8. QED
    BY <1>c, <1>d, <2>4, <2>6, <2>7 DEF Inv, StartInv
<1>7. CASE Release
  <2>1. pc = "release" /\ pc' = "tmp" /\ j' = j + 1 /\ mem' = mem /\ SetMap(Tmp, None)
    BY <1>7 DEF Release, Goto
  <2>2. TypeOK'
    BY <1>0, <1>a, <2>1 DEF Inv, TypeOK, SetMap
  <2>3. Remapped' = Remapped
    BY <1>0, <1>a, <2>1 DEF Remapped
  <2>4. StartInv'
    BY <1>0, <1>a, <2>1, <2>3 DEF Inv, TypeOK, StartInv, StartMaps, StartMem, SetMap, InHand, HasTmp
  <2>5. QED
    BY <1>c, <1>d, <2>2, <2>4 DEF Inv
<1>8. QED
  BY <1>1, <1>2, <1>3, <1>4, <1>5, <1>6, <1>7

\* When the last segment is remapped, the one process has every global shared.
LEMMA UpStep ==
  ASSUME Inv, Up
  PROVE  Inv' /\ \A a \in Globals \cup {Stack} : mem[maps[Main][a]] = a
<1> USE Layout
<1>1. /\ pc = "tmp" /\ pc' = "run" /\ j > Len(table)
      /\ UNCHANGED <<layout, missing, line, table, j, maps, mem, stage, known>>
  BY DEF Up, Goto, fileVars, parseVars, threadVars
<1>2. TypeOK' /\ TableInv' /\ AloneInv' /\ StartInv' /\ HandleInv'
  BY <1>1 DEF Inv, TypeOK, TableInv, AloneInv, StartInv, HandleInv, HasTmp, Alive
<1>3. Globals \subseteq Remapped
  BY <1>1 DEF Inv, TypeOK, TableInv, Remapped
<1>4. Stack \notin Remapped
  BY <1>1 DEF Inv, TypeOK, TableInv, Remapped
<1>5. Alive' = {Main} /\ Main \in Procs
  BY <1>1 DEF Inv, AloneInv, Alive
<1>6. RunInv'
  BY <1>1, <1>3, <1>4, <1>5, LayoutAssumption
     DEF Inv, RunInv, StartInv, StartMaps, InHand, HasTmp
<1>7. \A a \in Globals \cup {Stack} : mem[maps[Main][a]] = a
  BY <1>1 DEF Inv, StartInv, StartMem, InHand
<1>8. QED
  BY <1>2, <1>6, <1>7 DEF Inv

-----------------------------------------------------------------------------

\* Segments and status pages are where RunInv says, for one process.
LEMMA ProcessMaps ==
  ASSUME Inv, pc = "run", NEW p \in Alive
  PROVE  /\ p \in Procs /\ p # Shared
         /\ \A a \in Globals : maps[p][a] = <<Shared, a>>
         /\ maps[p][Stack] = <<p, Stack>>
         /\ \A a \in Segs : maps[p][a] \in {<<p, a>>, <<Shared, a>>}
  BY Layout DEF Inv, RunInv, Alive

\* A store of the program keeps the invariant.
LEMMA StoreStep ==
  ASSUME Inv, NEW p \in Procs, NEW a \in Vars, Store(p, a)
  PROVE  Inv'
<1> USE Layout
<1>1. /\ pc = "run" /\ p \in Alive /\ mem' = [mem EXCEPT ![maps[p][a]] = p]
      /\ UNCHANGED <<layout, missing, pc, line, table, j, maps, stage, known>>
  BY DEF Store, Alive, fileVars, parseVars, threadVars
<1>2. maps[p][a] \in {<<p, a>>, <<Shared, a>>} /\ a \in Segs /\ p # Shared
  BY <1>1, ProcessMaps
<1>3. \A c \in Procs : mem'[<<Shared, c>>] = mem[<<Shared, c>>]
  BY <1>1, <1>2 DEF Inv, TypeOK
<1>4. TypeOK'
  BY <1>1 DEF Inv, TypeOK, Values
<1>5. TableInv' /\ AloneInv' /\ StartInv' /\ RunInv'
  BY <1>1 DEF Inv, TableInv, AloneInv, StartInv, RunInv, HasTmp, Alive
<1>6. HandleInv'
  BY <1>1, <1>3 DEF Inv, HandleInv, Alive
<1>7. QED
  BY <1>4, <1>5, <1>6 DEF Inv

\* A new thread stores its status in the frame every handle of it leads to.
LEMMA StoreStatusStep ==
  ASSUME Inv, NEW p \in Procs, NEW c \in Procs, NEW a \in ToSet(Pages), StoreStatus(p, c, a)
  PROVE  /\ Inv'
         /\ pc = "run" /\ UNCHANGED <<pc, maps>> /\ Alive' = Alive
         /\ \A f \in Frames \ {<<Shared, c>>} : mem'[f] = mem[f]
<1> USE Layout
<1>1. /\ stage[c] = "new" /\ <<a, c>> \in known[p]
      /\ mem' = [mem EXCEPT ![maps[c][a]] = c]
      /\ stage' = [stage EXCEPT ![c] = "running"]
      /\ UNCHANGED <<layout, missing, pc, line, table, j, maps, known>>
  BY DEF StoreStatus, fileVars, parseVars
<1>2. maps[c][a] = <<Shared, c>>
  BY <1>1 DEF Inv, HandleInv
<1>3. mem'[<<Shared, c>>] = c /\ \A f \in Frames \ {<<Shared, c>>} : mem'[f] = mem[f]
  BY <1>1, <1>2 DEF Inv, TypeOK
<1>4. pc = "run"
  BY <1>1 DEF Inv, AloneInv
<1>5. Alive' = Alive
  BY <1>1 DEF Inv, TypeOK, Alive
<1>6. TypeOK'
  BY <1>1, <1>2 DEF Inv, TypeOK, Values
<1>7. TableInv' /\ AloneInv' /\ StartInv' /\ RunInv'
  BY <1>1, <1>4, <1>5 DEF Inv, TableInv, AloneInv, StartInv, RunInv, HasTmp
<1>8. HandleInv'
  <2>1. \A d \in Procs : stage'[d] = IF d = c THEN "running" ELSE stage[d]
    BY <1>1 DEF Inv, TypeOK
  <2>2. \A d \in Procs \ {c} : mem'[<<Shared, d>>] = mem[<<Shared, d>>]
    BY <1>3
  <2>3. \A q \in Procs : \A h \in known[q] : h[2] \in Procs
    BY DEF Inv, TypeOK
  <2>4. \A q \in Procs \ Alive' : known'[q] = {}
    BY <1>1, <1>5 DEF Inv, HandleInv
  <2>5. \A q \in Procs : \A h \in known'[q] :
          /\ h[2] # Main /\ stage'[h[2]] # "unborn" /\ maps'[q][h[1]] = <<Shared, h[2]>>
          /\ stage'[h[2]] = "new" => maps'[h[2]][h[1]] = <<Shared, h[2]>>
    <3>1. TAKE q \in Procs
    <3>2. TAKE h \in known'[q]
    <3>3. h \in known[q] /\ h[2] \in Procs
      BY <1>1, <2>3
    <3>4. /\ h[2] # Main /\ stage[h[2]] # "unborn" /\ maps[q][h[1]] = <<Shared, h[2]>>
          /\ stage[h[2]] = "new" => maps[h[2]][h[1]] = <<Shared, h[2]>>
      BY <3>3 DEF Inv, HandleInv
    <3>5. QED
      BY <1>1, <2>1, <3>3, <3>4
  <2>6. stage'[Main] \in {"running", "gone"}
    BY <2>1 DEF Inv, HandleInv
  <2>7. \A d \in Procs \ {Main} : stage'[d] \in {"running", "gone"} => mem'[<<Shared, d>>] = d
    BY <1>3, <2>1, <2>2 DEF Inv, HandleInv
  <2>8. QED
    BY <2>4, <2>5, <2>6, <2>7 DEF HandleInv
<1>9. QED
  BY <1>1, <1>3, <1>4, <1>5, <1>6, <1>7, <1>8 DEF Inv

\* The page table and the handles of a thread that exits go; the rest stays.
LEMMA ExitStep ==
  ASSUME Inv, NEW p \in Procs, Exit(p)
  PROVE  /\ Inv'
         /\ pc = "run" /\ pc' = pc /\ p \in Alive /\ Alive' = Alive \ {p}
         /\ \A q \in Procs \ {p} : maps'[q] = maps[q]
         /\ \A f \in Frames : f[1] # p => mem'[f] = mem[f]
<1> USE Layout
<1>1. /\ pc = "run" /\ stage[p] = "running"
      /\ stage' = [stage EXCEPT ![p] = "gone"]
      /\ maps' = [maps EXCEPT ![p] = [a \in Addr |-> None]]
      /\ mem' = [f \in Frames |-> IF f[1] = p THEN Zero ELSE mem[f]]
      /\ known' = [known EXCEPT ![p] = {}]
      /\ UNCHANGED <<layout, missing, pc, line, table, j>>
  BY DEF Exit, fileVars, parseVars
<1>2. /\ \A q \in Procs \ {p} : maps'[q] = maps[q] /\ known'[q] = known[q] /\ stage'[q] = stage[q]
      /\ known'[p] = {} /\ stage'[p] = "gone"
      /\ \A f \in Frames : f[1] # p => mem'[f] = mem[f]
  BY <1>1 DEF Inv, TypeOK
<1>3. Alive' = Alive \ {p} /\ p \in Alive
  BY <1>1, <1>2 DEF Alive
<1>4. TypeOK'
  <2>1. maps' \in [Procs -> [Addr -> Frames \cup {None}]]
    BY <1>1 DEF Inv, TypeOK
  <2>2. mem' \in [Frames -> Values]
    BY <1>1 DEF Inv, TypeOK, Values
  <2>3. QED
    BY <1>1, <2>1, <2>2 DEF Inv, TypeOK
<1>5. TableInv' /\ AloneInv' /\ StartInv'
  BY <1>1 DEF Inv, TableInv, AloneInv, StartInv, HasTmp
<1>6. RunInv'
  BY <1>1, <1>2, <1>3 DEF Inv, RunInv, Alive
<1>7. HandleInv'
  <2>1. \A c \in Procs : mem'[<<Shared, c>>] = mem[<<Shared, c>>]
    BY <1>2
  <2>2. \A q \in Procs : \A h \in known[q] : h[2] \in Procs
    BY DEF Inv, TypeOK
  <2>3. \A q \in Procs \ Alive' : known'[q] = {}
    BY <1>2, <1>3 DEF Inv, HandleInv
  <2>4. \A q \in Procs : \A h \in known'[q] :
          /\ h[2] # Main /\ stage'[h[2]] # "unborn" /\ maps'[q][h[1]] = <<Shared, h[2]>>
          /\ stage'[h[2]] = "new" => maps'[h[2]][h[1]] = <<Shared, h[2]>>
    <3>1. TAKE q \in Procs
    <3>2. TAKE h \in known'[q]
    <3>3. q # p /\ h \in known[q] /\ h[2] \in Procs
      BY <1>2, <2>2
    <3>4. /\ h[2] # Main /\ stage[h[2]] # "unborn" /\ maps[q][h[1]] = <<Shared, h[2]>>
          /\ stage[h[2]] = "new" => maps[h[2]][h[1]] = <<Shared, h[2]>>
      BY <3>3 DEF Inv, HandleInv
    <3>5. QED
      BY <1>2, <3>3, <3>4
  <2>5. stage'[Main] \in {"running", "gone"}
    BY <1>2 DEF Inv, HandleInv
  <2>6. \A d \in Procs \ {Main} : stage'[d] \in {"running", "gone"} => mem'[<<Shared, d>>] = d
    BY <1>1, <1>2, <2>1 DEF Inv, HandleInv
  <2>7. QED
    BY <2>3, <2>4, <2>5, <2>6 DEF HandleInv
<1>8. QED
  BY <1>1, <1>2, <1>3, <1>4, <1>5, <1>6, <1>7 DEF Inv

\* clone gives the new process the shared frames of its creator and copies of
\* the private ones, and changes no other process (mythread.cpp:74).
LEMMA CreateStep ==
  ASSUME Inv, NEW p \in Procs, NEW c \in Procs, Create(p, c)
  PROVE  /\ Inv'
         /\ pc = "run" /\ pc' = pc
         /\ p \in Alive /\ c \notin Alive /\ Alive' = Alive \cup {c}
         /\ \A q \in Alive : \A a \in Segs : maps'[q][a] = maps[q][a]
         /\ \A a \in Globals : maps'[c][a] = <<Shared, a>>
         /\ maps'[c][Stack] = <<c, Stack>>
         /\ \A f \in Frames : f[1] # c /\ f # <<Shared, c>> => mem'[f] = mem[f]
         /\ mem'[<<c, Stack>>] = mem[<<p, Stack>>]
<1> USE Layout
<1> DEFINE frame == <<Shared, c>>
           mine(a) == [maps[p] EXCEPT ![a] = frame]
<1>1. PICK i \in DOMAIN Pages :
        /\ FirstFree(p, i)
        /\ maps' = [maps EXCEPT ![p] = mine(Pages[i]), ![c] = Cloned(mine(Pages[i]), c)]
        /\ mem' = CloneMem([mem EXCEPT ![frame] = Zero], mine(Pages[i]), c)
        /\ known' = [known EXCEPT ![p] = @ \cup {<<Pages[i], c>>}, ![c] = known[p]]
  BY DEF Create, StatusFrame
<1>2. /\ pc = "run" /\ stage[p] = "running" /\ stage[c] = "unborn"
      /\ stage' = [stage EXCEPT ![c] = "new"]
      /\ UNCHANGED <<layout, missing, pc, line, table, j>>
  BY DEF Create, fileVars, parseVars
<1> DEFINE a == Pages[i]
           m0 == [mem EXCEPT ![frame] = Zero]
           mp == mine(a)
<1>3. a \in ToSet(Pages) /\ maps[p][a] = None /\ a \in Addr
  BY <1>1 DEF FirstFree, FreePages, ToSet
<1>4. p # c /\ p \in Alive /\ c \notin Alive /\ c # Main
  BY <1>2 DEF Inv, HandleInv, Alive
<1>5. /\ mp \in [Addr -> Frames \cup {None}]
      /\ mp[a] = frame /\ \A b \in Addr \ {a} : mp[b] = maps[p][b]
  BY <1>3 DEF Inv, TypeOK
<1>6. /\ maps'[p] = mp /\ maps'[c] = Cloned(mp, c)
      /\ \A q \in Procs \ {p, c} : maps'[q] = maps[q]
  BY <1>1, <1>4 DEF Inv, TypeOK
<1>7. /\ known'[p] = known[p] \cup {<<a, c>>} /\ known'[c] = known[p]
      /\ \A q \in Procs \ {p, c} : known'[q] = known[q]
  BY <1>1, <1>4 DEF Inv, TypeOK
<1>8. \A q \in Procs : stage'[q] = IF q = c THEN "new" ELSE stage[q]
  BY <1>2 DEF Inv, TypeOK
<1>9. Alive' = Alive \cup {c}
  BY <1>8 DEF Alive
<1>10. m0 \in [Frames -> Values] /\ \A f \in Frames \ {frame} : m0[f] = mem[f]
  BY DEF Inv, TypeOK, Values
<1>11. \A f \in Frames : mem'[f] = IF f[1] = c /\ f[2] \in Addr /\ mp[f[2]] # None
                                 THEN m0[mp[f[2]]] ELSE m0[f]
  BY <1>1 DEF CloneMem
<1>12. mem' \in [Frames -> Values]
  BY <1>1, <1>5, <1>10 DEF CloneMem
<1>13. /\ \A b \in Globals : maps[p][b] = <<Shared, b>>
       /\ maps[p][Stack] = <<p, Stack>>
       /\ \A b \in Segs : maps[p][b] \in {<<p, b>>, <<Shared, b>>}
       /\ maps[p][Tmp] = None /\ a \notin Segs /\ a # Tmp /\ p # Shared /\ c # Shared
       /\ \A b \in ToSet(Pages) : maps[p][b] = None \/ \E d \in Procs : maps[p][b] = <<Shared, d>>
  BY <1>2, <1>3, <1>4 DEF Inv, RunInv
<1>14. \A b \in Addr :
         /\ mp[b] = None => maps'[c][b] = None
         /\ \A x \in Addr \cup Procs : mp[b] = <<Shared, x>> => maps'[c][b] = <<Shared, x>>
         /\ mp[b] = <<p, b>> => maps'[c][b] = <<c, b>>
  <2>1. \A b \in Addr : maps'[c][b] = IF mp[b] # None /\ mp[b][1] # Shared THEN <<c, b>> ELSE mp[b]
    BY <1>6 DEF Cloned
  <2> HIDE DEF mp
  <2>3. TAKE b \in Addr
  <2>4. mp[b] = None => maps'[c][b] = None
    BY <2>1
  <2>5. \A x \in Addr \cup Procs : mp[b] = <<Shared, x>> => maps'[c][b] = <<Shared, x>>
    <3>1. TAKE x \in Addr \cup Procs
    <3>2. HAVE mp[b] = <<Shared, x>>
    <3>3. mp[b][1] = Shared
      BY <3>2
    <3>4. maps'[c][b] = mp[b]
      BY <2>1, <3>3
    <3>5. QED
      BY <3>2, <3>4
  <2>6. mp[b] = <<p, b>> => maps'[c][b] = <<c, b>>
    <3>1. HAVE mp[b] = <<p, b>>
    <3>2. mp[b][1] = p /\ mp[b] # None
      BY <3>1
    <3>3. QED
      BY <1>13, <2>1, <3>2
  <2>7. QED
    BY <2>4, <2>5, <2>6
<1>15. TypeOK'
  <2>1. Cloned(mp, c) \in [Addr -> Frames \cup {None}]
    BY <1>5 DEF Cloned
  <2>2. maps' \in [Procs -> [Addr -> Frames \cup {None}]]
    BY <1>1, <1>5, <2>1 DEF Inv, TypeOK
  <2>3. known' \in [Procs -> SUBSET (ToSet(Pages) \X Procs)]
    BY <1>1, <1>3 DEF Inv, TypeOK
  <2>4. QED
    BY <1>2, <1>12, <2>2, <2>3 DEF Inv, TypeOK
<1>16. TableInv' /\ AloneInv' /\ StartInv'
  BY <1>2 DEF Inv, TableInv, AloneInv, StartInv, HasTmp
<1>17. /\ \A b \in Globals : maps'[c][b] = <<Shared, b>>
       /\ maps'[c][Stack] = <<c, Stack>>
       /\ \A b \in Segs : maps'[c][b] \in {<<c, b>>, <<Shared, b>>}
       /\ maps'[c][Tmp] = None
       /\ \A b \in ToSet(Pages) : maps'[c][b] = None \/ \E d \in Procs : maps'[c][b] = <<Shared, d>>
  <2>1. \A b \in Segs \cup {Tmp} : mp[b] = maps[p][b]
    BY <1>5, <1>13
  <2>2. \A b \in ToSet(Pages) : mp[b] = None \/ \E d \in Procs : mp[b] = <<Shared, d>>
    BY <1>5, <1>13
  <2> HIDE DEF mp
  <2>3. \A b \in ToSet(Pages) : maps'[c][b] = None \/ \E d \in Procs : maps'[c][b] = <<Shared, d>>
    BY <1>14, <2>2
  <2>4. \A b \in Globals : maps'[c][b] = <<Shared, b>>
    BY <1>13, <1>14, <2>1
  <2>5. maps'[c][Stack] = <<c, Stack>>
    BY <1>13, <1>14, <2>1
  <2>6. \A b \in Segs : maps'[c][b] \in {<<c, b>>, <<Shared, b>>}
    BY <1>13, <1>14, <2>1
  <2>7. maps'[c][Tmp] = None
    BY <1>13, <1>14, <2>1
  <2>8. QED
    BY <2>3, <2>4, <2>5, <2>6, <2>7
<1>18. \A q \in Alive : \A b \in Segs \cup {Tmp} : maps'[q][b] = maps[q][b]
  BY <1>4, <1>5, <1>6, <1>13 DEF Alive
<1>19. RunInv'
  <2> SUFFICES ASSUME NEW q \in Alive'
               PROVE  /\ \A b \in Globals : maps'[q][b] = <<Shared, b>>
                      /\ maps'[q][Stack] = <<q, Stack>>
                      /\ \A b \in Segs : maps'[q][b] \in {<<q, b>>, <<Shared, b>>}
                      /\ maps'[q][Tmp] = None
                      /\ \A b \in ToSet(Pages) :
                           maps'[q][b] = None \/ \E d \in Procs : maps'[q][b] = <<Shared, d>>
    BY DEF RunInv
  <2>1. CASE q = c
    BY <1>17, <2>1
  <2>2. CASE q = p
    BY <1>5, <1>6, <1>13, <2>2
  <2>3. CASE q \in Alive \ {p, c}
    BY <1>2, <1>6, <2>3 DEF Inv, RunInv, Alive
  <2>4. QED
    BY <1>9, <2>1, <2>2, <2>3
<1>20. HandleInv'
  <2>1. \A q \in Procs : \A h \in known[q] :
          /\ h[1] \in ToSet(Pages) /\ h[2] \in Procs \ {c} /\ h[2] # Main
          /\ stage[h[2]] # "unborn" /\ maps[q][h[1]] = <<Shared, h[2]>>
          /\ stage[h[2]] = "new" => maps[h[2]][h[1]] = <<Shared, h[2]>>
    BY <1>2 DEF Inv, TypeOK, HandleInv
  <2>2. \A q \in Procs \ Alive' : known'[q] = {}
    BY <1>4, <1>7, <1>9 DEF Inv, HandleInv
  <2>3. ASSUME NEW q \in Procs, NEW h \in known'[q]
        PROVE  /\ h[2] # Main /\ stage'[h[2]] # "unborn" /\ maps'[q][h[1]] = <<Shared, h[2]>>
               /\ stage'[h[2]] = "new" => maps'[h[2]][h[1]] = <<Shared, h[2]>>
    <3>1. CASE h = <<a, c>> /\ q = p
      BY <1>3, <1>4, <1>5, <1>6, <1>8, <1>13, <1>14, <3>1
    <3>2. CASE ~(h = <<a, c>> /\ q = p)
      <4>1. PICK r \in Procs : h \in known[r] /\ r = IF q = c THEN p ELSE q
        BY <1>7, <3>2
      <4>2. /\ h[1] \in Addr /\ h[2] # c /\ h[2] # Main /\ h[2] \in Procs
            /\ stage'[h[2]] # "unborn" /\ maps[r][h[1]] = <<Shared, h[2]>>
            /\ stage[h[2]] = "new" => maps[h[2]][h[1]] = <<Shared, h[2]>>
        BY <1>8, <2>1, <4>1
      <4>3. maps'[q][h[1]] = <<Shared, h[2]>>
        <5>1. r = p => mp[h[1]] = <<Shared, h[2]>>
          BY <1>3, <1>5, <4>2
        <5>2. q # c => maps'[q][h[1]] = <<Shared, h[2]>>
          BY <1>6, <4>1, <4>2, <5>1
        <5> HIDE DEF mp
        <5>3. q = c => maps'[q][h[1]] = <<Shared, h[2]>>
          BY <1>14, <4>1, <4>2, <5>1
        <5>4. QED
          BY <5>2, <5>3
      <4>4. stage'[h[2]] = "new" => maps'[h[2]][h[1]] = <<Shared, h[2]>>
        BY <1>2, <1>6, <1>8, <4>2
      <4>5. QED
        BY <4>2, <4>3, <4>4
    <3>3. QED
      BY <3>1, <3>2
  <2>4. stage'[Main] \in {"running", "gone"}
    BY <1>4, <1>8 DEF Inv, HandleInv
  <2>5. \A d \in Procs \ {Main} : stage'[d] \in {"running", "gone"} => mem'[<<Shared, d>>] = d
    <3>1. \A d \in Procs \ {c} : mem'[<<Shared, d>>] = mem[<<Shared, d>>]
      BY <1>10, <1>11, <1>13
    <3>2. QED
      BY <1>8, <3>1 DEF Inv, HandleInv
  <2>6. QED
    BY <2>2, <2>3, <2>4, <2>5 DEF HandleInv
<1>21. \A f \in Frames : f[1] # c /\ f # frame => mem'[f] = mem[f]
  BY <1>10, <1>11
<1>22. mem'[<<c, Stack>>] = mem[<<p, Stack>>]
  BY <1>5, <1>10, <1>11, <1>13
<1>23. QED
  BY <1>2, <1>4, <1>9, <1>15, <1>16, <1>17, <1>18, <1>19, <1>20, <1>21, <1>22 DEF Inv

\* One step keeps the invariant.
LEMMA InvStep ==
  ASSUME Inv, [Next]_vars
  PROVE  Inv'
<1>1. CASE UNCHANGED vars
  <2>1. UNCHANGED <<layout, missing, pc, line, table, j, maps, mem, stage, known>>
    BY <1>1 DEF vars, fileVars, parseVars, threadVars
  <2>2. TypeOK' /\ TableInv' /\ AloneInv'
    BY <2>1 DEF Inv, TypeOK, TableInv, AloneInv
  <2>3. StartInv'
    <3>1. Remapped' = Remapped
      BY <2>1 DEF Remapped
    <3>2. QED
      BY <2>1, <3>1 DEF Inv, StartInv, StartMaps, StartMem, InHand
  <2>4. RunInv' /\ HandleInv'
    BY <2>1 DEF Inv, RunInv, HandleInv, Alive
  <2>5. QED
    BY <2>2, <2>3, <2>4 DEF Inv
<1>2. CASE StartUp
  BY <1>2, ParseStep, RemapStep, UpStep DEF StartUp
<1>3. ASSUME NEW p \in Procs, NEW a \in Vars, Store(p, a)
      PROVE  Inv'
  BY <1>3, StoreStep
<1>4. ASSUME NEW p \in Procs, NEW c \in Procs, Create(p, c)
      PROVE  Inv'
  BY <1>4, CreateStep
<1>5. ASSUME NEW p \in Procs, NEW c \in Procs, NEW a \in ToSet(Pages), StoreStatus(p, c, a)
      PROVE  Inv'
  BY <1>5, StoreStatusStep
<1>6. ASSUME NEW p \in Procs, Exit(p)
      PROVE  Inv'
  BY <1>6, ExitStep
<1>7. QED
  BY <1>1, <1>2, <1>3, <1>4, <1>5, <1>6 DEF Next

\* The invariant holds in every reachable state.
THEOREM Invariance == Spec => []Inv
  BY InvInit, InvStep, PTL DEF Spec

\* Start-up and clone keep page tables, frames and handles well formed, and the
\* parser stays inside map[] (pmparser.c:31).
THEOREM AddressSpaceTyping == Spec => []TypeOK
<1>1. Inv => TypeOK
  BY DEF Inv
<1>2. QED
  BY <1>1, Invariance, PTL

\* Whatever the order of the segments, start-up faults only when the file of the
\* library or of libc cannot be opened (myglobals.h:43).
THEOREM StartUpTouchesWhatIsMapped == Spec => []NoFault
<1>1. Init => NoFault
  BY DEF Init, NoFault
<1>2. Inv /\ NoFault /\ [Next]_vars => NoFault'
  <2> SUFFICES ASSUME Inv, NoFault, [Next]_vars PROVE NoFault'
    OBVIOUS
  <2>1. CASE Open
    <3>1. pc = "open" /\ missing' = missing
      BY <2>1 DEF Open, fileVars
    <3>2. table[j] \in Segs /\ \A a \in Segs \ {table[j]} : maps[Main][a] # None
      <4>1. table[j] \in Segs
        BY <3>1, EntryInHand DEF HasTmp
      <4>2. \A a \in Segs \ {table[j]} : maps[Main][a] \in {<<Main, a>>, <<Shared, a>>}
        BY <3>1 DEF Inv, StartInv, StartMaps, InHand
      <4>3. QED
        BY <4>1, <4>2, Layout
    <3>3. HasFile(table[j]) => IsMapped({Tls})
      BY <3>2, Layout, LayoutAssumption DEF HasFile, IsMapped
    <3>4. ~IsMapped({Lib, Libc}) => table[j] \in {Lib, Libc}
      BY <3>2, Layout DEF IsMapped
    <3>5. QED
      BY <2>1, <3>1, <3>3, <3>4 DEF Open, Goto, NoFault
  <2>2. CASE ~Open /\ StartUp
    BY <2>2 DEF NoFault, StartUp, Parse, ParseEnd, MapTmp, CopyOut, Unmap, MapShared,
                CopyBack, Release, Up, Goto, fileVars
  <2>3. CASE ~StartUp
    BY <2>3 DEF NoFault, Next, Store, Create, StoreStatus, Exit, vars, fileVars
  <2>4. QED
    BY <2>1, <2>2, <2>3
<1>3. QED
  BY <1>1, <1>2, Invariance, PTL DEF Spec

\* A handle leads to the status of its thread in its creator and in everybody
\* forked from it since, for any number of threads (mythread.cpp:17, 62).
THEOREM HandlesLead == Spec => []HandleNames
<1>1. Inv => HandleNames
  <2> SUFFICES ASSUME Inv, NEW p \in Alive, NEW h \in known[p]
               PROVE  /\ maps[p][h[1]] # None
                      /\ stage[h[2]] \in {"running", "gone"} => mem[maps[p][h[1]]] = h[2]
    BY DEF HandleNames
  <2>1. p \in Procs /\ h[2] \in Procs
    BY DEF Inv, TypeOK, Alive
  <2>2. h[2] # Main /\ maps[p][h[1]] = <<Shared, h[2]>>
    BY <2>1 DEF Inv, HandleInv
  <2>3. stage[h[2]] \in {"running", "gone"} => mem[<<Shared, h[2]>>] = h[2]
    BY <2>1, <2>2 DEF Inv, HandleInv
  <2>4. QED
    BY <2>1, <2>2, <2>3, Layout
<1>2. QED
  BY <1>1, Invariance, PTL

-----------------------------------------------------------------------------

\* Start-up is no step of the program: what the one process reads stays.
LEMMA StartUpStutters ==
  ASSUME Inv, StartUp
  PROVE  UNCHANGED <<Alive, Seen>>
<1>1. stage' = stage
  BY DEF StartUp, Parse, ParseEnd, MapTmp, CopyOut, Unmap, Open, MapShared, CopyBack,
         Release, Up, threadVars
<1>2. Alive' = Alive
  BY <1>1 DEF Alive
<1>3. pc # "run"
  BY DEF StartUp, Parse, ParseEnd, MapTmp, CopyOut, Unmap, Open, MapShared, CopyBack, Release, Up
<1>4. CASE Up
  <2>1. UNCHANGED <<mem, maps>>
    BY <1>4 DEF Up
  <2>2. \A a \in Globals \cup {Stack} : mem[maps[Main][a]] = a
    BY <1>4, UpStep
  <2>3. Alive = {Main}
    BY <1>3, Layout DEF Inv, AloneInv, Alive
  <2>4. QED
    BY <1>2, <1>3, <2>1, <2>2, <2>3 DEF Seen
<1>5. CASE ~Up
  <2>1. pc' # "run"
    BY <1>3, <1>5 DEF StartUp, Parse, ParseEnd, MapTmp, CopyOut, Unmap, Open, MapShared,
                      CopyBack, Release, Goto
  <2>2. QED
    BY <1>2, <1>3, <2>1 DEF Seen
<1>6. QED
  BY <1>4, <1>5

\* A store to a global is read by all, a store to the stack by its owner.
LEMMA StoreShared ==
  ASSUME Inv, NEW p \in Procs, NEW a \in Vars, Store(p, a)
  PROVE  [T!Next]_<<Alive, Seen>>
<1> USE Layout
<1> DEFINE Cells == Globals \cup {Stack}
<1>1. /\ pc = "run" /\ pc' = "run" /\ p \in Alive /\ Alive' = Alive /\ maps' = maps
      /\ mem' = [mem EXCEPT ![maps[p][a]] = p]
  BY DEF Store, Alive, threadVars
<1>2. maps[p][a] \in Frames /\ maps[p][a] \in {<<p, a>>, <<Shared, a>>}
  BY <1>1, ProcessMaps
<1>3. \A f \in Frames : mem'[f] = IF f = maps[p][a] THEN p ELSE mem[f]
  BY <1>1, <1>2 DEF Inv, TypeOK
<1>4. \A q \in Alive : \A b \in Cells :
        /\ maps[q][b] = IF b = Stack THEN <<q, Stack>> ELSE <<Shared, b>>
        /\ maps[q][b] \in Frames
  BY <1>1, ProcessMaps
<1>5. Seen = [q \in Alive |-> [b \in Cells |-> mem[maps[q][b]]]]
  BY <1>1 DEF Seen
<1>6. Seen' = [q \in Alive |-> [b \in Cells |-> mem'[maps[q][b]]]]
  BY <1>1 DEF Seen
<1>7. CASE a \in Cells
  <2>1. \A q \in Alive : \A b \in Cells :
          mem'[maps[q][b]] = IF b = a /\ (a \in Globals \/ q = p) THEN p ELSE mem[maps[q][b]]
    <3>1. TAKE q \in Alive
    <3>2. TAKE b \in Cells
    <3>3. maps[q][b] = maps[p][a] <=> b = a /\ (a \in Globals \/ q = p)
      <4>1. q \in Procs /\ q # Shared /\ p # Shared /\ Stack \notin Globals
        BY DEF Alive
      <4>2. maps[q][b] = IF b = Stack THEN <<q, Stack>> ELSE <<Shared, b>>
        BY <1>4
      <4>3. maps[p][a] = IF a = Stack THEN <<p, Stack>> ELSE <<Shared, a>>
        BY <1>1, <1>4, <1>7
      <4>4. QED
        BY <1>7, <4>1, <4>2, <4>3
    <3>4. QED
      BY <1>3, <1>4, <3>3
  <2>2. Seen' = [q \in Alive |-> IF a \in Globals \/ q = p THEN [Seen[q] EXCEPT ![a] = p] ELSE Seen[q]]
    <3>1. ASSUME NEW q \in Alive
          PROVE  Seen'[q] = IF a \in Globals \/ q = p THEN [Seen[q] EXCEPT ![a] = p] ELSE Seen[q]
      <4>1. Seen[q] = [b \in Cells |-> mem[maps[q][b]]]
        BY <1>5
      <4>2. Seen'[q] = [b \in Cells |-> mem'[maps[q][b]]]
        BY <1>6
      <4>3. CASE a \in Globals \/ q = p
        <5>1. Seen'[q] = [b \in Cells |-> IF b = a THEN p ELSE mem[maps[q][b]]]
          BY <2>1, <4>2, <4>3
        <5>2. QED
          BY <1>7, <4>1, <4>3, <5>1
      <4>4. CASE ~(a \in Globals \/ q = p)
        BY <2>1, <4>1, <4>2, <4>4
      <4>5. QED
        BY <4>3, <4>4
    <3>2. QED
      BY <1>6, <3>1
  <2>3. T!Store(p, a, p)
    BY <1>1, <2>2 DEF T!Store
  <2>4. QED
    BY <1>1, <1>7, <2>3 DEF T!Next
<1>8. CASE a \notin Cells
  <2>1. \A q \in Alive : \A b \in Cells : mem'[maps[q][b]] = mem[maps[q][b]]
    <3>1. TAKE q \in Alive
    <3>2. TAKE b \in Cells
    <3>3. maps[q][b] \in {<<q, b>>, <<Shared, b>>} /\ b # a
      BY <1>4, <1>8
    <3>4. maps[q][b] # maps[p][a]
      BY <1>2, <3>3
    <3>5. QED
      BY <1>3, <1>4, <3>4
  <2>2. Seen' = Seen
    BY <1>5, <1>6, <2>1
  <2>3. QED
    BY <1>1, <2>2
<1>9. QED
  BY <1>7, <1>8

\* A new process reads what its creator does.
LEMMA CreateBegins ==
  ASSUME Inv, NEW p \in Procs, NEW c \in Procs, Create(p, c)
  PROVE  T!Next
<1> USE Layout
<1> DEFINE Cells == Globals \cup {Stack}
<1>1. /\ pc = "run" /\ pc' = "run" /\ p \in Alive /\ c \notin Alive /\ Alive' = Alive \cup {c}
      /\ \A q \in Alive : \A a \in Cells : maps'[q][a] = maps[q][a]
      /\ \A a \in Globals : maps'[c][a] = <<Shared, a>>
      /\ maps'[c][Stack] = <<c, Stack>>
      /\ \A f \in Frames : f[1] # c /\ f # <<Shared, c>> => mem'[f] = mem[f]
      /\ mem'[<<c, Stack>>] = mem[<<p, Stack>>]
  BY CreateStep
<1>2. \A q \in Alive : \A b \in Cells :
        maps[q][b] = IF b = Stack THEN <<q, Stack>> ELSE <<Shared, b>>
  BY <1>1, ProcessMaps
<1>3. \A q \in Procs \cup {Shared} : \A b \in Segs : q # c => mem'[<<q, b>>] = mem[<<q, b>>]
  <2>1. TAKE q \in Procs \cup {Shared}
  <2>2. TAKE b \in Segs
  <2>3. <<q, b>>[1] = q /\ <<q, b>> # <<Shared, c>> /\ <<q, b>> \in Frames
    OBVIOUS
  <2>4. QED
    BY <1>1, <2>3
<1>4. \A q \in Alive : \A b \in Cells : mem'[maps'[q][b]] = mem[maps[q][b]]
  <2>1. TAKE q \in Alive
  <2>2. TAKE b \in Cells
  <2>3. q \in Procs /\ q # c /\ b \in Segs /\ maps'[q][b] = maps[q][b]
    BY <1>1 DEF Alive
  <2>4. maps[q][b] \in {<<q, b>>, <<Shared, b>>}
    BY <1>2
  <2>5. QED
    BY <1>3, <2>3, <2>4
<1>5. \A b \in Cells : mem'[maps'[c][b]] = mem[maps[p][b]]
  <2>1. TAKE b \in Cells
  <2>2. CASE b = Stack
    BY <1>1, <1>2, <2>2
  <2>3. CASE b \in Globals
    <3>1. maps'[c][b] = <<Shared, b>> /\ maps[p][b] = <<Shared, b>> /\ b \in Segs /\ Shared # c
      BY <1>1, <1>2, <2>3
    <3>2. QED
      BY <1>3, <3>1
  <2>4. QED
    BY <2>2, <2>3
<1>6. Seen = [q \in Alive |-> [b \in Cells |-> mem[maps[q][b]]]]
  BY <1>1 DEF Seen
<1>7. Seen' = [q \in Alive' |-> [b \in Cells |-> mem'[maps'[q][b]]]]
  BY <1>1 DEF Seen
<1>8. Seen' = [q \in Alive' |-> IF q = c THEN Seen[p] ELSE Seen[q]]
  BY <1>1, <1>4, <1>5, <1>6, <1>7
<1>9. T!Begin(p, c)
  BY <1>1, <1>8 DEF T!Begin
<1>10. QED
  BY <1>1, <1>9 DEF T!Next

\* Nobody else reads anything new when a process exits.
LEMMA ExitFinishes ==
  ASSUME Inv, NEW p \in Procs, Exit(p)
  PROVE  T!Next
<1> USE Layout
<1> DEFINE Cells == Globals \cup {Stack}
<1>1. /\ pc = "run" /\ pc' = "run" /\ p \in Alive /\ Alive' = Alive \ {p}
      /\ \A q \in Procs \ {p} : maps'[q] = maps[q]
      /\ \A f \in Frames : f[1] # p => mem'[f] = mem[f]
  BY ExitStep
<1>2. \A q \in Alive : \A b \in Cells :
        maps[q][b] = IF b = Stack THEN <<q, Stack>> ELSE <<Shared, b>>
  BY <1>1, ProcessMaps
<1>3. \A q \in Procs \cup {Shared} : \A b \in Segs : q # p => mem'[<<q, b>>] = mem[<<q, b>>]
  <2>1. TAKE q \in Procs \cup {Shared}
  <2>2. TAKE b \in Segs
  <2>3. <<q, b>>[1] = q /\ <<q, b>> \in Frames
    OBVIOUS
  <2>4. QED
    BY <1>1, <2>3
<1>4. \A q \in Alive \ {p} : \A b \in Cells : mem'[maps'[q][b]] = mem[maps[q][b]]
  <2>1. TAKE q \in Alive \ {p}
  <2>2. TAKE b \in Cells
  <2>3. q \in Procs /\ q # p /\ b \in Segs /\ maps'[q][b] = maps[q][b]
    BY <1>1 DEF Alive
  <2>4. maps[q][b] \in {<<q, b>>, <<Shared, b>>}
    BY <1>2
  <2>5. QED
    BY <1>3, <2>3, <2>4
<1>5. Seen = [q \in Alive |-> [b \in Cells |-> mem[maps[q][b]]]]
  BY <1>1 DEF Seen
<1>6. Seen' = [q \in Alive' |-> [b \in Cells |-> mem'[maps'[q][b]]]]
  BY <1>1 DEF Seen
<1>7. Seen' = [q \in Alive' |-> Seen[q]]
  BY <1>1, <1>4, <1>5, <1>6
<1>8. QED
  BY <1>1, <1>7 DEF T!Next, T!Finish

\* Processes have the memory of threads: one copy of every global, a stack each,
\* from the start-up of the library on (myglobals.h:51, mythread.cpp:74).
THEOREM ProcessesAreThreads == Spec => IsThreadMemory
<1>1. Init => T!Init
  BY Layout DEF Init, T!Init, Alive, Seen
<1>2. Inv /\ [Next]_vars => [T!Next]_<<Alive, Seen>>
  <2> SUFFICES ASSUME Inv, [Next]_vars PROVE [T!Next]_<<Alive, Seen>>
    OBVIOUS
  <2>1. CASE UNCHANGED vars
    BY <2>1 DEF vars, threadVars, Alive, Seen
  <2>2. CASE StartUp
    BY <2>2, StartUpStutters
  <2>3. ASSUME NEW p \in Procs, NEW a \in Vars, Store(p, a)
        PROVE  [T!Next]_<<Alive, Seen>>
    BY <2>3, StoreShared
  <2>4. ASSUME NEW p \in Procs, NEW c \in Procs, Create(p, c) \/ Exit(p)
        PROVE  T!Next
    BY <2>4, CreateBegins, ExitFinishes
  <2>5. ASSUME NEW p \in Procs, NEW c \in Procs, NEW a \in ToSet(Pages), StoreStatus(p, c, a)
        PROVE  UNCHANGED <<Alive, Seen>>
    <3>1. /\ pc = "run" /\ pc' = pc /\ maps' = maps /\ Alive' = Alive
          /\ \A f \in Frames \ {<<Shared, c>>} : mem'[f] = mem[f]
      BY <2>5, StoreStatusStep
    <3>2. \A q \in Alive : \A b \in Globals \cup {Stack} : mem'[maps[q][b]] = mem[maps[q][b]]
      BY <3>1, ProcessMaps, Layout
    <3>3. QED
      BY <3>1, <3>2 DEF Seen
  <2>6. QED
    BY <2>1, <2>2, <2>3, <2>4, <2>5 DEF Next
<1>3. QED
  BY <1>1, <1>2, Invariance, PTL DEF Spec, IsThreadMemory, T!Spec

=============================================================================

---------------------------- MODULE AddressSpace ----------------------------
(***************************************************************************)
(* How processes come to share their globals.  At start-up the library     *)
(* reads the segments of /proc/self/maps (pmparser.c), copies each         *)
(* writable one out, unmaps it, maps shared memory in its place and copies *)
(* it back (myglobals.h), in the only process there is.  From then on      *)
(* pthread_create maps a shared page for the status of the new thread and  *)
(* clones the process (mythread.cpp).                                      *)
(*                                                                         *)
(* A process has a table from addresses to frames.  A segment is one       *)
(* address and one value.  The kernel copies private frames at a clone,    *)
(* which comes to the same as copying them when they are written.          *)
(***************************************************************************)
EXTENDS Naturals, Sequences, FiniteSets, SequencesExt

CONSTANTS
  Procs, Main,
  Segs,       \* segments of the program and its libraries
  Machines,   \* what start-up may find: the lines of /proc/self/maps, and the
              \* named segments whose file cannot be opened
  Perm,       \* permissions of each
  Named,      \* segments with a pathname
  Lib,        \* this library: its PLT slots and globals
  Libc,       \* libc: the streams of stdio
  Tls,        \* thread-local storage: no pathname
  Stack,      \* [stack]
  Vars,       \* segments the program stores to
  MAP_SIZE,   \* entries of mapparser::map
  Pages,      \* addresses the kernel gives to mmap, in its order
  Tmp,        \* tmpZone
  Shared, None, Zero

Taken(s) == Perm[s] = "rw-p" /\ s # Stack
Globals == {s \in Segs : Taken(s)}
Addr == Segs \cup ToSet(Pages) \cup {Tmp}
Frames == ((Procs \cup {Shared}) \X Addr) \cup ({Shared} \X Procs)
Values == Segs \cup Procs \cup {Zero}

\* A segment is one line of the file, and no more of them are writable than the
\* parser has room for (pmparser.h:45).  Thread-local storage has no pathname
\* and the stack is private.  Addresses, processes and None are different things.
ASSUME LayoutAssumption ==
  /\ Main \in Procs
  /\ IsFiniteSet(Segs)
  /\ {Lib, Libc, Tls, Stack} \cup Vars \cup Named \subseteq Segs
  /\ Machines \subseteq [lines : Seq(Segs), missing : SUBSET Named]
  /\ \A m \in Machines :
       /\ ToSet(m.lines) = Segs
       /\ \A i, k \in 1..Len(m.lines) : m.lines[i] = m.lines[k] => i = k
  /\ MAP_SIZE \in Nat /\ Cardinality(Globals) <= MAP_SIZE
  /\ \A s \in Segs : Perm[s] \in {"r-xp", "rw-p", "rwxp", "rw-s"}
  /\ Tls \notin Named /\ Perm[Stack] = "rw-p"
  /\ Tmp \notin Segs \cup ToSet(Pages) /\ Segs \cap ToSet(Pages) = {}
  /\ Procs \cap Addr = {} /\ Shared \notin Procs /\ None \notin Frames

VARIABLES
  layout,    \* the lines of /proc/self/maps
  missing,   \* named segments whose file cannot be opened
  pc,        \* where start-up is
  line,      \* the line the parser reads
  table,     \* map[], filled so far
  j,         \* the entry being remapped
  maps,      \* page table of each process
  mem,       \* contents of each frame
  stage,     \* of each process: unborn, new, running or gone
  known      \* handles each process was given or inherited: page and thread

fileVars == <<layout, missing>>
parseVars == <<line, table>>
threadVars == <<stage, known>>
vars == <<fileVars, pc, parseVars, j, maps, mem, threadVars>>

\* Among the rest: when the writable segments fit in its array the parser stays
\* inside it, however many segments there are (pmparser.c:31).
TypeOK ==
  /\ [lines |-> layout, missing |-> missing] \in Machines
  /\ pc \in {"parse", "tmp", "copy", "unmap", "open", "map", "back", "release",
             "up", "run", "fault", "aborted"}
  /\ line \in Nat
  /\ table \in Seq(Segs) /\ Len(table) <= MAP_SIZE
  /\ j \in Nat
  /\ maps \in [Procs -> [Addr -> Frames \cup {None}]]
  /\ mem \in [Frames -> Values]
  /\ stage \in [Procs -> {"unborn", "new", "running", "gone"}]
  /\ known \in [Procs -> SUBSET (ToSet(Pages) \X Procs)]

Init ==
  /\ \E m \in Machines : layout = m.lines /\ missing = m.missing
  /\ pc = "parse"
  /\ line = 1
  /\ table = <<>>
  /\ j = 1
  /\ maps = [p \in Procs |-> [a \in Addr |->
               IF p # Main \/ a \notin Segs THEN None
               ELSE IF Perm[a] = "rw-s" THEN <<Shared, a>> ELSE <<p, a>>]]
  /\ mem = [f \in Frames |-> IF f[2] \in Segs /\ f[1] \in {Main, Shared} THEN f[2] ELSE Zero]
  /\ stage = [p \in Procs |-> IF p = Main THEN "running" ELSE "unborn"]
  /\ known = [p \in Procs |-> {}]

-----------------------------------------------------------------------------
(* Start-up, in the one process there is                                   *)

Goto(label) == pc' = label
SetMap(a, f) == maps' = [maps EXCEPT ![Main][a] = f]
SetMem(f, v) == mem' = [mem EXCEPT ![f] = v]
IsMapped(S) == \A a \in S : maps[Main][a] # None

\* Fault: the entry is taken before the line is looked at.
AllLines(s) == s # Stack

\* The lines the parser keeps
Keeps(s) == Taken(s)

Parse ==
  /\ pc = "parse"
  /\ line <= Len(layout)
  /\ line' = line + 1
  /\ table' = IF Keeps(layout[line]) THEN Append(table, layout[line]) ELSE table
  /\ UNCHANGED <<fileVars, pc, j, maps, mem, threadVars>>

ParseEnd ==
  /\ pc = "parse"
  /\ line > Len(layout)
  /\ Goto("tmp")
  /\ UNCHANGED <<fileVars, parseVars, j, maps, mem, threadVars>>

\* mmapAllocatePrivate, and the abort of MM::allocate
MapTmp ==
  /\ pc = "tmp"
  /\ j <= Len(table)
  /\ \/ SetMap(Tmp, <<Main, Tmp>>) /\ SetMem(<<Main, Tmp>>, Zero) /\ Goto("copy")
     \/ Goto("aborted") /\ UNCHANGED <<maps, mem>>
  /\ UNCHANGED <<fileVars, parseVars, j, threadVars>>

CopyOut ==
  /\ pc = "copy"
  /\ SetMem(maps[Main][Tmp], mem[maps[Main][table[j]]])
  /\ Goto("unmap")
  /\ UNCHANGED <<fileVars, parseVars, j, maps, threadVars>>

Unmap ==
  /\ pc = "unmap"
  /\ SetMap(table[j], None)
  /\ Goto("open")
  /\ UNCHANGED <<fileVars, parseVars, j, mem, threadVars>>

\* Fault: the file is opened whether the segment has one or not.
OpensAlways(s) == TRUE

\* Is there a file to open?
HasFile(s) == s \in Named

\* open reads thread-local storage; when it fails, perror and fprintf need
\* stdio and the library's own PLT slots.  Either may be the segment that is
\* not there.
Open ==
  /\ pc = "open"
  /\ Goto(IF HasFile(table[j])
               /\ (~IsMapped({Tls}) \/ (table[j] \in missing /\ ~IsMapped({Lib, Libc})))
          THEN "fault" ELSE "map")
  /\ UNCHANGED <<fileVars, parseVars, j, maps, mem, threadVars>>

\* Fault: MAP_PRIVATE where MAP_SHARED should be.
NewFramePrivate(s) == <<Main, s>>

NewFrame(s) == <<Shared, s>>

MapShared ==
  /\ pc = "map"
  /\ \/ SetMap(table[j], NewFrame(table[j])) /\ SetMem(NewFrame(table[j]), Zero) /\ Goto("back")
     \/ Goto("aborted") /\ UNCHANGED <<maps, mem>>
  /\ UNCHANGED <<fileVars, parseVars, j, threadVars>>

CopyBack ==
  /\ pc = "back"
  /\ SetMem(maps[Main][table[j]], mem[maps[Main][Tmp]])
  /\ Goto("release")
  /\ UNCHANGED <<fileVars, parseVars, j, maps, threadVars>>

Release ==
  /\ pc = "release"
  /\ SetMap(Tmp, None)
  /\ j' = j + 1
  /\ Goto("tmp")
  /\ UNCHANGED <<fileVars, parseVars, mem, threadVars>>

\* initialized = true
Up ==
  /\ pc = "tmp"
  /\ j > Len(table)
  /\ Goto("run")
  /\ UNCHANGED <<fileVars, parseVars, j, maps, mem, threadVars>>

-----------------------------------------------------------------------------
(* The program                                                             *)

Alive == {p \in Procs : stage[p] \in {"new", "running"}}

Store(p, a) ==
  /\ pc = "run"
  /\ stage[p] = "running"
  /\ mem' = [mem EXCEPT ![maps[p][a]] = p]
  /\ UNCHANGED <<fileVars, pc, parseVars, j, maps, threadVars>>

\* The kernel takes the first address that is free in the table of the process.
FreePages(p) == {i \in DOMAIN Pages : maps[p][Pages[i]] = None}
FirstFree(p, i) == i \in FreePages(p) /\ \A k \in FreePages(p) : i <= k

\* Fault: the page for the status is private.
StatusFramePrivate(p, c, a) == <<p, a>>

\* allocateSharedObject
StatusFrame(p, c, a) == <<Shared, c>>

\* clone copies what is private and keeps what is shared.
Cloned(table1, c) ==
  [a \in Addr |-> IF table1[a] # None /\ table1[a][1] # Shared THEN <<c, a>> ELSE table1[a]]

CloneMem(m, table1, c) ==
  [f \in Frames |-> IF f[1] = c /\ f[2] \in Addr /\ table1[f[2]] # None
                    THEN m[table1[f[2]]] ELSE m[f]]

\* spawn and the clone of forkSpawn
Create(p, c) ==
  /\ pc = "run"
  /\ stage[p] = "running"
  /\ stage[c] = "unborn"
  /\ \E i \in DOMAIN Pages :
       LET a == Pages[i]
           f == StatusFrame(p, c, a)
           mine == [maps[p] EXCEPT ![a] = f]
       IN  /\ FirstFree(p, i)
           /\ maps' = [maps EXCEPT ![p] = mine, ![c] = Cloned(mine, c)]
           /\ mem' = CloneMem([mem EXCEPT ![f] = Zero], mine, c)
           /\ known' = [known EXCEPT ![p] = @ \cup {<<a, c>>}, ![c] = known[p]]
  /\ stage' = [stage EXCEPT ![c] = "new"]
  /\ UNCHANGED <<fileVars, pc, parseVars, j>>

\* The child stores its status where its creator's handle points.
StoreStatus(p, c, a) ==
  /\ stage[c] = "new"
  /\ <<a, c>> \in known[p]
  /\ mem' = [mem EXCEPT ![maps[c][a]] = c]
  /\ stage' = [stage EXCEPT ![c] = "running"]
  /\ UNCHANGED <<fileVars, pc, parseVars, j, maps, known>>

\* exit; the page table and the private frames are gone, the shared frames stay.
Exit(p) ==
  /\ pc = "run"
  /\ stage[p] = "running"
  /\ stage' = [stage EXCEPT ![p] = "gone"]
  /\ maps' = [maps EXCEPT ![p] = [a \in Addr |-> None]]
  /\ mem' = [f \in Frames |-> IF f[1] = p THEN Zero ELSE mem[f]]
  /\ known' = [known EXCEPT ![p] = {}]
  /\ UNCHANGED <<fileVars, pc, parseVars, j>>

StartUp == \/ Parse \/ ParseEnd \/ MapTmp \/ CopyOut \/ Unmap \/ Open
           \/ MapShared \/ CopyBack \/ Release \/ Up

Next ==
  \/ StartUp
  \/ \E p \in Procs :
       \/ \E a \in Vars : Store(p, a)
       \/ \E c \in Procs : Create(p, c)
       \/ \E c \in Procs, a \in ToSet(Pages) : StoreStatus(p, c, a)
       \/ Exit(p)

Spec == Init /\ [][Next]_vars

-----------------------------------------------------------------------------
(* Properties                                                              *)

\* Start-up touches no segment it has unmapped, unless the file of the library
\* itself or of libc cannot be opened: what runs between munmap and mmap is only
\* what does not need the segment in hand (myglobals.h:26).
NoFault == pc = "fault" => {Lib, Libc} \cap missing # {}

\* What each process reads; until the library is up the program has not begun.
Seen == [p \in Alive |-> [a \in Globals \cup {Stack} |->
          IF pc = "run" THEN mem[maps[p][a]] ELSE a]]

\* Start-up and clone together give threads' memory: start-up changes no
\* contents, then every process sees every store to a global, and stores to the
\* stack stay with their process (myglobals.h:51, mythread.cpp:74).
T == INSTANCE ThreadMemory WITH
  alive <- Alive,
  Start <- [a \in Globals \cup {Stack} |-> a],
  view  <- Seen
IsThreadMemory == T!Spec

\* A handle, in the process that was given it and in those forked from it since,
\* always leads to the status of its thread; other processes may have nothing or
\* another thread's status at that address (mythread.cpp:17, 62).
HandleNames ==
  \A p \in Alive : \A h \in known[p] :
    maps[p][h[1]] # None /\ (stage[h[2]] \in {"running", "gone"} => mem[maps[p][h[1]]] = h[2])

=============================================================================

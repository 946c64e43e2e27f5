-------------------------------- MODULE Heap --------------------------------
(***************************************************************************)
(* malloc and free: the wrappers of libmythread.cpp, the per-process heaps *)
(* of xmemory.h and xpheap.h (size-class free lists over a bump arena, see *)
(* adapt.h, sllist.h and zoneheap.h) and the page-wise source heap of      *)
(* xheap.h, the only layer with a lock.                                    *)
(*                                                                         *)
(* All of it lies in memory every process shares.  Addresses are counted   *)
(* in units; a block is an object with its header.  A malloc reads before  *)
(* it writes, and the two are separate steps wherever another process may  *)
(* have the same cell in hand.                                             *)
(***************************************************************************)
EXTENDS Mutex, FiniteSets

CONSTANTS
  NUM_HEAPS,   \* heaps there are
  TidMaps,     \* thread ids the kernel may give the processes
  Classes,     \* size classes
  Size,        \* units of a block of each class, header included
  ArenaHdr,    \* units of an Arena record
  Chunk,       \* ChunkSize: units of an arena
  Page,        \* units of a page
  HeapSize,    \* units of the user heap
  TempSize,    \* units of the buffer of tempmalloc
  MaxHeld,     \* bound: blocks in use at once of those given to one process
  MayEnd,      \* may a process run the destructor?
  Lock         \* xheap::_lock

ASSUME HeapAssumption ==
  /\ NUM_HEAPS \in Nat \ {0}
  /\ TidMaps \subseteq [Procs -> Nat]
  /\ IsFiniteSet(Procs)
  /\ Classes # {}
  /\ Size \in [Classes -> Nat \ {0}]
  /\ ArenaHdr \in Nat \ {0}
  /\ Chunk \in Nat \ {0}
  /\ Page \in Nat \ {0}
  /\ HeapSize \in Nat
  /\ TempSize \in Nat
  /\ MaxHeld \in Nat
  /\ MayEnd \in BOOLEAN
  /\ Mutexes = {Lock}

VARIABLES
  tid,          \* gettid() of each process
  initialized,  \* bool initialized
  position,     \* xheap::_position; the heap starts at unit 1
  remaining,    \* xheap::_remaining
  current,      \* _currentArena of each heap, 0 for NULL
  arena,        \* Arena records: units left and next free unit
  head,         \* head of the free list of each heap and class, 0 for NULL
  next,         \* link stored in each freed object
  temp,         \* _allocated of tempmalloc
  held,         \* blocks (address, class) each process was given and not freed
  pc,           \* what each process is doing
  req,          \* class it asks for
  at,           \* the address in hand
  this          \* the Arena it carves from

sourceVars == <<position, remaining>>
zoneVars == <<current, arena>>
listVars == <<head, next>>
progVars == <<temp, initialized, held, tid>>
callVars == <<req, at, this>>
vars == <<mutexVars, sourceVars, zoneVars, listVars, progVars, pc, callVars>>

Allocating == {"get", "pop", "zone", "carve", "advance", "slow", "lock",
               "contend", "take", "taken", "unlock", "temp", "tempAdd", "done"}
Freeing    == {"link", "put"}

TempBase == HeapSize + 1
Addr == 1 .. HeapSize + TempSize

HeapIds == 0 .. NUM_HEAPS - 1

\* getHeapId, the heap a process works on
Mine(p) == tid[p] % NUM_HEAPS

\* Every pointer stays inside the memory it points into: the heap, the buffer of
\* tempmalloc or NULL, and the bump pointers at most at its end (xheap.h:96,
\* zoneheap.h:92).  _allocated may pass the end: two processes in tempmalloc can
\* both find room before either takes it (libmythread.cpp:47).
TypeOK ==
  /\ MutexTypeOK
  /\ tid \in TidMaps
  /\ initialized \in BOOLEAN
  /\ position \in 1 .. HeapSize + 1
  /\ remaining \in 0 .. HeapSize
  /\ current \in [HeapIds -> 0 .. HeapSize]
  /\ arena \in [1 .. HeapSize -> [left : 0 .. HeapSize, space : 0 .. HeapSize + 1]]
  /\ head \in [HeapIds -> [Classes -> 0 .. HeapSize]]
  /\ next \in [1 .. HeapSize -> 0 .. HeapSize]
  /\ temp \in Nat
  /\ held \in [Procs -> SUBSET (Addr \X Classes)]
  /\ pc \in [Procs -> Allocating \cup Freeing \cup {"run", "exited"}]
  /\ req \in [Procs -> Classes]
  /\ at \in [Procs -> Addr \cup {0}]
  /\ this \in [Procs -> 0 .. HeapSize]

\* What req holds when it means nothing
AnyClass == CHOOSE c \in Classes : TRUE

\* What the program may hold of the time before the constructor: nothing, or a
\* block of tempmalloc
EarlyBlocks == {{}} \cup {{<<TempBase, c>>} : c \in {d \in Classes : Size[d] <= TempSize}}

\* After the constructor.  What its own malloc used lies before unit 1, and the
\* arena that left behind is taken for used up.
Init ==
  /\ tid \in TidMaps
  /\ word = [m \in Mutexes |-> 0]
  /\ kind = [m \in Mutexes |-> "private"]
  /\ asleep = [m \in Mutexes |-> {}]
  /\ initialized = TRUE
  /\ position = 1
  /\ remaining = HeapSize
  /\ current = [h \in HeapIds |-> 0]
  /\ arena = [a \in 1 .. HeapSize |-> [left |-> 0, space |-> 0]]
  /\ head = [h \in HeapIds |-> [c \in Classes |-> 0]]
  /\ next = [a \in 1 .. HeapSize |-> 0]
  /\ \E p \in Procs, early \in EarlyBlocks :
       /\ held = [q \in Procs |-> IF q = p THEN early ELSE {}]
       /\ temp = IF early = {} THEN 0 ELSE Size[(CHOOSE b \in early : TRUE)[2]]
  /\ pc = [p \in Procs |-> "run"]
  /\ req = [p \in Procs |-> AnyClass]
  /\ at = [p \in Procs |-> 0]
  /\ this = [p \in Procs |-> 0]

Goto(p, label) == pc' = [pc EXCEPT ![p] = label]
Keep(p, a) == at' = [at EXCEPT ![p] = a]

\* The call is over and its local variables are gone.
Return(p) ==
  /\ Goto(p, "run")
  /\ Keep(p, 0)
  /\ req' = [req EXCEPT ![p] = AnyClass]
  /\ this' = [this EXCEPT ![p] = 0]

-----------------------------------------------------------------------------
(* malloc, from the size class down *)

MallocCall(p, c) ==
  /\ pc[p] = "run"
  /\ Cardinality(held[p]) < MaxHeld
  /\ req' = [req EXCEPT ![p] = c]
  /\ Goto(p, IF initialized THEN "get" ELSE "temp")
  /\ UNCHANGED <<mutexVars, sourceVars, zoneVars, listVars, progVars, at, this>>

\* SLList::get reads head.next ...
ListGet(p) ==
  /\ pc[p] = "get"
  /\ Keep(p, head[Mine(p)][req[p]])
  /\ Goto(p, IF head[Mine(p)][req[p]] = 0 THEN "zone" ELSE "pop")
  /\ UNCHANGED <<mutexVars, sourceVars, zoneVars, listVars, progVars, req, this>>

\* Fault: the entry handed out stays on the list.
ListPeek(p) ==
  /\ pc[p] = "pop"
  /\ Goto(p, "done")
  /\ UNCHANGED <<mutexVars, sourceVars, zoneVars, listVars, progVars, callVars>>

\* ... and makes the next entry the head.
ListPop(p) ==
  /\ pc[p] = "pop"
  /\ head' = [head EXCEPT ![Mine(p)][req[p]] = next[at[p]]]
  /\ Goto(p, "done")
  /\ UNCHANGED <<mutexVars, sourceVars, zoneVars, next, progVars, callVars>>

\* sizeRemaining() of the current arena
Left(p) == IF current[Mine(p)] = 0 THEN 0 ELSE arena[current[Mine(p)]].left

\* zoneMalloc: is there room in the current arena?
ZoneMalloc(p) ==
  /\ pc[p] = "zone"
  /\ Goto(p, IF Left(p) >= Size[req[p]] THEN "carve" ELSE "slow")
  /\ UNCHANGED <<mutexVars, sourceVars, zoneVars, listVars, progVars, callVars>>

\* Arena::malloc checks again, takes the space and then moves the pointer.
ArenaCarve(p) ==
  /\ pc[p] = "carve"
  /\ Left(p) >= Size[req[p]]
  /\ LET a == current[Mine(p)] IN
       /\ arena' = [arena EXCEPT ![a].left = @ - Size[req[p]]]
       /\ Keep(p, arena[a].space)
       /\ this' = [this EXCEPT ![p] = a]
  /\ Goto(p, "advance")
  /\ UNCHANGED <<mutexVars, sourceVars, current, listVars, progVars, req>>

ArenaAdvance(p) ==
  /\ pc[p] = "advance"
  /\ arena' = [arena EXCEPT ![this[p]].space = @ + Size[req[p]]]
  /\ Goto(p, "done")
  /\ UNCHANGED <<mutexVars, sourceVars, current, listVars, progVars, callVars>>

\* The arena changed under the process: Arena::malloc returns NULL, on which
\* malloc aborts, or the assertion of slowMalloc fails.
ZoneAbort(p) ==
  /\ \/ pc[p] = "carve" /\ Left(p) < Size[req[p]]
     \/ pc[p] = "slow" /\ Left(p) >= Size[req[p]]
  /\ Goto(p, "exited")
  /\ UNCHANGED <<mutexVars, sourceVars, zoneVars, listVars, progVars, callVars>>

-----------------------------------------------------------------------------
(* slowMalloc: the rest of the arena is dropped and xheap::malloc called.  *)

RoundUp(n) == Page * ((n + Page - 1) \div Page)
ArenaSize(c) == IF Chunk < Size[c] THEN Size[c] ELSE Chunk

\* Fault: the space of the Arena record is not asked for.
BareRequest(c) == RoundUp(ArenaSize(c))

Request(c) == RoundUp(ArenaHdr + ArenaSize(c))

DropArena(p) ==
  /\ pc[p] = "slow"
  /\ Left(p) < Size[req[p]]
  /\ current' = [current EXCEPT ![Mine(p)] = 0]
  /\ Goto(p, IF initialized THEN "lock" ELSE "take")
  /\ UNCHANGED <<mutexVars, sourceVars, arena, listVars, progVars, callVars>>

\* Fault: no lock around the bump pointer.
SourceNoLock(p) ==
  /\ pc[p] = "lock"
  /\ Goto(p, "take")
  /\ UNCHANGED <<mutexVars, sourceVars, zoneVars, listVars, progVars, callVars>>

\* The lock call goes through the wrapper pthread_mutex_lock, and so did the
\* initialisation of the lock, before the library was initialized: the lock is
\* zeroed memory.
SourceLock(p) ==
  /\ pc[p] = "lock"
  /\ \/ AcquireFirst(Lock) /\ Goto(p, "take")
     \/ word[Lock] # 0 /\ Goto(p, "contend") /\ UNCHANGED mutexVars
  /\ UNCHANGED <<sourceVars, zoneVars, listVars, progVars, callVars>>

SourceContend(p) ==
  /\ pc[p] = "contend"
  /\ p \notin asleep[Lock]
  /\ \/ AcquireLater(Lock) /\ Goto(p, "take")
     \/ FallAsleep(p, Lock) /\ UNCHANGED pc
  /\ UNCHANGED <<sourceVars, zoneVars, listVars, progVars, callVars>>

SourceTake(p) ==
  /\ pc[p] = "take"
  /\ remaining >= Request(req[p])
  /\ remaining' = remaining - Request(req[p])
  /\ Keep(p, position)
  /\ Goto(p, "taken")
  /\ UNCHANGED <<mutexVars, position, zoneVars, listVars, progVars, req, this>>

\* exit(-1) with the lock held; the destructor runs.
SourceExhausted(p) ==
  /\ pc[p] = "take"
  /\ remaining < Request(req[p])
  /\ initialized' = FALSE
  /\ Goto(p, "exited")
  /\ UNCHANGED <<mutexVars, sourceVars, zoneVars, listVars, temp, held, tid, callVars>>

SourceAdvance(p) ==
  /\ pc[p] = "taken"
  /\ position' = position + Request(req[p])
  /\ Goto(p, "unlock")
  /\ UNCHANGED <<mutexVars, remaining, zoneVars, listVars, progVars, callVars>>

\* unlock() and the new Arena
NewArena(p) ==
  /\ pc[p] = "unlock"
  /\ IF initialized THEN Release(Lock) ELSE UNCHANGED mutexVars
  /\ arena' = [arena EXCEPT ![at[p]] =
                 [left |-> ArenaSize(req[p]), space |-> at[p] + ArenaHdr]]
  /\ current' = [current EXCEPT ![Mine(p)] = at[p]]
  /\ Goto(p, "carve")
  /\ UNCHANGED <<sourceVars, listVars, progVars, callVars>>

-----------------------------------------------------------------------------
(* tempmalloc: what malloc does when initialized is down *)

TempTake(p) ==
  /\ pc[p] = "temp"
  /\ temp + Size[req[p]] <= TempSize
  /\ Keep(p, TempBase + temp)
  /\ Goto(p, "tempAdd")
  /\ UNCHANGED <<mutexVars, sourceVars, zoneVars, listVars, progVars, req, this>>

TempExhausted(p) ==
  /\ pc[p] = "temp"
  /\ temp + Size[req[p]] > TempSize
  /\ Goto(p, "exited")
  /\ UNCHANGED <<mutexVars, sourceVars, zoneVars, listVars, progVars, callVars>>

TempAdd(p) ==
  /\ pc[p] = "tempAdd"
  /\ temp' = temp + Size[req[p]]
  /\ Goto(p, "done")
  /\ UNCHANGED <<mutexVars, sourceVars, zoneVars, listVars, initialized, held, tid, callVars>>

MallocReturn(p) ==
  /\ pc[p] = "done"
  /\ held' = [held EXCEPT ![p] = @ \cup {<<at[p], req[p]>>}]
  /\ Return(p)
  /\ UNCHANGED <<mutexVars, sourceVars, zoneVars, listVars, temp, initialized, tid>>

-----------------------------------------------------------------------------
(* free: the block goes to the freeing process's list of the class its     *)
(* header names.  The program may free what another process allocated.     *)

FreeCall(p, q, b) ==
  /\ pc[p] = "run"
  /\ b \in held[q]
  /\ initialized => b[1] < TempBase
  /\ held' = [held EXCEPT ![q] = @ \ {b}]
  /\ IF initialized
       THEN Keep(p, b[1]) /\ req' = [req EXCEPT ![p] = b[2]] /\ Goto(p, "link")
       ELSE UNCHANGED <<at, req, pc>>
  /\ UNCHANGED <<mutexVars, sourceVars, zoneVars, listVars, temp, initialized, tid, this>>

\* A block of tempmalloc has no header: the sanity check of getSize aborts, and
\* abort runs no destructor.
FreeAborts(p, q, b) ==
  /\ pc[p] = "run"
  /\ b \in held[q]
  /\ initialized
  /\ b[1] >= TempBase
  /\ Goto(p, "exited")
  /\ UNCHANGED <<mutexVars, sourceVars, zoneVars, listVars, progVars, callVars>>

\* SLList::insert
ListLink(p) ==
  /\ pc[p] = "link"
  /\ next' = [next EXCEPT ![at[p]] = head[Mine(p)][req[p]]]
  /\ Goto(p, "put")
  /\ UNCHANGED <<mutexVars, sourceVars, zoneVars, head, progVars, callVars>>

ListPut(p) ==
  /\ pc[p] = "put"
  /\ head' = [head EXCEPT ![Mine(p)][req[p]] = at[p]]
  /\ Return(p)
  /\ UNCHANGED <<mutexVars, sourceVars, zoneVars, next, progVars>>

\* exit(0): the destructor takes initialized down for all.
End(p) ==
  /\ MayEnd
  /\ pc[p] = "run"
  /\ initialized' = FALSE
  /\ Goto(p, "exited")
  /\ UNCHANGED <<mutexVars, sourceVars, zoneVars, listVars, temp, held, tid, callVars>>

-----------------------------------------------------------------------------

AllocStep(p) ==
  \/ ListGet(p) \/ ListPop(p)
  \/ ZoneMalloc(p) \/ ArenaCarve(p) \/ ArenaAdvance(p) \/ ZoneAbort(p)
  \/ DropArena(p) \/ SourceLock(p) \/ SourceContend(p) \/ SourceTake(p)
  \/ SourceExhausted(p) \/ SourceAdvance(p) \/ NewArena(p)
  \/ TempTake(p) \/ TempExhausted(p) \/ TempAdd(p)
  \/ MallocReturn(p)

Next == \E p \in Procs :
  \/ \E c \in Classes : MallocCall(p, c)
  \/ \E q \in Procs : \E b \in held[q] : FreeCall(p, q, b) \/ FreeAborts(p, q, b)
  \/ AllocStep(p) \/ ListLink(p) \/ ListPut(p)
  \/ End(p)

Spec == Init /\ [][Next]_vars

\* A process inside malloc or free goes on whenever it can.
LibStep(p) == AllocStep(p) \/ ListLink(p) \/ ListPut(p)
LiveSpec == Spec /\ \A p \in Procs : WF_vars(LibStep(p))

-----------------------------------------------------------------------------
(* Properties *)

Span(b) == b[1] .. b[1] + Size[b[2]] - 1
Apart(b, d) == Span(b) \cap Span(d) = {}
Returning(p) == <<at[p], req[p]>>

\* Every process has a heap of its own.
OwnHeaps == \A p, q \in Procs : p # q => Mine(p) # Mine(q)

\* No two objects in use share memory, whoever allocated and freed what
\* (xpheap.h:124, xheap.h:42).
Disjoint ==
  /\ \A p, q \in Procs : \A b \in held[p], d \in held[q] :
       <<p, b>> # <<q, d>> => Apart(b, d)
  /\ \A p \in Procs : pc[p] = "done" =>
       /\ \A q \in Procs : \A d \in held[q] : Apart(Returning(p), d)
       /\ \A q \in Procs \ {p} : pc[q] = "done" => Apart(Returning(p), Returning(q))

\* The same, when the thread ids fall into different heaps and the library is up:
\* blocks wander between heaps as they are freed, and still none is given out
\* twice (xpheap.h:136).  Once a process has run the destructor the others share
\* pages and the buffer of tempmalloc without a lock.
OwnDisjoint == initialized /\ OwnHeaps => Disjoint

\* While the library is up, the pages xheap::malloc is handing to a process hold
\* no Arena record and no pages it is handing to another, even if the heaps above
\* it collide: the lock works between processes (xheap.h:151).  With own heaps
\* they hold no object in use either; heaps that collide can lose the class of an
\* address, and with it the end of the object there.
PagesOnce ==
  initialized =>
    \A p \in {q \in Procs : pc[q] \in {"taken", "unlock"}} :
      LET pages == at[p] .. at[p] + Request(req[p]) - 1 IN
        /\ \A a \in pages : arena[a].space = 0
        /\ \A q \in Procs \ {p} : pc[q] \in {"taken", "unlock"} => at[q] \notin pages
        /\ OwnHeaps => \A q \in Procs : \A d \in held[q] : Span(d) \cap pages = {}

\* With own heaps, an object in use lies clear of every Arena record and of the
\* space the arena has still to hand out (zoneheap.h:92).
ArenaClear ==
  initialized /\ OwnHeaps =>
    \A a \in 1 .. HeapSize : \A p \in Procs : \A b \in held[p] :
      arena[a].space > 0 =>
        Span(b) \cap ((a .. a + ArenaHdr - 1)
                       \cup (arena[a].space .. arena[a].space + arena[a].left - 1)) = {}

\* With own heaps, no step of any process writes a link or an Arena record into
\* an object that stays in use: what a program stored in it survives the mallocs
\* and frees around it (sllist.h:79, zoneheap.h:115).
NotWritten ==
  [][initialized /\ OwnHeaps =>
       \A p \in Procs : \A b \in held[p] \cap held'[p] :
         \A a \in Span(b) \cap 1 .. HeapSize : next'[a] = next[a] /\ arena'[a] = arena[a]]_vars

\* A malloc that was called comes back: the lock of the source heap lets every
\* process through in the end (xheap.h:151).
MallocReturns ==
  \A p \in Procs : pc[p] \in Allocating ~> pc[p] \in {"run", "exited"}

=============================================================================

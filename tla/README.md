# A specification of process-as-thread

`src/processes-as-threads` builds `libmythreads.so`, a library that is loaded
before a pthreads program and runs each of its threads as a process.  It
replaces `pthread_create`, `pthread_join`, the mutexes, condition variables and
barriers, and `malloc` and `free`.  At start-up it maps every writable segment
of the program shared, so the processes it forks later see the same globals and
the same heap.  This directory holds TLA+ modules that model it, the TLC
configurations that check them on small instances, and proofs that TLAPS checks
for every value of the constants.

All paths in this file and in the modules' comments, unless they start with
`src/`, are relative to `src/processes-as-threads/`.

## 1. Inventory

### The parts and how they interact

| Part | Files | State | Operations |
|---|---|---|---|
| Thread registry | `mydeterm.h`, `list.h` | one shared page: a process-shared mutex, `_cond_parent`, `_cond_join`, `_childregistered`, `_entries[1024]` | `registerThread`, `waitParentNotify`, `waitChildRegistered`, `join`, `deleteRegisterThread` |
| Thread life cycle | `libmythread.cpp`, `myrun.h`, `mythread.cpp`, `mythread.h`, `atomic.h` | `initialized`, `global_data->thread_index`, `global_data->current_index`, `myrun::_thread_index`, a `ThreadStatus` page per thread | `pthread_create`, `pthread_join`, `pthread_exit`, return from the thread function, process exit |
| Program synchronisation | `libmythread.cpp`, `myrun.h` | the program's own mutexes, conditions and barriers | the `pthread_mutex_*`, `pthread_cond_*` and `pthread_barrier_*` wrappers |
| Memory allocation | `libmythread.cpp`, `xmemory.h`, `xpheap.h`, `xheap.h`, `xoneheap.h` | 128 heaps of size-class free lists, an arena each, the bump pointer of `xheap` with its lock, the buffer of `tempmalloc` | `malloc`, `calloc`, `free` |
| Block layers | `heaplayers/` (`kingsleyheap.h`, `segheap.h`, `adapt.h`, `zoneheap.h`, `ansiwrapper.h`, `util/sllist.h`) | per heap: free-list heads, `_currentArena` | `size2Class`, `StrictSegHeap::malloc` and `free`, `SLList::get` and `insert`, `ZoneHeap::malloc` |
| Start-up and address spaces | `libmythread.cpp:22`, `myglobals.h`, `map_parse/pmparser.c`, `mythread.cpp` | list of writable segments, page tables, status pages | parse `/proc/self/maps`, copy and remap each segment, map a status page, clone |
| Hash map | `hashmap.h`, `list.h` | buckets with a lock, a circular list and a count | `insert`, `insertIfAbsent`, `find`, `erase`, iterators |
| Allocation without threads | `libmem.cpp` | the flag, the buffer, the heap | `malloc`, `calloc`, `free`, `realloc`, `memalign`, `malloc_usable_size` |
| Interposition layer | `libdoubletake.cpp` | two flags, resolved functions, epoch | over 200 wrappers of C library functions |
| Internal heap | `sourceinternalheap.h`, `internalheap.h` | bump pointer under a mutex | `malloc` |
| Heap Layers | the rest of `heaplayers/` | heaps built of layers, with or without locks | see the table of modules |
| Left out | `libfuncs.cpp`, `privateheap.h`, `xplock.h`, `xmapping.h`, `references/`, logging, tracing and timing in `heaplayers/` | - | - |

The first five rows and start-up are what `libmythreads.so` runs.  The hash map,
`libmem.cpp`, `libdoubletake.cpp`, the internal heap and most of Heap Layers lie in
the same directory, some of it from earlier tools; it is modelled too, from the
code as it stands, including what would stop it from working.

Everything meets in shared memory.  There are no messages; processes interact

* through the mutex and the two conditions of `mydeterm` (create, join, end);
* through globals the source writes as if each process had its own, which are
  single cells for all processes because their segment is mapped shared:
  `initialized` and `myrun::_thread_index` are the ones that matter;
* through the heap, whose only lock guards the bump pointer of `xheap`;
* through the program's own mutexes and conditions.

A wrapper first reads `initialized`.  When the flag is down it does nothing and
reports success (`malloc` falls back on `tempmalloc`).  The library's destructor
takes the flag down, and a thread that returns from its function leaves by
`exit(0)`, which runs the destructor.

### What is hard here

* **Interleaving.** `registerThread` fills its entry before it takes the mutex;
  the index of a child travels through a global; the free lists and arenas have
  no lock; `tempmalloc` has none.
* **Lost or early wakeups.** Each wait is guarded by an `if`; one flag and one
  condition serve every creator; every deletion broadcasts to all joiners;
  process-private mutexes do not wake a sleeper of another process.
* **Stale state.** `initialized` may fall between any two steps; join reads the
  status of an entry that other threads use too.
* **Partial failure.** A process may die with the mutex of the registry held
  (`mydeterm.h:193`), or leave with the lock of the source heap held
  (`xheap.h:99`).
* **Bounds.** `_entries` has a fixed length and no check (`mydeterm.h:243`); the
  heap and the temporary buffer are finite.

`PROJECT.json` lists each of these hazards at its line with the properties that
look for it, or the reason why none does yet.

### What makes each part correct

* Registry and life cycle: a create returns after its own child has registered;
  two children never register at once; an index stays inside the array; a join
  returns only for a thread that has ended, and does return; nobody waits with
  no one left to wake it; a create that reports success has started its thread;
  deletion never meets a half-built entry.
* Synchronisation: locks exclude; a locked mutex has a holder; an unlock does
  not miss its sleepers; a barrier holds everybody back.
* Allocation: no two objects in use overlap, nor an object and what an arena has
  still to give; nobody writes into an object in use; pages leave the source heap
  once; a request that is under way ends; a recycled block is large enough; numbers
  that wrap on the way do no harm.
* Start-up: nothing is touched while it is unmapped, contents survive, and from then
  on processes have one copy of every global and a stack each; a thread handle leads
  to the status of its thread.
* Hash map: searches under the lock are safe and right, those without it when nobody
  interferes; lists stay whole in both directions; `insertIfAbsent` inserts once.
* Heap Layers and the shims above them: an object is in one place, objects do not
  overlap, counters and headers agree with what they describe, locks exclude.

## 2. The modules

| Module | Models |
|---|---|
| `MyDeterm` | the shared page and the steps of its five operations |
| `LibMyThread` | extends `MyDeterm` with the wrappers, the fork and the globals: the whole life of a thread |
| `ForkJoin` | what creating and joining promises, with no processes in it |
| `MCLibMyThread` | instances for TLC |
| `LibMyThreadProofs` | theorems about `LibMyThread`, the refinement of `ForkJoin` among them |
| `Mutex` | the C library's futex mutex, an external part, as the code relies on it |
| `UserSync`, `MCUserSync` | the program's mutexes and conditions over `Mutex` |
| `UserSyncProofs` | theorems about `UserSync` |
| `Heap`, `MCHeap` | `malloc` and `free` down to the bump pointer, with `Mutex` for the lock of `xheap` |
| `HeapProofs` | theorems about `Heap`: type correctness from a budget for its memory, and that nothing is given twice from an owner for every unit of it |
| `Kingsley` | size classes and bins: pure functions compared with a reference definition |
| `Requests` | what becomes of a requested size in machine integers, for `malloc`, `calloc`, `realloc` and `memalign` |
| `List` | the operations of `list.h` as functions on pointers |
| `ListProofs` | what insertion, removal and a walk do to a list of any length |
| `Operators` | the properties of `Kingsley`, `Requests` and `List`, over all inputs |
| `OperatorsProofs` | theorems that state them for every bound, over `ListProofs` |
| `AddressSpace`, `MCAddressSpace` | parsing the segments, remapping them, status pages and clones |
| `ThreadMemory` | what that is for: one copy of globals, a stack for each |
| `AddressSpaceProofs` | theorems about `AddressSpace`, the refinement of `ThreadMemory` among them |
| `HashMap`, `MCHashMap` | `hashmap.h` over `List` |
| `HashMapProofs` | theorems about `HashMap`, over `ListProofs` |
| `LibMem` | `libmem.cpp` |
| `DoubleTake` | `libdoubletake.cpp` |
| `SlotHeaps` | `Chunk`, `BigChunk`, `AlignedChunk` and the slot heaps over them |
| `FreeLists` | FIFO lists, bounded and first-fit lists, `BatchHeap`, the two classes `MultiMalloc` |
| `Trees` | `Treap` under `CartesianHeap`, and `AOFFHeap` |
| `Regions` | `ChunkHeap`, `BitString`, `MmapHeap` with `MyHashMap` |
| `Obstacks` | `ObstackHeap` and `NestedHeap` |
| `Stacks` | `XallocHeap`, `SlopHeap`, `DynStack`, the headers of `ProvideObjectManager` |
| `LeaHeap` | the Lea-style heap of `dlheap.h` as its layers compose it |
| `Shims` | `wrapper.cpp`, `LocalMallocHeap`, `SanityCheckHeap` |
| `ThreadHeaps` | spin and recursive locks, `LockedHeap`, `ThreadHeap`, `PHOThreadHeap`, `SourceInternalHeap` |
| `Layer`, `MCLayers` | the one variable `h` of these modules, and their common instance |
| `LayersProofs` | theorems about `ThreadHeaps`, `DoubleTake`, `Shims` with `LibMem`, and `SlotHeaps` |

### MyDeterm and LibMyThread

A process is a value `pc[p]` and the local `idx[p]`; the remaining variables are
cells of shared memory under their names in the source (`entry` is `_entries`,
`owner` the holder of `_mutex`, `globalIndex` and `sharedIndex` the counter and
`myrun::_thread_index`, `tsIndex[t]` the index in the `ThreadStatus` of `t`).
A process waits on a condition when its `pc` says so: `cpWait` on
`_cond_parent`, `joinWait` on `_cond_join`; once signalled it is at `cpWoken` or
`joinWoken` and has to find the mutex free.

    pthread_create   parent   Spawn, WaitChildRegistered [wait], ParentWoken
                     child    TakeIndex, StoreIndex, LoadIndex (childRegister),
                              CtorPrev, CtorRest, InsertEntry (registerThread),
                              PublishIndex, ResetGlobalIndex, WaitParentNotify
    pthread_join     JoinCall, JoinLock, JoinNoWait or JoinWait [wait], JoinWoken
    thread returns   ReturnFromThread, DeleteLock, DeleteCompare, DeleteFree,
                     ExitProcess (exit(0): the flag falls)
    pthread_exit     PthreadExit, then the same, or nothing when the flag is down
    flag down        CreateDropped, JoinSkipped

A stretch of code under the mutex is one action unless one of its accesses
races with the unlocked constructor of `registerThread`; then it is cut there.
That is why `join` is two actions and `deleteRegisterThread` three.  Two facts
of the code shape the model: `current_index` is 0 in every process, so deletion
and the joiner's own entry are always entry 0; and `childRegister` has no return
statement, so the index published in a handle is whatever its caller finds in the
return register.  `Garbage` is the set of values this may be; the runs use
`{0}`, the result of the `pthread_mutex_unlock` call before it, and `TypeOK` and
the handshake are proved for any subset of the indexes.

Values that are written and never read (`tid`, `tid_parent`, `wait`,
`joinee_thread_index`, `_alivethreads`, the lock and child counts, the nesting
level) are left out, and so is the return value of a thread, which no code
delivers to a joiner.

`Creators`, `MaxLive` and `EndBy` say which programs are considered: who
creates, how many threads may be created and not joined, and how threads end.

### ForkJoin and the refinement

`ForkJoin` has a life per thread (none, starting, running, ended), the handles
given out, and the joins under way and returned.  `LibMyThread!Promise` maps
`pc` to lives (`Life`, `Handles`, `BeingJoined`); `KeepsPromise` is `Promise!Spec`
with its fairness.  It holds for programs that keep one thread at a time and end
threads by `pthread_exit`.  The violation runs show what is lost outside of that.

### UserSync and Mutex

`Mutex` is the futex algorithm of the C library: a word that is 0, 1 or 2, the
sleepers, and a kind.  A mutex not made process-shared wakes sleepers of the
unlocking process only; since each process has one thread, it wakes nobody.
`UserSync` puts the wrappers on top.  `inside[p]` are the mutexes a process has
been told it holds, which is what exclusion is about, whether or not the call
did anything.  Waits are called with a mutex held, and a thread returns holding
none; the module describes programs that obey this.  All processes exist from the
start; creating them is the subject of `LibMyThread`.  Barriers have no state
to model: `barrier_wait` (`myrun.h:129`) calls `pthread_barrier_destroy`, which
comes back at once.

### Heap and Kingsley

Addresses are units, a block is an object with its header, and a block's class
stands for its size.  `malloc` is the chain `ListGet`, `ListPop` | `ZoneMalloc`,
`ArenaCarve`, `ArenaAdvance` | `DropArena`, `SourceLock`, `SourceTake`,
`SourceAdvance`, `NewArena`, cut wherever another process can have the same cell
in hand; `free` is `FreeCall`, `ListLink`, `ListPut` on the heap of the process
that frees.  `Mine(p)` is `gettid() % 128`, with the thread ids chosen in the initial
state: with distinct values each process has its own lists and arena, with colliding
ones two processes share them unlocked.  Blocks that `tempmalloc` gave out before the
constructor may be in use, and freeing one aborts (`FreeAborts`).
The assertions of the code are on (the Makefile does not define `NDEBUG`), so a
failing one ends the process (`ZoneAbort`).  The check of `_remaining` and its
decrement are one step; this is exact while the lock is held, and coarse only
after the flag has fallen.

`OwnDisjoint`, `ArenaClear` and `NotWritten`, and what `PagesOnce` says of objects in
use, are about a library that is up and processes with a heap each.  Without the lock,
or with heaps that collide, pages, records and objects do come to overlap: it takes
three processes, or a larger heap than that of `heap_collide`, to see it happen to each
of them.

`Kingsley` computes class, bin and block size of a request and the bin a freed
block goes to.  `Requests` follows a size through `ANSIWrapper`, the size class, the
header, `ZoneHeap` and the pages of `xheap`, all modulo `Word`, and through
`tempmalloc` with its `int`.

### AddressSpace and ThreadMemory

A process has a table from addresses to frames; a segment is one address and one
value.  Start-up is the chain `Parse`, `ParseEnd`, then for each segment `MapTmp`,
`CopyOut`, `Unmap`, `Open`, `MapShared`, `CopyBack`, `Release`, and `Up`; each step
needs the segments its C library calls live in, and goes to `fault` when one of them
is the segment in hand.  A file that cannot be opened takes `perror` along.  Then
`Create` maps a status page at the first address free in the creator and clones.
`IsThreadMemory` is the refinement of `ThreadMemory`: while start-up runs its steps are
stutters, so whatever start-up does, the program begins with the contents it had.

### HashMap

Steps are cut where a reader without the lock can tell.  `spoiled` and `disturbed` are
history: buckets where an absent key was erased (the count then says less than the
list holds, and may wrap), and readers that overlapped a holder of the lock.  The
properties say what holds under which of them.  A walk along a list (`List!Walk`) is a
recursive function of the steps left and the entry reached, so that it can be proved about.

### LibMem

One process; what it does before its constructor, between, and after its destructor.
`memalign` with the flag down runs the initializer, which maps the heap anew at a
fixed address: `gen` counts how often that happened.

### Layers

These modules share one variable `h`, a record whose `kind` says which component the
behaviour is about; `MCLayers` chooses it in the initial state, so that one run visits
all of them and no product of state spaces arises.  Each module names at its top what
its fields stand for.  A failed assertion or a read through a null pointer makes `h.dead`
true, and the properties then say either nothing more or exactly when that may happen.

The library is built for 64 bits with assertions on: headers, casts and wraps have the
widths they have there.  Two parts were written for 32 bits and do not survive that, so
their models contain both builds, chosen in the initial state.  In `LeaHeap` the field
`header` is the units of a header: two words, one double with 32 bits and two with 64, where
the assertion of its constructor (`coalesceableheap.h:179`) ends the program in the first
split and the first mapping; what is merged before that is still checked.  Requests reach it
through `ANSIWrapper`, two words at least, which is the room the list entry of a free object
needs.  In `Obstacks` the field `span` is the number of addresses: `finalize` takes a
pointer through an `int` (`obstack.h:165`), the identity with 32 bits; with 64 it keeps the
lower half with its sign (`CutToInt`), and the program dies in the next `isValid` if that
changed the pointer.  (g++ for 64 bits rejects the cast unless `-fpermissive` is given.  A
program that is linked at a fixed low address has its chunks there and lives; one that is
not dies in its first `malloc`.) `MCPlaces` puts the chunks of the 64-bit program below
2^31, across it, and beyond 2^32.

Modelling them from the code brought up these facts, which the models contain:

* `BatchHeap::free` compares before it counts, so a list gets one object too many and
  the heap dies in a later call; `MultiMalloc` of `multimalloc.h` must be asked for a
  batch with the number it was freed with.
* `BoundedFreeListHeap` never counts down, and loses an object when it clears.
* `InterlockedExchange` of `AlignedChunk` stores even if the comparison fails.
* `LooseSlotHeap` gives chunks back that are not empty; a free of one of their slots
  fails an assertion.
* `BitString` fails an assertion, instead of returning -1, when a free run reaches the
  end of the string and is too short.
* `SegHeap::remove` works on a list of its own: the first object of a bin cannot be
  removed, and merging with one reads through a null pointer.
* With 64 bits the header of `CoalesceableHeap` fails its own assertion, and a finished
  object of `ObstackHeap` above 2^31 one of `isValid`.
* `StaticHeap::isValid` (`staticheap.h:63`) asks for an address at or above the buffer's
  start and below that same start, so it never holds: `LocalMallocHeap` passes an object
  of its buffer to the C library's `free`.
* `AOFFHeap` loses two header units in every split.
* A failed malloc of `XallocHeap` moves its end all the same, and the header may lie one
  word past the arena.
* `realloc` of `wrapper.cpp` frees the old block when there is no memory for the new
  one, pointers moved by `memalign` cannot be freed, `recalloc` keeps nothing.
* `ThreadHeap` fails its assertion for a thread handle that is negative as an `int`.
* `ProvideObjectManager` drops the bit for the object in front on a re-allocation, on
  the safe side: it prevents a merge.

## 3. The runs

Passing:

| Run | Instance | Shows |
|---|---|---|
| `sequential` | 3 threads, one at a time, `pthread_exit` | `KeepsPromise` (with liveness), `NoCrash` |
| `parallel` | 3 threads alive at once, both ends, `MAX_THREADS` 2 | `TypeOK`, the handshake and what follows from it, `IndexInBounds` |
| `returning` | 2 threads that return, spurious wakeups | `NoStrandedJoin`, `CreateReturns`, `JoinReturns` |
| `sync` | 3 processes, an initialised, a static and a tried mutex, 1 condition, threads may return | `MutualExclusion`, `HeldBySomebody` while the library is up and for mutexes that are not tried; `NoLostWakeup` for initialised ones; `TypeOK` |
| `heap` | 2 processes, thread ids that do or do not collide, 2 sizes, 8 units, early blocks, threads may end | `OwnDisjoint`, `ArenaClear`, `NotWritten` with own heaps; `PagesOnce` in any case; `TypeOK` |
| `start_up` | 7 segments in 2 orders, 3 sets of files that cannot be opened, 4 processes | `NoFault`, `IsThreadMemory`, `HandleNames`, `TypeOK` |
| `hash_map` | 2 processes, 2 buckets, 3 keys of which 2 collide, 2 entries | `ScanSafe`, `Agrees`, `BucketWhole`, `Distinct`, `IteratesAll`, `TypeOK` |
| `layers` | every component of `MCLayers` from its own initial state | one property per family, see below |

The properties of `layers`:

| Property | Is about |
|---|---|
| `TightFit`, `RecycledFits` | size classes, for every size of a 10-bit `size_t` |
| `RequestsInside` | `tempmalloc` in ints, the pages taken for a request, the writes of `calloc` and `realloc` |
| `ListsAgree` | the operations of `list.h` on every two lists of five nodes, against sequences |
| `DoubleTakeInterposed` | who serves a call in every phase of the process |
| `SlotHeapsWhole`, `FreeListsWhole`, `RegionsAndObstacksWhole` | objects in one place, apart, counted and linked |
| `LeaTagged` | boundary tags, bins, counters and size classes of the Lea-style heap |
| `ShimsKeep` | contents and placement of what `wrapper.cpp`, `LocalMallocHeap`, `SanityCheckHeap` and `libmem.cpp` hand out |
| `ThreadHeapsSafe` | exclusion by the spin and recursive locks, and objects of heaps that threads share |

Each of the following checks one statement a comment or document of the
repository makes and finds it broken by the code; `PROJECT.json` quotes the line.

| Run | Statement | What happens |
|---|---|---|
| `early_join` | `JoinWaits` | two threads alive: both are entry 0, a join returns for the wrong one |
| `crash` | `NoCrash` | three threads: deletion meets an entry under construction |
| `heap_collide` | `Disjoint` | thread ids 128 apart share an unlocked heap |
| `heap_hang` | `MallocReturns` | two processes meet in `xheap`: the lock is process-private, its sleeper is never woken |

The modules reach more of this kind, by a change of the constants or one more
formula; they follow from the same few causes and have no run of their own:

* every handle carries the index 0 (`mythread.cpp:85`), the cause of `early_join`;
* after a thread's return (`libmythread.cpp:40`) `pthread_create` does nothing and
  answers 0, locks let everybody in, and `malloc` hands out `tempmalloc`'s memory
  with no lock, so two processes may get the same bytes;
* with two creators, one parent takes the notification of the other's child
  (`mydeterm.h:214`) and the other may wait for ever: add a thread to `Creators`
  in `parallel` or `returning`;
* `pthread_exit` after another thread's return skips the broadcast, and a joiner may
  sleep for good: set `EndBy` to both ends in `returning`;
* `pthread_mutex_trylock` always answers 0 (`libmythread.cpp:179`): `MutualExclusion`
  and `HeldBySomebody` fail for a mutex of `Tried`, which they leave out;
* a mutex made with `PTHREAD_MUTEX_INITIALIZER` is process-private and its unlock
  wakes no sleeper of another process: `NoLostWakeup` leaves out `Static`;
* more writable segments than the 64 entries of the parser make it write past its
  array: `LayoutAssumption` keeps the run inside;
* readers of the hash map without the lock may see freed entries, or walk into the
  head of the list, when they meet an insertion or erasure.

### Bounds

Two creations are needed for one registration to meet another or a deletion, two
joinable threads for a join to be confused, three threads for the crash (one to
delete, one that has linked the entry, one that builds it); the passing runs use
three where the state space allows and two where liveness is checked.
`MAX_THREADS` is 2 in `parallel`, the smallest value at which the first child's
index fits and a counter that is not reset shows.  `Garbage` is `{0}`.
Exclusion needs two contenders and a third to hold the mutex or signal.  The
eight units of the heap make two arenas of two or three units, so every process
meets an arena that is full, a free list, a block freed by another process, and
an exhausted heap; `MaxHeld` bounds the blocks in use.  `TempSize` is one unit in
the passing runs, enough to use and to exhaust the buffer.

In `start_up` the segments are one of each kind that start-up treats in its own way
(text, data, this library, libc, TLS without a name, the shared heap, the stack), in an
order where libc is remapped before this library and in one where it comes last; three
children suffice for a handle to meet a page that another process mapped at the same
address.  Threads are symmetric: only their names differ.  In `hash_map` two colliding
keys and two entries make lists of two, `Word` is 6 so that a count falls below zero
and wraps, and `Visit` stops an iterator that runs in circles after as many steps as
there are entries.  Processes and entries are symmetric there, and processes in `sync`.

In `layers` sizes go to 1023 with a 10-bit word, an 8-bit int and seven bins: the
table of small classes, two classes of its loop, the big heap, and every wrap.  The
heaps have just enough memory for the cases that count: three chunks of three slots (five for
`LooseSlotHeap`, which gives chunks back only when it has several), four treap nodes
with two priorities, so that rotations go both ways and ties occur, ten to twenty units
of memory for splitting and merging on both sides, in headers for `LeaHeap`, so that four
objects fit with either header, chunks of an obstack on each side of what an int can
hold, three threads on two heaps, handles
that are negative as ints.  `MaxOvershoot`, `MaxItems`, `MaxTagged`, `MaxObjects`,
`MaxGrown`, `MaxHold`, `ShimMarks` and `LMObjects` bound what would grow without limit.

`CHECK_DEADLOCK FALSE` is used where processes may end or block for good and the
run asks something else: the programs of `UserSync` and `Heap` may stop calling
the library, in `parallel` a process may die with the mutex held, in `start_up` all
processes may be gone, in `hash_map` the entries may be used up, and in `layers` a heap
may be dead or full.
`sequential` and `returning` check for deadlock, with `Terminated` as
the one way to stop.

### Fairness

`LibMyThread!Fairness` is weak fairness of the library steps of each process: the
kernel schedules every runnable process, and a process inside the library needs
nothing else than a free mutex.  Mutexes are not assumed to be fair, and the
program is not obliged to create, join or end.  `JoinReturns` is therefore stated
for joins that find no thread function running any more.  `Heap!LiveSpec` is the same
for processes inside `malloc` or `free`; under it `heap_hang` shows a sleeper that no
step can wake, so the counterexample does not depend on who is scheduled.

## 4. What is proved

TLAPS checks these for every value of the constants, not only for the instances above.
The assumptions on constants are `MyDetermAssumption`, `LibMyThreadAssumption`,
`UserSyncAssumption`, `HeapAssumption`, `LayoutAssumption`, `HashMapAssumption`,
`ThreadHeapsAssumption`, `ShimsAssumption`, `LibMemAssumption`, `SlotHeapsAssumption`,
`RequestsAssumption`, `OperatorsAssumption` and those of the other modules they extend: sets that must be finite or distinct, sizes that are positive, a table
of segments that is long enough, a `size_t` of the hash map whose positive half exceeds the
number of entries, thread descriptors whose addresses give different lock numbers, and for
requests the powers of two of the machine (`Word`, `IntWord` and `PageSize` divide each other
as they must, the buffer of `tempmalloc` is a quarter of the ints, as 2^30 is of 2^32, and
the largest size class and a chunk fit a `size_t` with their headers).
TLC evaluates them in every run.  Conditions on the program that uses the library are
hypotheses of the theorem.  All properties of the runs `parallel`, `sync`, `heap`,
`start_up` and `hash_map` are theorems, so are the safety properties of `sequential`
and `returning`, and so are those of `layers` that concern the locks and lists of shared
heaps, the interposition, size classes, requests and `list.h`.

### Threads (`LibMyThreadProofs`)

* `Typing`: `TypeOK` of `LibMyThread`, for every program.
* `HandshakeHolds`: when main is the only creator and no wakeup is spurious,
  `Handshake` is an invariant.  It is inductive together with `TypeOK`: the one
  child that may be registering is the child main waits for, and the flag is up
  exactly between that child's notification and main's reset.  From it follow
  `CreateReturnsLate` (`SpawnReturnsRegistered`) and `Registration`
  (`OneRegistration`).
* `IndexBounded`: `IndexInBounds`, under the same conditions and with at least two
  entries.  The strengthening is `AtBound`: the counter can stand at the length
  of the array only between a child's increment and its reset, and the handshake
  keeps every other child out of that stretch.
* `JoinersAreWoken`: `NoStrandedJoin` for any number of threads that main creates
  and that end by returning, with `Garbage = {0}`, spurious wakeups or not.
  `JoinInv` has five parts: who is between lock and unlock owns the mutex; only
  main creates and joins; every handle names entry 0 and a join is about a
  thread that was started; when all started threads are past their broadcast,
  entry 0 says EXIT or somebody with the mutex is about to write it
  (`LastLeavesExit`); and a sleeping main has a thread before its broadcast.
  Without `LastLeavesExit` the step from the check to the wait could not be
  shown to leave somebody to wake main.
* `DeletionsMeetWholeEntries` (`NoCrash`), `JoinsWait` (`JoinWaits`) and
  `SequentialProgramsForkAndJoin`: a program whose main keeps one thread at a time
  (`OneAtATime`: threads end by `pthread_exit`, `Garbage = {0}`, no spurious wakeups)
  never crashes, joins only what has ended, and implements `ForkJoin` apart from its
  fairness, for any number of threads one after the other.  Such a program lives with
  every entry being entry 0, and the invariant `SequentialInv` says why.  All threads but
  one are unborn or past their deletion, so a deletion meets no constructor
  (`OneThread`, `WholeEntries`).  The EXIT that an earlier thread left in entry 0 is
  overwritten before main can read it, because from the second child on the index each
  child is given is 0 (`FreshIndex`), and the first child, whose index is 1, finds an
  entry 0 in which nobody has written EXIT (`Clean`); so what a join reads is of its own
  thread (`OwnExit`), and so is the broadcast that wakes it (`RightThread`).

### Synchronisation (`UserSyncProofs`)

* `SyncTyping`: `TypeOK` of `UserSync` for every program.  It needs `WaitersWait`:
  a signal sends a waiter back to the mutex it came with.
* `MutexesExclude`, `MutexesAreHeld`: `MutualExclusion` and `HeldBySomebody`
  while the library is up, for mutexes that trylock is not called on.  The inductive invariant
  `Exclusion` says that a mutex word is 0 exactly when nobody is inside.
* `WakeupsReach`: `NoLostWakeup` for mutexes that `pthread_mutex_init` made, in every
  program, also after the destructor.  It is not inductive: a newcomer may take a free
  mutex with a 1, and only the contender it overtook will then store the 2 the sleepers
  wait for.  The strengthening `AwakeOrMarked` says so: while somebody sleeps, the
  word is 2 or somebody contends.  `SharedIfUsed` says that only a mutex made
  process-shared is slept on, where an unlock reaches every sleeper.

### Allocation (`HeapProofs`)

* `HeapTyping`: `TypeOK` of `Heap` for any sizes, any number of processes and colliding
  heaps, before and after the destructor.  That no pointer leaves the heap does not
  depend on the lock but on a budget: the position of `xheap`, what it counts as left and
  the pages processes have taken and not yet added to the position make up the heap, and
  every arena, with what processes are taking from it and what they still owe it, ends
  before what counts as left (`Budget`).  The sums
  over processes are cardinalities of sets of pairs, to which the library's theorems
  apply.
* `PagesGivenOnce` (`PagesOnce`), while the library is up: `PagesInv` says that one
  process is between lock and unlock of `xheap`, and every arena lies before what it is
  being handed.
* `NothingGivenTwice` (`OwnDisjoint`), `ArenasStayClear` (`ArenaClear`) and
  `ObjectsAreNotWritten` (`NotWritten`, an action property), while the library is up and
  every process has a heap of its own.  The invariant `OwnInv` gives every unit of the
  heap one owner: an object in use, an object in hand inside `malloc` or `free`, an
  object on the free list of one heap, an arena's record, the space of one arena, or
  nobody yet.  It is an existential statement, and every action passes on an owner
  function; a free object is the head of its list or the next of exactly one other,
  which is what keeps a pop from giving an object twice, however blocks wander between
  the heaps of processes.

### Start-up and address spaces (`AddressSpaceProofs`)

* `AddressSpaceTyping` (`TypeOK`) and `StartUpTouchesWhatIsMapped` (`NoFault`), for every
  list of segments in every order: the parser's table holds each writable segment once
  (`TableInv`), and every segment but the one in hand is mapped with its contents, which
  otherwise are in the temporary zone (`StartMaps`, `StartMem`).
* `HandlesLead` (`HandleNames`): whoever knows a handle has the page mapped, and until
  the thread has stored its page so has the thread (`HandleInv`); a page that is unmapped
  in a process that exits is not taken from anybody else.
* `ProcessesAreThreads` (`IsThreadMemory`): every step of `AddressSpace` is a step of
  `ThreadMemory` or a stutter.  After start-up a global has one frame in all processes and
  a stack has one process (`RunInv`).

### Hash map (`ListProofs`, `HashMapProofs`)

`ListProofs` is about lists of any length.  A circular list of `n` nodes is a function
`r` on numbers, from head to head, along which `next` and `prev` are inverse (`Ring`);
`TailInserted` and `EntryUnlinked` give the ring after an insertion and a removal, with
all other rings as they were (`RingKept`), `RingBack` reads one backwards, and `WalkLists`
says that a walk returns the nodes of the ring in order.  `Induction` is induction over a
set of numbers, from the least element that the library's well-founded induction gives,
since the induction theorem itself takes an operator as its parameter.

`HashMapProofs!Inv` says that there are a length and a ring for every bucket such that:
each ring holds entries of its bucket (`Lists`); an entry in use is in its ring or in one
process's hands (`Hands`); the count tells the length, up to the step in progress, and
where an absent key was erased it is too small or has wrapped (`Counts`); a search that
may rely on the list stands where its remaining count says and has passed no entry with its
key (`Searches`); and without plain `insert` no key is twice in a bucket that is not spoiled
(`Once`).  Locks have one holder (`Locks`), and no holder of a lock changes what an
undisturbed reader reads (`Quiet`).  From it follow all properties of the run:
`HashMapTyping`, `SearchesStay` (`ScanSafe`), `AnswersRight` (`Agrees`), `BucketsWhole`
(`BucketWhole`), `KeysOnce` (`Distinct`), and `IterationsWhole` (`IteratesAll`).  The last
needs one more invariant, `Sweeps`: an undisturbed iterator has returned the entries of the
buckets behind it and of its own bucket as far as it has come.

### Shared heaps and interposition (`LayersProofs`)

* `SharedHeapsSafe` (`ThreadHeapsSafe`): `LockedHeap` with its spin lock or recursive lock,
  `ThreadHeap`, `PHOThreadHeap` and `SourceInternalHeap`, for any number of threads, heaps,
  objects and pages.  `LockInv` relates the word, the owner and the count of each lock to who
  is inside; it rests on descriptors that differ, because the recursive lock knows a thread by
  a number it computes from the descriptor's address.  Before `pthread_create` the locks do
  nothing, and one thread runs.  `HandInv` is about what a thread has read or taken and not
  yet used: the head it read is still the head, and no two threads free one object.
  `DataInv` says that for some function every heap's list is a stack of distinct objects
  that ends, and that every object is on one stack, below, or with the program; a pop and a push
  give the next such function.  That the list of a heap, which the property reads off the
  `next` pointers with a recursive function, is that stack is an induction over its length.
  `SourceInv` does the same for pages and the position.
* `CallsInterposed` (`DoubleTakeInterposed`): whoever calls first, the constructor, main or a
  wrapper, the runtime is set up once.  The invariant adds to the property that
  `funcInitialized` is set only with the functions resolved, without which a stream opened
  early could reach a null pointer.

### Malloc wrappers and slot heaps (`LayersProofs`)

* `MallocsKeep` (`ShimsKeep`), for any sizes, alignments and fill marks.  `WrapperInv` says
  that objects are in blocks that are apart and hold their marks; what `realloc` copies is in
  both blocks, and what `memalign` hands out lies in the larger block it asked for
  (`MadeKeeps`).  `LocalWhole`, which also says that `LocalMallocHeap` is lost only over a
  full buffer or an object of its buffer freed late, and `SanityWhole` are inductive with
  their types.  `LibMemInv`
  adds to the property where everything is: what `tempmalloc` gave lies before its mark, and
  objects and free blocks of the heap are apart and between its first byte and `top`
  (`HeapApart`), as long as the heap has been made once at most.
* `SlotsInOnePlace` (`SlotHeapsWhole`), for any numbers of chunks, slots and threads.
  `SlotsInv` adds that the current chunk is cut out of memory; that a chunk is given back
  without a slot in use is the pigeonhole step that its stack then holds every slot
  (`AllThere`).  `LooseInv` is about the bins of `LooseSlotHeap`: the sum of the slots in use
  is a recursive function, and `SumChanges` says what one chunk adds to it; a bin below the
  last is not empty when a chunk is to be given back (`FullnessIs`), and chunks are made in
  their order, so a new one is in no list.  `AlignedInv` adds that a chunk given back to the
  memory below has no slot in use.  `BitmapInv` says why, as long as no exchange has failed, a
  bitmap that has changed and changed back does no harm: what a thread is to get was free in
  the value it read, which is the value it replaces (`Exchanged`).

### Sizes, requests and lists (`OperatorsProofs`)

An input is a state: a size, or two lists that share no node (`OperatorsInv`, proved to hold
of everything `OperatorsSpec` builds).

* `ClassesFit` (`TightFit`) and `BlocksRecycled` (`RecycledFits`): the loop of `size2Class`
  halves what is left, and `Halvings` is shown to be the one class whose bounds enclose the
  size; classes double, so they grow (`ClassGrows`).
* `RequestsStayInside` (`RequestsInside`): masks are roundings when nothing wraps
  (`AlignUpIs`), and each sum is shown to stay below `Word`, or the property's bound on the
  size excludes it.
* `ListOperations` (`ListsAgree`): the pointers of the two lists are two rings apart from
  each other (`PairRings`).  Every operation of `list.h` gives a ring again, shown entry by
  entry (`InsertedBetween`, `EntryUnlinked`, the splice), and the walk of a ring in either
  direction is the sequence it spells (`IsRing`, `IsSpelled`).  Splices are of lists that
  are not empty, as in the property.

### Only model-checked

* Liveness under fairness: `CreateReturns`, `JoinReturns`, and the fairness of
  `KeepsPromise`.  The proof system has no rule for it here.
* Of `MCLayers`, each property being the conjunction of those of several components:
  `FreeListsWhole`, `RegionsAndObstacksWhole` and `LeaTagged`.  `Stacks` and `Trees` use
  RECURSIVE operators, in whose presence the proof system has no SMT solver; `FreeLists`,
  `Regions`, `Obstacks` and `LeaHeap` could be proved component by component.
* `listInsertList`, which links a list with its head and has no caller: no property is
  stated of it.
* The violation runs, of course, whose formulas are false.


## 5. What is not modelled, and why

* The failure of `clone` or of the `mmap` of a status page, and signals:
  `pthread_kill` and `pthread_cancel` do nothing in the code, and nobody installs
  `xmemory`'s handler.
* The return value of a thread, which no code delivers; barriers, whose wait destroys
  the barrier and comes back.
* What the real functions, the recorder and the thread runtime of `libdoubletake.cpp`
  do: their sources are not in the repository.  Wrappers of one shape are one family.
* The hash functions, `hashmap.h`'s `clear` and memory that runs out in it.
* `libfuncs.cpp`: a table of `dlsym` results.  `privateheap.h` forwards; `xplock.h` and
  `xmapping.h` have no user; `references/selfmap.hh` reads the same lines as the parser.
* Of Heap Layers: logging, tracing, timing, statistics and printing; destructors;
  branches for Windows, Solaris, BeOS and Apple; adapters without state
  (`stlallocator.h` and most of the one-page headers); second copies of a class
  (`obstackheap.h`, `experimental/fifofreelist.h`, the `#else` of `dllist.h`);
  `experimental/seg.h`, which includes a file that is missing; `ObstackReap`, whose
  `freeAll` assigns a member that does not exist; `SizeThreadHeap`, whose assertion
  on the size of its header fails on a 64-bit machine; `UniqueHeap`, which forwards to
  one object and counts references; what a mapping of `LeaHeap` holds, and that the header
  `makeObject` writes behind an object lies outside the mapping, or beyond the break, when the
  object fills it; `experimental/testcoalesceableheap.h`, a variant of what `LeaHeap` models.

## 6. Plan

Done: all modules of the table; theorems about `LibMyThread` with the safety part of the
refinement of `ForkJoin`, `UserSync`, `Heap`, `AddressSpace` with the refinement of
`ThreadMemory`, `List`, `HashMap`, `Kingsley`, `Requests`, `ThreadHeaps`, `DoubleTake`,
`Shims`, `LibMem` and `SlotHeaps`.

What would come next, as theorems:

1. `FreeLists`, `Regions`, `Obstacks` and `LeaHeap`, one by one.
2. `Stacks` and `Trees`, once they do without RECURSIVE operators.
3. More programs for `LibMyThreadProofs`: with one thread at a time and ends by returning,
   the flag falls with the first of them, and what is left of the promise can be stated.

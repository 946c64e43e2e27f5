------------------------------- MODULE LibMem -------------------------------
(***************************************************************************)
(* libmem.cpp: malloc and its kin over xmemory, without the threads.  A    *)
(* flag says whether the heap is set up; till then, and again after the    *)
(* destructor, requests are served by tempmalloc.  memalign is the         *)
(* exception: it sets the heap up itself when it finds the flag down, and  *)
(* the heap is mapped at a fixed address, over what was there.             *)
(*                                                                         *)
(* Sizes are counted in half-aligned units: what is aligned has an even    *)
(* address.  An object is [from, at, size, gen, kept]: tempmalloc's buffer *)
(* or the heap, which set-up of the heap it belongs to, and whether the    *)
(* program's data are still in it.  list are the freed blocks of the heap, *)
(* the latest first, and top is the first address not yet given.           *)
(***************************************************************************)
EXTENDS Naturals, Sequences, FiniteSets, FiniteSetsExt, SequencesExt, Layer

CONSTANTS LMTemp,         \* InitialMallocSize
          LMHeap,         \* USER_HEAP_SIZE
          LMSizes,        \* sizes a program asks for
          LMObjects       \* bound on the objects of the program

ASSUME LibMemAssumption ==
  /\ LMTemp \in Nat /\ LMHeap \in Nat /\ LMObjects \in Nat
  /\ LMSizes \subseteq Nat \ {0}

LMEven(n) == 2 * ((n + 1) \div 2)
LMUnits(o) == o.at .. o.at + o.size - 1

LibMemInit ==
  h = [kind |-> "libmem", phase |-> "loading", initialized |-> FALSE, gen |-> 0, temp |-> 0,
       top |-> 0, list |-> << >>, objs |-> {}, early |-> FALSE, dead |-> FALSE]

\* xmemory::initialize: new memory, empty lists, and the block of its own malloc.
FirstBlock == 2
LMSetUp(g) ==
  [g EXCEPT !.initialized = TRUE, !.gen = @ + 1, !.top = FirstBlock, !.list = << >>,
            !.objs = {[o EXCEPT !.kept = o.kept /\ o.from = "temp"] : o \in @}]
LMInitializer == h.phase = "loading" /\ h' = [LMSetUp(h) EXCEPT !.phase = "running"]
LMFinalizer == h.phase = "running" /\ h' = [h EXCEPT !.phase = "ending", !.initialized = FALSE]

\* tempmalloc: a full buffer aborts.
LMTempMalloc(g, sz, kept) ==
  IF g.temp + sz > LMTemp THEN [g EXCEPT !.dead = TRUE]
  ELSE [g EXCEPT !.temp = @ + sz,
                 !.objs = @ \cup {[from |-> "temp", at |-> g.temp, size |-> sz,
                                   gen |-> 0, kept |-> kept]}]

\* xmemory::malloc: the last block freed of that size, or the next of the heap.
LMTake(g, b, kept) ==
  [g EXCEPT !.objs = @ \cup {[from |-> "heap", at |-> b.at, size |-> b.size,
                              gen |-> g.gen, kept |-> kept]}]
MemMalloc(g, sz, kept) ==
  LET fits == {i \in DOMAIN g.list : g.list[i].size = LMEven(sz)}
      new == [at |-> g.top, size |-> LMEven(sz)]
  IN  IF fits # {}
      THEN LMTake([g EXCEPT !.list = RemoveAt(@, Min(fits))], g.list[Min(fits)], kept)
      ELSE IF g.top + LMEven(sz) > LMHeap THEN [g EXCEPT !.dead = TRUE]
      ELSE LMTake([g EXCEPT !.top = @ + LMEven(sz)], new, kept)

\* The headers in the heap as it is now: getSize aborts where there is none.
Headers(g) ==
  {[at |-> o.at, size |-> o.size] : o \in {x \in g.objs : x.from = "heap" /\ x.gen = g.gen}}
    \cup ToSet(g.list) \cup {[at |-> 0, size |-> FirstBlock]}
HeaderOf(g, o) == {b \in Headers(g) : o.from = "heap" /\ b.at = o.at}
MemFree(g, o) ==
  IF HeaderOf(g, o) = {} THEN [g EXCEPT !.dead = TRUE]
  ELSE [g EXCEPT !.list = <<CHOOSE b \in HeaderOf(g, o) : TRUE>> \o @, !.objs = @ \ {o}]

LMMalloc(sz) ==
  h' = IF h.initialized THEN MemMalloc(h, sz, TRUE) ELSE LMTempMalloc(h, LMEven(sz), TRUE)
LMCalloc(n, sz) == LMMalloc(n * sz)
LMFree(o) ==
  h' = IF h.initialized THEN MemFree(h, o) ELSE [h EXCEPT !.objs = @ \ {o}]
LMUsableSize(o) ==
  h.initialized /\ HeaderOf(h, o) = {} /\ h' = [h EXCEPT !.dead = TRUE]
\* The boundary is asked for on top of the size, and the address not moved.
LMMemalign(boundary, sz) ==
  h' = MemMalloc(IF h.initialized THEN h ELSE LMSetUp(h), boundary + sz, TRUE)
\* realloc copies in xmemory; tempmalloc copies nothing and aligns nothing.
LMRealloc(o, sz) ==
  h' = IF ~h.initialized
       THEN LMTempMalloc([h EXCEPT !.early = TRUE, !.objs = @ \ {o}], sz, FALSE)
       ELSE IF HeaderOf(h, o) = {} THEN [h EXCEPT !.dead = TRUE]
       ELSE LET g == MemMalloc(h, sz, o.kept) IN IF g.dead THEN g ELSE MemFree(g, o)
LMReallocNull(sz) ==
  h' = IF h.initialized THEN MemMalloc(h, sz, TRUE)
       ELSE LMTempMalloc([h EXCEPT !.early = TRUE], sz, TRUE)

LibMemNext ==
  /\ ~h.dead
  /\ \/ LMInitializer \/ LMFinalizer
     \/ /\ Cardinality(h.objs) < LMObjects
        /\ \E sz \in LMSizes : \/ LMMalloc(sz) \/ LMCalloc(2, sz)
                               \/ LMMemalign(2, sz) \/ LMReallocNull(sz)
     \/ \E o \in h.objs : LMFree(o) \/ LMUsableSize(o) \/ \E sz \in LMSizes : LMRealloc(o, sz)

\* Before, after and across the constructor and the destructor: objects of the
\* buffer never share a byte; while the heap has been set up once, neither do
\* objects and free blocks of the heap, and every object keeps its data and its
\* alignment unless realloc was called while the flag was down.
LibMemWhole ==
  LET temps == {o \in h.objs : o.from = "temp"}
      heaps == h.objs \ temps
      Apart(S) == \A o, q \in S : o # q => LMUnits(o) \cap LMUnits(q) = {}
  IN  /\ Apart(temps) /\ \A o \in temps : o.at + o.size <= h.temp
      /\ h.gen <= 1 =>
           /\ Apart(heaps) /\ Apart(ToSet(h.list)) /\ IsInjective(h.list)
           /\ \A o \in heaps :
                /\ o.at \in FirstBlock .. h.top - o.size
                /\ \A b \in ToSet(h.list) : LMUnits(o) \cap LMUnits(b) = {}
           /\ ~h.early => \A o \in h.objs : o.kept /\ o.at % 2 = 0
=============================================================================

---------------------------- MODULE ThreadHeaps -----------------------------
(***************************************************************************)
(* The heaps of Heap Layers that several threads share.                    *)
(*                                                                         *)
(*   locked      LockedHeap over a free list, with the spin lock or the    *)
(*               recursive lock over it;                                   *)
(*   threadheap  ThreadHeap: malloc and free use the heap of the calling   *)
(*               thread's number, here a LockedHeap each;                  *)
(*   pho         PHOThreadHeap: free goes back to the heap of the object;  *)
(*   source      SourceInternalHeap, which hands out pages under a mutex.  *)
(*                                                                         *)
(* The free list is read and written in two steps, so that a lock that     *)
(* lets two threads in shows.  at[t] is the heap t works on, pc[t] what it *)
(* does next, p[t] the object it frees or took, seen[t] the head it read.  *)
(***************************************************************************)
EXTENDS Integers, FiniteSets, SequencesExt, FiniteSetsExt, Layer

CONSTANTS Workers,        \* the threads, 1 .. the number of them
          Handles,        \* what pthread_self may return, an address
          HandleWord,     \* 2^32: the cast to int keeps that much
          HandleGap,      \* 2^10: the distance the code takes off a handle
          NumThreadHeaps, \* NumHeaps
          NumShared,      \* objects of the heap below
          SourcePage,     \* bytes of a page
          SourcePages,    \* pages of SourceInternalHeap
          SourceAsks,     \* bytes asked of it
          MaxHold         \* bound on nested locks

PerThread == 0 .. NumThreadHeaps - 1
Shared == 1 .. NumShared
None == 0
Nobody == -1

(***************************************************************************)
(* getThreadId is (int) pthread_self() >> 10, and may be negative; % is    *)
(* the remainder of C, which then is negative too unless it is zero.       *)
(***************************************************************************)
AsInt(n) ==
  LET low == n % HandleWord IN IF low >= HandleWord \div 2 THEN low - HandleWord ELSE low
getThreadId(handle) == AsInt(handle) \div HandleGap
\* The recursive lock's number of a thread is cut to an int after the shift.
CPUThreadId(t) == AsInt(h.handle[t] \div HandleGap)
CRemainder(a, n) == IF a >= 0 THEN a % n ELSE -((-a) % n)
HeapNumber(t) == CRemainder(getThreadId(h.handle[t]), NumThreadHeaps)

\* A handle is the address of a thread's descriptor.  Descriptors are on stacks
\* of their own, so the recursive lock's numbers of threads differ, and differ
\* from that of nobody.
ASSUME ThreadHeapsAssumption ==
  /\ Workers \subseteq Nat /\ Handles \subseteq Nat
  /\ {HandleWord, HandleGap, NumThreadHeaps, SourcePage} \subseteq Nat \ {0}
  /\ {NumShared, SourcePages, MaxHold} \cup SourceAsks \subseteq Nat
  /\ \A a, b \in Handles :
       /\ AsInt(a \div HandleGap) # Nobody
       /\ a # b => AsInt(a \div HandleGap) # AsInt(b \div HandleGap)

\* No two threads have one handle; threads are numbered in the order of handles.
HandlesOf == {f \in [Workers -> Handles] : \A t, u \in Workers : t < u => f[t] < f[u]}

ThreadHeapsInit ==
  \E k \in {"locked", "threadheap", "pho"}, r \in BOOLEAN, f \in HandlesOf :
    /\ r => k = "locked"
    /\ h = [kind |-> k, recursive |-> r, created |-> FALSE, dead |-> FALSE, handle |-> f,
            mutex |-> [i \in PerThread |-> 0], tid |-> [i \in PerThread |-> Nobody],
            count |-> [i \in PerThread |-> 0], held |-> [t \in Workers |-> 0],
            head |-> [i \in PerThread |-> None], next |-> [o \in Shared |-> None],
            owner |-> [o \in Shared |-> Nobody], origin |-> [o \in Shared |-> Nobody],
            super |-> Shared,
            pc |-> [t \in Workers |-> "idle"], at |-> [t \in Workers |-> 0],
            op |-> [t \in Workers |-> "malloc"], p |-> [t \in Workers |-> None],
            seen |-> [t \in Workers |-> None]]

\* anyThreadCreated is set (elsewhere) before a second thread runs.
CreateThread == ~h.created /\ h' = [h EXCEPT !.created = TRUE]
Runs(t) == h.created \/ t = 1

(***************************************************************************)
(* The locks.                                                              *)
(***************************************************************************)
\* A mutant: a plain store also once there are other threads.
AcquiresPlain(t) == TRUE
\* MyInterlockedExchange stores LOCKED whatever it finds and tells what it
\* found; with one thread the lock is a plain store.
Acquires(t) == ~h.created \/ h.mutex[h.at[t]] = 0

\* The recursive lock lets its owner in and counts.
EnterAgain(t) ==
  /\ h.pc[t] = "lock" /\ h.recursive /\ h.tid[h.at[t]] = CPUThreadId(t)
  /\ h' = [h EXCEPT !.count[h.at[t]] = @ + 1, !.pc[t] = "in"]
lock(t) ==
  /\ h.pc[t] = "lock" /\ ~(h.recursive /\ h.tid[h.at[t]] = CPUThreadId(t))
  /\ LET i == h.at[t] IN
     IF Acquires(t)
     THEN h' = [h EXCEPT !.mutex[i] = 1, !.pc[t] = "in",
                         !.tid[i] = IF h.recursive THEN CPUThreadId(t) ELSE @,
                         !.count[i] = IF h.recursive THEN @ + 1 ELSE @]
     ELSE h' = [h EXCEPT !.mutex[i] = 1, !.pc[t] = "spin"]
\* contendedLock waits till it sees the lock free and tries again.
contendedLock(t) ==
  h.pc[t] = "spin" /\ h.mutex[h.at[t]] = 0 /\ h' = [h EXCEPT !.pc[t] = "lock"]
\* The state after t unlocks i.  The recursive lock is released by the last.
Unlocked(i) ==
  IF ~h.recursive THEN [h EXCEPT !.mutex[i] = 0]
  ELSE IF h.count[i] > 1 THEN [h EXCEPT !.count[i] = @ - 1]
  ELSE [h EXCEPT !.count[i] = 0, !.tid[i] = Nobody, !.mutex[i] = 0]

(***************************************************************************)
(* The heaps.  The heap below gives out any of its objects.                *)
(***************************************************************************)
Chosen(t) == IF h.kind = "locked" THEN 0 ELSE HeapNumber(t)
Call(t, op, i, o) ==
  /\ Runs(t) /\ h.pc[t] = "idle"
  /\ h' = IF i < 0 THEN [h EXCEPT !.dead = TRUE]     \* assert (tid >= 0)
          ELSE [h EXCEPT !.pc[t] = "lock", !.op[t] = op, !.at[t] = i, !.p[t] = o]
malloc(t) == Call(t, "malloc", Chosen(t), None)
FreeHeap(t, o) == IF h.kind = "pho" THEN h.origin[o] ELSE Chosen(t)
\* Any thread may free any object the program has, once.
free(t) ==
  \E o \in {q \in Shared : h.owner[q] # Nobody} :
    /\ \A u \in Workers : h.p[u] # o
    /\ Call(t, "free", FreeHeap(t, o), o)
\* LockedHeap::lock and unlock, called by the program around what it does;
\* with the recursive lock it may then call malloc and free.
HoldHeap(t) ==
  /\ h.kind = "locked" /\ h.recursive /\ h.held[t] < MaxHold
  /\ Call(t, "hold", 0, None)
LetGo(t) ==
  /\ h.pc[t] = "idle" /\ h.held[t] > 0
  /\ h' = [Unlocked(0) EXCEPT !.held[t] = @ - 1]

HoldTaken(t) ==
  h.pc[t] = "in" /\ h.op[t] = "hold"
  /\ h' = [h EXCEPT !.pc[t] = "idle", !.held[t] = @ + 1, !.at[t] = 0]
ReadHead(t) ==
  /\ h.pc[t] = "in" /\ h.op[t] # "hold"
  /\ h' = [h EXCEPT !.seen[t] = h.head[h.at[t]], !.pc[t] = "write"]
\* malloc takes the head it read, or an object of the heap below; MarkThreadHeap
\* writes down the heap of the calling thread.
TakeHead(t) ==
  /\ h.pc[t] = "write" /\ h.op[t] = "malloc"
  /\ LET s == h.seen[t] IN
     \/ /\ s # None
        /\ h' = [h EXCEPT !.head[h.at[t]] = h.next[s], !.next[s] = None, !.p[t] = s,
                          !.owner[s] = t, !.origin[s] = HeapNumber(t), !.pc[t] = "out"]
     \/ /\ s = None /\ h.super # {}
        /\ LET o == Min(h.super) IN
           h' = [h EXCEPT !.super = @ \ {o}, !.p[t] = o, !.owner[o] = t,
                          !.origin[o] = HeapNumber(t), !.pc[t] = "out"]
     \/ s = None /\ h.super = {} /\ h' = [h EXCEPT !.pc[t] = "out"]
PutHead(t) ==
  /\ h.pc[t] = "write" /\ h.op[t] = "free"
  /\ h' = [h EXCEPT !.next[h.p[t]] = h.seen[t], !.head[h.at[t]] = h.p[t],
                    !.owner[h.p[t]] = Nobody, !.pc[t] = "out"]
\* The guard's destructor.
Leave(t) ==
  /\ h.pc[t] = "out"
  /\ h' = [Unlocked(h.at[t]) EXCEPT !.pc[t] = "idle", !.p[t] = None, !.seen[t] = None,
                                    !.at[t] = 0, !.op[t] = "malloc"]

ThreadHeapsNext ==
  /\ ~h.dead
  /\ \/ CreateThread
     \/ \E t \in Workers :
          \/ malloc(t) \/ free(t) \/ HoldHeap(t) \/ LetGo(t)
          \/ EnterAgain(t) \/ lock(t) \/ contendedLock(t)
          \/ HoldTaken(t) \/ ReadHead(t) \/ TakeHead(t) \/ PutHead(t) \/ Leave(t)

(***************************************************************************)
InCritical(i) ==
  {t \in Workers : \/ h.pc[t] \in {"in", "write", "out"} /\ h.at[t] = i
                   \/ h.held[t] > 0 /\ i = 0}
\* The list of heap i from its head; None comes after the last object.
Chain(i) ==
  LET from[k \in 1 .. NumShared + 1] ==
        IF k = 1 THEN h.head[i]
        ELSE LET o == from[k - 1] IN IF o = None THEN None ELSE h.next[o]
  IN  from
OnHeap(i) == {Chain(i)[k] : k \in 1 .. NumShared} \ {None}

\* One thread at most is inside a heap, the lock word says so, the recursive
\* lock's owner and count are the thread's and the depth it has reached, every
\* list has an end, and no object is lost or in two places: each is with the
\* program, below, or on one list, which for PHOThreadHeap is that of the heap
\* it came from.
ThreadHeapsWhole ==
  /\ \A i \in PerThread : Cardinality(InCritical(i)) <= 1 /\ (h.mutex[i] = 1) = (InCritical(i) # {})
  /\ h.recursive => \A t \in InCritical(0) :
       h.tid[0] = CPUThreadId(t) /\ h.count[0] = h.held[t] + (IF h.pc[t] \in {"in", "write", "out"} THEN 1 ELSE 0)
  /\ \A i \in PerThread : Chain(i)[NumShared + 1] = None
  /\ \A o \in Shared :
       LET on == {i \in PerThread : o \in OnHeap(i)} IN
       /\ Cardinality(on) + (IF o \in h.super THEN 1 ELSE 0) + (IF h.owner[o] # Nobody THEN 1 ELSE 0) = 1
       /\ h.kind = "pho" => \A i \in on : h.origin[o] = i

(***************************************************************************)
(* SourceInternalHeap.  given are the pages handed out; a request for more *)
(* than there is left ends the process.  free does nothing.                *)
(***************************************************************************)
SourceInit ==
  h = [kind |-> "source", mutex |-> 0, position |-> 0, remaining |-> SourcePages, dead |-> FALSE,
       given |-> {}, pc |-> [t \in Workers |-> "idle"], want |-> [t \in Workers |-> 0],
       seen |-> [t \in Workers |-> 0]]
PagesFor(sz) == (sz + SourcePage - 1) \div SourcePage
SourceMalloc(t, sz) ==
  h.pc[t] = "idle" /\ h' = [h EXCEPT !.pc[t] = "lock", !.want[t] = sz]
SourceLock(t) ==
  h.pc[t] = "lock" /\ h.mutex = 0 /\ h' = [h EXCEPT !.mutex = 1, !.pc[t] = "in"]
SourceRead(t) ==
  /\ h.pc[t] = "in"
  /\ h' = IF h.remaining < PagesFor(h.want[t]) THEN [h EXCEPT !.dead = TRUE]
          ELSE [h EXCEPT !.seen[t] = h.position, !.pc[t] = "write"]
SourceBump(t) ==
  LET n == PagesFor(h.want[t]) IN
  /\ h.pc[t] = "write"
  /\ h' = [h EXCEPT !.remaining = @ - n, !.position = h.seen[t] + n, !.pc[t] = "out",
                    !.given = @ \cup {[a |-> h.seen[t], n |-> n, sz |-> h.want[t]]}]
SourceUnlock(t) ==
  h.pc[t] = "out" /\ h' = [h EXCEPT !.mutex = 0, !.pc[t] = "idle", !.want[t] = 0, !.seen[t] = 0]
SourceNext ==
  /\ ~h.dead
  /\ \E t \in Workers :
       \/ \E sz \in SourceAsks : SourceMalloc(t, sz)
       \/ SourceLock(t) \/ SourceRead(t) \/ SourceBump(t) \/ SourceUnlock(t)
\* No page is handed out twice, each request gets as much as it asked for, and
\* what is left is what has not been handed out.
SourceWhole ==
  LET PagesOf(g) == g.a .. g.a + g.n - 1 IN
  /\ h.remaining = SourcePages - Cardinality(UNION {PagesOf(g) : g \in h.given})
  /\ \A g \in h.given : PagesOf(g) \subseteq 0 .. SourcePages - 1 /\ g.n * SourcePage >= g.sz
  /\ \A g, k \in h.given : g # k => PagesOf(g) \cap PagesOf(k) = {}

(***************************************************************************)
ThreadKinds == {"locked", "threadheap", "pho", "source"}

SharedHeapsInit == ThreadHeapsInit \/ SourceInit
SharedHeapsNext ==
  \/ h.kind # "source" /\ ThreadHeapsNext
  \/ h.kind = "source" /\ SourceNext
SharedHeapsSpec == SharedHeapsInit /\ [][SharedHeapsNext]_h

\* The locks of the shared heaps exclude, and no order of the threads' steps
\* loses an object or gives it to two (ThreadHeapsWhole, SourceWhole).
ThreadHeapsSafe ==
  /\ h.kind \in ThreadKinds \ {"source"} => ThreadHeapsWhole
  /\ h.kind = "source" => SourceWhole
=============================================================================

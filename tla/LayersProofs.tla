---------------------------- MODULE LayersProofs ----------------------------
(***************************************************************************)
(* Theorems about the building blocks of the library, each for any sizes   *)
(* and numbers.                                                            *)
(***************************************************************************)
EXTENDS DoubleTake, ThreadHeaps, Shims, SlotHeaps, FiniteSetTheorems, SequenceTheorems, WellFoundedInduction, TLAPS

-----------------------------------------------------------------------------
(* Lemmas for all of them *)

\* Induction over the natural numbers, for a set.
LEMMA Induction ==
  ASSUME NEW S, 0 \in S, \A n \in Nat : n \in S => n + 1 \in S
  PROVE  \A n \in Nat : n \in S
<1> DEFINE T == {n \in Nat : n \notin S}
<1> SUFFICES ASSUME T # {} PROVE FALSE
  OBVIOUS
<1>1. T \subseteq Nat
  OBVIOUS
<1>2. PICK x \in T : \A y \in T : ~ (<<y, x>> \in OpToRel(<, Nat))
  BY <1>1, NatLessThanWellFounded, WFMin
<1>3. x # 0 /\ x - 1 \in Nat /\ (x - 1) + 1 = x
  OBVIOUS
<1>4. x - 1 \in T
  BY <1>3
<1>5. <<x - 1, x>> \in OpToRel(<, Nat)
  BY <1>1, <1>3, <1>4 DEF OpToRel
<1>6. QED
  BY <1>2, <1>4, <1>5

\* A set of numbers has a least one.
LEMMA MinIn ==
  ASSUME NEW S, S \subseteq Nat, S # {}
  PROVE  Min(S) \in S /\ \A n \in S : Min(S) <= n
<1>1. PICK x \in S : \A y \in S : ~ (<<y, x>> \in OpToRel(<, Nat))
  BY NatLessThanWellFounded, WFMin
<1>2. \A y \in S : x <= y
  <2> SUFFICES ASSUME NEW y \in S PROVE x <= y
    OBVIOUS
  <2>1. x \in Nat /\ y \in Nat /\ ~ (y < x)
    BY <1>1 DEF OpToRel
  <2>2. QED
    BY <2>1
<1>3. QED
  BY <1>2 DEF Min

\* The size of a set whose elements are all the same
LEMMA OneAtMost ==
  ASSUME NEW S, \A x, y \in S : x = y
  PROVE  Cardinality(S) = IF S = {} THEN 0 ELSE 1
<1>1. CASE S = {}
  BY <1>1, FS_EmptySet
<1>2. CASE S # {}
  <2>1. PICK x \in S : TRUE
    BY <1>2
  <2>2. S = {x}
    BY <2>1
  <2>3. Cardinality(S) = 1
    BY <2>2, FS_Singleton
  <2>4. QED
    BY <1>2, <2>3
<1>3. QED
  BY <1>1, <1>2

-----------------------------------------------------------------------------
(* The heaps that threads share: ThreadHeaps *)

Stages == {"idle", "lock", "spin", "in", "write", "out"}

ThreadHeapsType ==
  h \in [kind : {"locked", "threadheap", "pho"}, recursive : BOOLEAN, created : BOOLEAN,
         dead : BOOLEAN, handle : HandlesOf, mutex : [PerThread -> {0, 1}],
         tid : [PerThread -> Int], count : [PerThread -> Nat], held : [Workers -> Nat],
         head : [PerThread -> Shared \cup {None}], next : [Shared -> Shared \cup {None}],
         owner : [Shared -> Workers \cup {Nobody}], origin : [Shared -> Int],
         super : SUBSET Shared, pc : [Workers -> Stages], at : [Workers -> PerThread],
         op : [Workers -> {"malloc", "free", "hold"}], p : [Workers -> Shared \cup {None}],
         seen : [Workers -> Shared \cup {None}]]

Inside(t) == h.pc[t] \in {"in", "write", "out"}
\* t is inside heap i.
Within(t, i) == (Inside(t) /\ h.at[t] = i) \/ (h.held[t] > 0 /\ i = 0)

\* The locks: one thread is inside, and the word, the owner and the count say so.
\* Before threads are created only the first runs.
LockInv ==
  /\ \A i \in PerThread, t, u \in Workers : Within(t, i) /\ Within(u, i) => t = u
  /\ \A i \in PerThread : h.mutex[i] = 1 <=> \E t \in Workers : Within(t, i)
  /\ h.recursive =>
       /\ \A t \in Workers : Within(t, 0) =>
            h.tid[0] = CPUThreadId(t) /\ h.count[0] = h.held[t] + (IF Inside(t) THEN 1 ELSE 0)
       /\ (\A t \in Workers : ~Within(t, 0)) => h.tid[0] = Nobody /\ h.count[0] = 0
  /\ ~h.created => \A t \in Workers : t # 1 => h.pc[t] = "idle" /\ h.held[t] = 0
  /\ \A t \in Workers : h.held[t] > 0 \/ h.op[t] = "hold" => h.recursive
  /\ h.recursive => h.kind = "locked"
  /\ h.kind = "locked" => \A t \in Workers : h.at[t] = 0

\* t frees an object and has not put it away yet.
Freeing(t) == h.op[t] = "free" /\ h.pc[t] \in {"lock", "spin", "in", "write"}

\* What a thread has in hand: the head it read is still the head, the object it
\* frees is no other thread's, and with PHOThreadHeap belongs to the heap it works on.
HandInv ==
  /\ \A t \in Workers : h.pc[t] = "write" => h.seen[t] = h.head[h.at[t]]
  /\ \A t \in Workers : Freeing(t) => h.p[t] \in Shared /\ h.owner[h.p[t]] # Nobody
  /\ \A t, u \in Workers : Freeing(t) /\ Freeing(u) /\ h.p[t] = h.p[u] => t = u
  /\ h.kind = "pho" =>
       /\ \A o \in Shared : h.owner[o] # Nobody => h.origin[o] \in PerThread
       /\ \A t \in Workers :
            /\ Freeing(t) => h.at[t] = h.origin[h.p[t]]
            /\ h.pc[t] # "idle" /\ h.op[t] = "malloc" => h.at[t] = HeapNumber(t)

\* st[i][1] .. st[i][n[i]] are the objects on the list of heap i, the last first,
\* and an object is on one of the lists, below, or with the program.
Stacked(n, st) ==
  /\ \A i \in PerThread :
       /\ n[i] \in Nat /\ st[i][0] = None /\ h.head[i] = st[i][n[i]]
       /\ \A k \in 1 .. n[i] :
            LET o == st[i][k] IN
            /\ o \in Shared /\ h.next[o] = st[i][k - 1]
            /\ h.owner[o] = Nobody /\ o \notin h.super
            /\ h.kind = "pho" => h.origin[o] = i
  /\ \A i, j \in PerThread : \A k \in 1 .. n[i], m \in 1 .. n[j] :
       st[i][k] = st[j][m] => i = j /\ k = m
  /\ \A o \in Shared :
       /\ o \in h.super => h.owner[o] = Nobody
       /\ h.owner[o] = Nobody =>
            o \in h.super \/ \E i \in PerThread : \E k \in 1 .. n[i] : st[i][k] = o
DataInv == \E n, st : Stacked(n, st)

ThreadHeapsInv == ThreadHeapsType /\ LockInv /\ HandInv /\ DataInv

\* What the constants are
LEMMA SharedFacts ==
  /\ Workers \subseteq Nat /\ Handles \subseteq Nat
  /\ HandleWord \in Nat \ {0} /\ HandleGap \in Nat \ {0}
  /\ NumThreadHeaps \in Nat \ {0} /\ SourcePage \in Nat \ {0}
  /\ NumShared \in Nat /\ SourcePages \in Nat /\ MaxHold \in Nat /\ SourceAsks \subseteq Nat
  /\ 0 \in PerThread /\ PerThread \subseteq Nat
  /\ Shared \subseteq Nat /\ None \notin Shared /\ Nobody \notin Workers
BY ThreadHeapsAssumption DEF PerThread, Shared, None, Nobody

\* The numbers of threads: those of the recursive lock are different, and those
\* that choose a heap name one unless they are negative (threadheap.h:57).
LEMMA ThreadNumbers ==
  ASSUME ThreadHeapsType, NEW t \in Workers
  PROVE  /\ CPUThreadId(t) \in Int /\ CPUThreadId(t) # Nobody
         /\ \A u \in Workers : CPUThreadId(t) = CPUThreadId(u) => t = u
         /\ HeapNumber(t) \in Int
         /\ HeapNumber(t) >= 0 => HeapNumber(t) \in PerThread
<1>1. h.handle \in [Workers -> Handles] /\ \A v, u \in Workers : v < u => h.handle[v] < h.handle[u]
  BY DEF ThreadHeapsType, HandlesOf
<1>2. \A n \in Int : AsInt(n) \in Int
  BY SharedFacts DEF AsInt
<1>3. ASSUME NEW u \in Workers
      PROVE  h.handle[u] \in Handles /\ h.handle[u] \in Nat /\ h.handle[u] \div HandleGap \in Int
  <2>1. h.handle[u] \in Handles /\ h.handle[u] \in Nat
    BY <1>1, SharedFacts
  <2>2. \A a \in Nat : a \div HandleGap \in Int
    BY SharedFacts
  <2>3. QED
    BY <2>1, <2>2
<1>4. ASSUME NEW u \in Workers, u # t
      PROVE  h.handle[u] # h.handle[t]
  <2>1. u \in Nat /\ t \in Nat
    BY SharedFacts
  <2>2. u < t \/ t < u
    BY <2>1, <1>4
  <2>3. QED
    BY <1>1, <1>3, <2>2
<1>5. HeapNumber(t) \in Int /\ (HeapNumber(t) >= 0 => HeapNumber(t) \in 0 .. NumThreadHeaps - 1)
  <2> DEFINE a == getThreadId(h.handle[t])
  <2>1. a \in Int
    BY <1>2, <1>3, SharedFacts DEF getThreadId
  <2>2. HeapNumber(t) = IF a >= 0 THEN a % NumThreadHeaps ELSE -((-a) % NumThreadHeaps)
    BY DEF HeapNumber, CRemainder
  <2> HIDE DEF a
  <2>3. \A b \in Int : b % NumThreadHeaps \in 0 .. NumThreadHeaps - 1
    BY SharedFacts
  <2>4. a % NumThreadHeaps \in 0 .. NumThreadHeaps - 1 /\ (-a) % NumThreadHeaps \in 0 .. NumThreadHeaps - 1
    BY <2>1, <2>3
  <2>5. QED
    BY <2>2, <2>4, SharedFacts
<1>6. CPUThreadId(t) \in Int /\ CPUThreadId(t) # Nobody
  BY <1>2, <1>3, ThreadHeapsAssumption DEF CPUThreadId
<1>7. \A u \in Workers : CPUThreadId(t) = CPUThreadId(u) => t = u
  BY <1>3, <1>4, ThreadHeapsAssumption DEF CPUThreadId
<1>8. QED
  BY <1>5, <1>6, <1>7 DEF PerThread

\* Where a call goes: to a heap there is, or into a failed assertion.
LEMMA CallGoes ==
  ASSUME ThreadHeapsType, HandInv, NEW t \in Workers
  PROVE  /\ Chosen(t) \in PerThread \/ Chosen(t) < 0
         /\ \A o \in Shared : h.owner[o] # Nobody =>
              FreeHeap(t, o) \in PerThread \/ FreeHeap(t, o) < 0
<1>1. Chosen(t) \in PerThread \/ Chosen(t) < 0
  BY ThreadNumbers, SharedFacts DEF Chosen
<1>2. QED
  BY <1>1 DEF FreeHeap, HandInv

\* What a step leaves alone
SameSelf ==
  /\ h'.kind = h.kind /\ h'.recursive = h.recursive /\ h'.handle = h.handle
  /\ h'.created = h.created
SameLocks == h'.mutex = h.mutex /\ h'.tid = h.tid /\ h'.count = h.count /\ h'.held = h.held
SameData ==
  /\ h'.head = h.head /\ h'.next = h.next /\ h'.owner = h.owner
  /\ h'.origin = h.origin /\ h'.super = h.super
SameHand == h'.at = h.at /\ h'.op = h.op /\ h'.p = h.p /\ h'.seen = h.seen

\* The fields of the record after each step
LEMMA CallShape ==
  ASSUME ThreadHeapsType, NEW t \in Workers, NEW op \in {"malloc", "free", "hold"}, NEW i \in PerThread,
         NEW o \in Shared \cup {None}, Call(t, op, i, o)
  PROVE  /\ ThreadHeapsType'
         /\ SameSelf /\ SameLocks /\ SameData
         /\ h'.seen = h.seen
         /\ h'.pc = [h.pc EXCEPT ![t] = "lock"]
         /\ h'.at = [h.at EXCEPT ![t] = i]
         /\ h'.op = [h.op EXCEPT ![t] = op]
         /\ h'.p = [h.p EXCEPT ![t] = o]
<1> DEFINE new_pc == [h.pc EXCEPT ![t] = "lock"]
           new_at == [h.at EXCEPT ![t] = i]
           new_op == [h.op EXCEPT ![t] = op]
           new_p == [h.p EXCEPT ![t] = o]
<1>1. ~ (i < 0)
  BY SharedFacts
<1>2. h' = [[[[h EXCEPT !.pc = new_pc] EXCEPT !.at = new_at] EXCEPT !.op = new_op] EXCEPT !.p = new_p]
  BY <1>1 DEF Call, ThreadHeapsType
<1>3. /\ new_pc \in [Workers -> Stages]
      /\ new_at \in [Workers -> PerThread]
      /\ new_op \in [Workers -> {"malloc", "free", "hold"}]
      /\ new_p \in [Workers -> Shared \cup {None}]
  BY <1>1, SharedFacts DEF ThreadHeapsType, Stages
<1> HIDE DEF new_pc, new_at, new_op, new_p
<1>4. ThreadHeapsType'
  BY <1>2, <1>3 DEF ThreadHeapsType
<1>5. /\ h'.pc = new_pc
      /\ h'.at = new_at
      /\ h'.op = new_op
      /\ h'.p = new_p
  BY <1>2 DEF ThreadHeapsType
<1>6. SameSelf /\ SameLocks /\ SameData
  BY <1>2 DEF ThreadHeapsType, SameSelf, SameLocks, SameData
<1>7. /\ h'.seen = h.seen
  BY <1>2 DEF ThreadHeapsType
<1>8. QED
  BY <1>4, <1>5, <1>6, <1>7 DEF new_pc, new_at, new_op, new_p

\* The same for free
LEMMA FreeShape ==
  ASSUME ThreadHeapsType, NEW t \in Workers, NEW i \in PerThread,
         NEW o \in Shared, Call(t, "free", i, o)
  PROVE  /\ ThreadHeapsType'
         /\ SameSelf /\ SameLocks /\ SameData
         /\ h'.seen = h.seen
         /\ h'.pc = [h.pc EXCEPT ![t] = "lock"]
         /\ h'.at = [h.at EXCEPT ![t] = i]
         /\ h'.op = [h.op EXCEPT ![t] = "free"]
         /\ h'.p = [h.p EXCEPT ![t] = o]
<1> DEFINE new_pc == [h.pc EXCEPT ![t] = "lock"]
           new_at == [h.at EXCEPT ![t] = i]
           new_op == [h.op EXCEPT ![t] = "free"]
           new_p == [h.p EXCEPT ![t] = o]
<1>1. ~ (i < 0)
  BY SharedFacts
<1>2. h' = [[[[h EXCEPT !.pc = new_pc] EXCEPT !.at = new_at] EXCEPT !.op = new_op] EXCEPT !.p = new_p]
  BY <1>1 DEF Call, ThreadHeapsType
<1>3. /\ new_pc \in [Workers -> Stages]
      /\ new_at \in [Workers -> PerThread]
      /\ new_op \in [Workers -> {"malloc", "free", "hold"}]
      /\ new_p \in [Workers -> Shared \cup {None}]
  BY <1>1, SharedFacts DEF ThreadHeapsType, Stages
<1> HIDE DEF new_pc, new_at, new_op, new_p
<1>4. ThreadHeapsType'
  BY <1>2, <1>3 DEF ThreadHeapsType
<1>5. /\ h'.pc = new_pc
      /\ h'.at = new_at
      /\ h'.op = new_op
      /\ h'.p = new_p
  BY <1>2 DEF ThreadHeapsType
<1>6. SameSelf /\ SameLocks /\ SameData
  BY <1>2 DEF ThreadHeapsType, SameSelf, SameLocks, SameData
<1>7. /\ h'.seen = h.seen
  BY <1>2 DEF ThreadHeapsType
<1>8. QED
  BY <1>4, <1>5, <1>6, <1>7 DEF new_pc, new_at, new_op, new_p

LEMMA LetGoCounts ==
  ASSUME ThreadHeapsType, NEW t \in Workers, LetGo(t), h.recursive, h.count[0] > 1
  PROVE  /\ ThreadHeapsType'
         /\ SameSelf /\ SameData /\ SameHand
         /\ h'.mutex = h.mutex /\ h'.tid = h.tid /\ h'.pc = h.pc
         /\ h'.count = [h.count EXCEPT ![0] = h.count[0] - 1]
         /\ h'.held = [h.held EXCEPT ![t] = h.held[t] - 1]
<1> DEFINE new_count == [h.count EXCEPT ![0] = h.count[0] - 1]
           new_held == [h.held EXCEPT ![t] = h.held[t] - 1]
<1>1. h.count[0] \in Nat /\ h.held[t] \in Nat /\ h.held[t] > 0 /\ 0 \in PerThread
  BY SharedFacts DEF LetGo, ThreadHeapsType
<1>2. h' = [[h EXCEPT !.count = new_count] EXCEPT !.held = new_held]
  BY <1>1 DEF LetGo, Unlocked, ThreadHeapsType
<1>3. /\ new_count \in [PerThread -> Nat]
      /\ new_held \in [Workers -> Nat]
  BY <1>1, SharedFacts DEF ThreadHeapsType, Stages
<1> HIDE DEF new_count, new_held
<1>4. ThreadHeapsType'
  BY <1>2, <1>3 DEF ThreadHeapsType
<1>5. /\ h'.count = new_count
      /\ h'.held = new_held
  BY <1>2 DEF ThreadHeapsType
<1>6. SameSelf /\ SameData /\ SameHand
  BY <1>2 DEF ThreadHeapsType, SameSelf, SameData, SameHand
<1>7. /\ h'.mutex = h.mutex
      /\ h'.tid = h.tid
      /\ h'.pc = h.pc
  BY <1>2 DEF ThreadHeapsType
<1>8. QED
  BY <1>4, <1>5, <1>6, <1>7 DEF new_count, new_held

LEMMA LetGoReleases ==
  ASSUME ThreadHeapsType, NEW t \in Workers, LetGo(t), h.recursive, ~ (h.count[0] > 1)
  PROVE  /\ ThreadHeapsType'
         /\ SameSelf /\ SameData /\ SameHand
         /\ h'.pc = h.pc
         /\ h'.count = [h.count EXCEPT ![0] = 0]
         /\ h'.tid = [h.tid EXCEPT ![0] = Nobody]
         /\ h'.mutex = [h.mutex EXCEPT ![0] = 0]
         /\ h'.held = [h.held EXCEPT ![t] = h.held[t] - 1]
<1> DEFINE new_count == [h.count EXCEPT ![0] = 0]
           new_tid == [h.tid EXCEPT ![0] = Nobody]
           new_mutex == [h.mutex EXCEPT ![0] = 0]
           new_held == [h.held EXCEPT ![t] = h.held[t] - 1]
<1>1. /\ h.count[0] \in Nat /\ h.held[t] \in Nat /\ h.held[t] > 0 /\ 0 \in PerThread
      /\ Nobody \in Int
  BY SharedFacts DEF LetGo, ThreadHeapsType, Nobody
<1>2. h' = [[[[h EXCEPT !.count = new_count] EXCEPT !.tid = new_tid] EXCEPT !.mutex = new_mutex] EXCEPT !.held = new_held]
  BY <1>1 DEF LetGo, Unlocked, ThreadHeapsType
<1>3. /\ new_count \in [PerThread -> Nat]
      /\ new_tid \in [PerThread -> Int]
      /\ new_mutex \in [PerThread -> {0, 1}]
      /\ new_held \in [Workers -> Nat]
  BY <1>1, SharedFacts DEF ThreadHeapsType, Stages
<1> HIDE DEF new_count, new_tid, new_mutex, new_held
<1>4. ThreadHeapsType'
  BY <1>2, <1>3 DEF ThreadHeapsType
<1>5. /\ h'.count = new_count
      /\ h'.tid = new_tid
      /\ h'.mutex = new_mutex
      /\ h'.held = new_held
  BY <1>2 DEF ThreadHeapsType
<1>6. SameSelf /\ SameData /\ SameHand
  BY <1>2 DEF ThreadHeapsType, SameSelf, SameData, SameHand
<1>7. /\ h'.pc = h.pc
  BY <1>2 DEF ThreadHeapsType
<1>8. QED
  BY <1>4, <1>5, <1>6, <1>7 DEF new_count, new_tid, new_mutex, new_held

LEMMA LeaveCounts ==
  ASSUME ThreadHeapsType, NEW t \in Workers, Leave(t), h.recursive, h.count[h.at[t]] > 1
  PROVE  /\ ThreadHeapsType'
         /\ SameSelf /\ SameData
         /\ h'.mutex = h.mutex /\ h'.tid = h.tid /\ h'.held = h.held
         /\ h'.count = [h.count EXCEPT ![h.at[t]] = h.count[h.at[t]] - 1]
         /\ h'.pc = [h.pc EXCEPT ![t] = "idle"]
         /\ h'.p = [h.p EXCEPT ![t] = None]
         /\ h'.seen = [h.seen EXCEPT ![t] = None]
         /\ h'.at = [h.at EXCEPT ![t] = 0]
         /\ h'.op = [h.op EXCEPT ![t] = "malloc"]
<1> DEFINE new_count == [h.count EXCEPT ![h.at[t]] = h.count[h.at[t]] - 1]
           new_pc == [h.pc EXCEPT ![t] = "idle"]
           new_p == [h.p EXCEPT ![t] = None]
           new_seen == [h.seen EXCEPT ![t] = None]
           new_at == [h.at EXCEPT ![t] = 0]
           new_op == [h.op EXCEPT ![t] = "malloc"]
<1>1. h.at[t] \in PerThread /\ h.count[h.at[t]] \in Nat
  BY DEF ThreadHeapsType
<1>2. h' = [[[[[[h EXCEPT !.count = new_count] EXCEPT !.pc = new_pc] EXCEPT !.p = new_p] EXCEPT !.seen = new_seen] EXCEPT !.at = new_at] EXCEPT !.op = new_op]
  BY <1>1 DEF Leave, Unlocked, ThreadHeapsType
<1>3. /\ new_count \in [PerThread -> Nat]
      /\ new_pc \in [Workers -> Stages]
      /\ new_p \in [Workers -> Shared \cup {None}]
      /\ new_seen \in [Workers -> Shared \cup {None}]
      /\ new_at \in [Workers -> PerThread]
      /\ new_op \in [Workers -> {"malloc", "free", "hold"}]
  BY <1>1, SharedFacts DEF ThreadHeapsType, Stages
<1> HIDE DEF new_count, new_pc, new_p, new_seen, new_at, new_op
<1>4. ThreadHeapsType'
  BY <1>2, <1>3 DEF ThreadHeapsType
<1>5. /\ h'.count = new_count
      /\ h'.pc = new_pc
      /\ h'.p = new_p
      /\ h'.seen = new_seen
      /\ h'.at = new_at
      /\ h'.op = new_op
  BY <1>2 DEF ThreadHeapsType
<1>6. SameSelf /\ SameData
  BY <1>2 DEF ThreadHeapsType, SameSelf, SameData
<1>7. /\ h'.mutex = h.mutex
      /\ h'.tid = h.tid
      /\ h'.held = h.held
  BY <1>2 DEF ThreadHeapsType
<1>8. QED
  BY <1>4, <1>5, <1>6, <1>7 DEF new_count, new_pc, new_p, new_seen, new_at, new_op

LEMMA LeaveReleases ==
  ASSUME ThreadHeapsType, NEW t \in Workers, Leave(t), h.recursive, ~ (h.count[h.at[t]] > 1)
  PROVE  /\ ThreadHeapsType'
         /\ SameSelf /\ SameData
         /\ h'.held = h.held
         /\ h'.count = [h.count EXCEPT ![h.at[t]] = 0]
         /\ h'.tid = [h.tid EXCEPT ![h.at[t]] = Nobody]
         /\ h'.mutex = [h.mutex EXCEPT ![h.at[t]] = 0]
         /\ h'.pc = [h.pc EXCEPT ![t] = "idle"]
         /\ h'.p = [h.p EXCEPT ![t] = None]
         /\ h'.seen = [h.seen EXCEPT ![t] = None]
         /\ h'.at = [h.at EXCEPT ![t] = 0]
         /\ h'.op = [h.op EXCEPT ![t] = "malloc"]
<1> DEFINE new_count == [h.count EXCEPT ![h.at[t]] = 0]
           new_tid == [h.tid EXCEPT ![h.at[t]] = Nobody]
           new_mutex == [h.mutex EXCEPT ![h.at[t]] = 0]
           new_pc == [h.pc EXCEPT ![t] = "idle"]
           new_p == [h.p EXCEPT ![t] = None]
           new_seen == [h.seen EXCEPT ![t] = None]
           new_at == [h.at EXCEPT ![t] = 0]
           new_op == [h.op EXCEPT ![t] = "malloc"]
<1>1. h.at[t] \in PerThread /\ Nobody \in Int
  BY DEF ThreadHeapsType, Nobody
<1>2. h' = [[[[[[[[h EXCEPT !.count = new_count] EXCEPT !.tid = new_tid] EXCEPT !.mutex = new_mutex] EXCEPT !.pc = new_pc] EXCEPT !.p = new_p] EXCEPT !.seen = new_seen] EXCEPT !.at = new_at] EXCEPT !.op = new_op]
  BY <1>1 DEF Leave, Unlocked, ThreadHeapsType
<1>3. /\ new_count \in [PerThread -> Nat]
      /\ new_tid \in [PerThread -> Int]
      /\ new_mutex \in [PerThread -> {0, 1}]
      /\ new_pc \in [Workers -> Stages]
      /\ new_p \in [Workers -> Shared \cup {None}]
      /\ new_seen \in [Workers -> Shared \cup {None}]
      /\ new_at \in [Workers -> PerThread]
      /\ new_op \in [Workers -> {"malloc", "free", "hold"}]
  BY <1>1, SharedFacts DEF ThreadHeapsType, Stages
<1> HIDE DEF new_count, new_tid, new_mutex, new_pc, new_p, new_seen, new_at, new_op
<1>4. ThreadHeapsType'
  BY <1>2, <1>3 DEF ThreadHeapsType
<1>5. /\ h'.count = new_count
      /\ h'.tid = new_tid
      /\ h'.mutex = new_mutex
      /\ h'.pc = new_pc
      /\ h'.p = new_p
      /\ h'.seen = new_seen
      /\ h'.at = new_at
      /\ h'.op = new_op
  BY <1>2 DEF ThreadHeapsType
<1>6. SameSelf /\ SameData
  BY <1>2 DEF ThreadHeapsType, SameSelf, SameData
<1>7. /\ h'.held = h.held
  BY <1>2 DEF ThreadHeapsType
<1>8. QED
  BY <1>4, <1>5, <1>6, <1>7 DEF new_count, new_tid, new_mutex, new_pc, new_p, new_seen, new_at, new_op

LEMMA LeavePlain ==
  ASSUME ThreadHeapsType, NEW t \in Workers, Leave(t), ~h.recursive
  PROVE  /\ ThreadHeapsType'
         /\ SameSelf /\ SameData
         /\ h'.tid = h.tid /\ h'.count = h.count /\ h'.held = h.held
         /\ h'.mutex = [h.mutex EXCEPT ![h.at[t]] = 0]
         /\ h'.pc = [h.pc EXCEPT ![t] = "idle"]
         /\ h'.p = [h.p EXCEPT ![t] = None]
         /\ h'.seen = [h.seen EXCEPT ![t] = None]
         /\ h'.at = [h.at EXCEPT ![t] = 0]
         /\ h'.op = [h.op EXCEPT ![t] = "malloc"]
<1> DEFINE new_mutex == [h.mutex EXCEPT ![h.at[t]] = 0]
           new_pc == [h.pc EXCEPT ![t] = "idle"]
           new_p == [h.p EXCEPT ![t] = None]
           new_seen == [h.seen EXCEPT ![t] = None]
           new_at == [h.at EXCEPT ![t] = 0]
           new_op == [h.op EXCEPT ![t] = "malloc"]
<1>1. h.at[t] \in PerThread
  BY DEF ThreadHeapsType
<1>2. h' = [[[[[[h EXCEPT !.mutex = new_mutex] EXCEPT !.pc = new_pc] EXCEPT !.p = new_p] EXCEPT !.seen = new_seen] EXCEPT !.at = new_at] EXCEPT !.op = new_op]
  BY <1>1 DEF Leave, Unlocked, ThreadHeapsType
<1>3. /\ new_mutex \in [PerThread -> {0, 1}]
      /\ new_pc \in [Workers -> Stages]
      /\ new_p \in [Workers -> Shared \cup {None}]
      /\ new_seen \in [Workers -> Shared \cup {None}]
      /\ new_at \in [Workers -> PerThread]
      /\ new_op \in [Workers -> {"malloc", "free", "hold"}]
  BY <1>1, SharedFacts DEF ThreadHeapsType, Stages
<1> HIDE DEF new_mutex, new_pc, new_p, new_seen, new_at, new_op
<1>4. ThreadHeapsType'
  BY <1>2, <1>3 DEF ThreadHeapsType
<1>5. /\ h'.mutex = new_mutex
      /\ h'.pc = new_pc
      /\ h'.p = new_p
      /\ h'.seen = new_seen
      /\ h'.at = new_at
      /\ h'.op = new_op
  BY <1>2 DEF ThreadHeapsType
<1>6. SameSelf /\ SameData
  BY <1>2 DEF ThreadHeapsType, SameSelf, SameData
<1>7. /\ h'.tid = h.tid
      /\ h'.count = h.count
      /\ h'.held = h.held
  BY <1>2 DEF ThreadHeapsType
<1>8. QED
  BY <1>4, <1>5, <1>6, <1>7 DEF new_mutex, new_pc, new_p, new_seen, new_at, new_op

LEMMA EnterShape ==
  ASSUME ThreadHeapsType, NEW t \in Workers, EnterAgain(t)
  PROVE  /\ ThreadHeapsType'
         /\ SameSelf /\ SameData /\ SameHand
         /\ h'.mutex = h.mutex /\ h'.tid = h.tid /\ h'.held = h.held
         /\ h'.count = [h.count EXCEPT ![h.at[t]] = h.count[h.at[t]] + 1]
         /\ h'.pc = [h.pc EXCEPT ![t] = "in"]
<1> DEFINE new_count == [h.count EXCEPT ![h.at[t]] = h.count[h.at[t]] + 1]
           new_pc == [h.pc EXCEPT ![t] = "in"]
<1>1. h.at[t] \in PerThread /\ h.count[h.at[t]] \in Nat
  BY DEF ThreadHeapsType
<1>2. h' = [[h EXCEPT !.count = new_count] EXCEPT !.pc = new_pc]
  BY <1>1 DEF EnterAgain, ThreadHeapsType
<1>3. /\ new_count \in [PerThread -> Nat]
      /\ new_pc \in [Workers -> Stages]
  BY <1>1, SharedFacts DEF ThreadHeapsType, Stages
<1> HIDE DEF new_count, new_pc
<1>4. ThreadHeapsType'
  BY <1>2, <1>3 DEF ThreadHeapsType
<1>5. /\ h'.count = new_count
      /\ h'.pc = new_pc
  BY <1>2 DEF ThreadHeapsType
<1>6. SameSelf /\ SameData /\ SameHand
  BY <1>2 DEF ThreadHeapsType, SameSelf, SameData, SameHand
<1>7. /\ h'.mutex = h.mutex
      /\ h'.tid = h.tid
      /\ h'.held = h.held
  BY <1>2 DEF ThreadHeapsType
<1>8. QED
  BY <1>4, <1>5, <1>6, <1>7 DEF new_count, new_pc

LEMMA LockRecursive ==
  ASSUME ThreadHeapsType, NEW t \in Workers, lock(t), Acquires(t), h.recursive
  PROVE  /\ ThreadHeapsType'
         /\ SameSelf /\ SameData /\ SameHand
         /\ h'.held = h.held
         /\ h'.mutex = [h.mutex EXCEPT ![h.at[t]] = 1]
         /\ h'.pc = [h.pc EXCEPT ![t] = "in"]
         /\ h'.tid = [h.tid EXCEPT ![h.at[t]] = CPUThreadId(t)]
         /\ h'.count = [h.count EXCEPT ![h.at[t]] = h.count[h.at[t]] + 1]
<1> DEFINE new_mutex == [h.mutex EXCEPT ![h.at[t]] = 1]
           new_pc == [h.pc EXCEPT ![t] = "in"]
           new_tid == [h.tid EXCEPT ![h.at[t]] = CPUThreadId(t)]
           new_count == [h.count EXCEPT ![h.at[t]] = h.count[h.at[t]] + 1]
<1>1. h.at[t] \in PerThread /\ h.count[h.at[t]] \in Nat /\ CPUThreadId(t) \in Int
  BY ThreadNumbers DEF ThreadHeapsType
<1>2. h' = [[[[h EXCEPT !.mutex = new_mutex] EXCEPT !.pc = new_pc] EXCEPT !.tid = new_tid] EXCEPT !.count = new_count]
  BY <1>1 DEF lock, ThreadHeapsType
<1>3. /\ new_mutex \in [PerThread -> {0, 1}]
      /\ new_pc \in [Workers -> Stages]
      /\ new_tid \in [PerThread -> Int]
      /\ new_count \in [PerThread -> Nat]
  BY <1>1, SharedFacts DEF ThreadHeapsType, Stages
<1> HIDE DEF new_mutex, new_pc, new_tid, new_count
<1>4. ThreadHeapsType'
  BY <1>2, <1>3 DEF ThreadHeapsType
<1>5. /\ h'.mutex = new_mutex
      /\ h'.pc = new_pc
      /\ h'.tid = new_tid
      /\ h'.count = new_count
  BY <1>2 DEF ThreadHeapsType
<1>6. SameSelf /\ SameData /\ SameHand
  BY <1>2 DEF ThreadHeapsType, SameSelf, SameData, SameHand
<1>7. /\ h'.held = h.held
  BY <1>2 DEF ThreadHeapsType
<1>8. QED
  BY <1>4, <1>5, <1>6, <1>7 DEF new_mutex, new_pc, new_tid, new_count

LEMMA LockPlain ==
  ASSUME ThreadHeapsType, NEW t \in Workers, lock(t), Acquires(t), ~h.recursive
  PROVE  /\ ThreadHeapsType'
         /\ SameSelf /\ SameData /\ SameHand
         /\ h'.held = h.held
         /\ h'.mutex = [h.mutex EXCEPT ![h.at[t]] = 1]
         /\ h'.pc = [h.pc EXCEPT ![t] = "in"]
         /\ h'.tid = [h.tid EXCEPT ![h.at[t]] = h.tid[h.at[t]]]
         /\ h'.count = [h.count EXCEPT ![h.at[t]] = h.count[h.at[t]]]
<1> DEFINE new_mutex == [h.mutex EXCEPT ![h.at[t]] = 1]
           new_pc == [h.pc EXCEPT ![t] = "in"]
           new_tid == [h.tid EXCEPT ![h.at[t]] = h.tid[h.at[t]]]
           new_count == [h.count EXCEPT ![h.at[t]] = h.count[h.at[t]]]
<1>1. h.at[t] \in PerThread /\ h.count[h.at[t]] \in Nat /\ CPUThreadId(t) \in Int /\ h.tid[h.at[t]] \in Int
  BY ThreadNumbers DEF ThreadHeapsType
<1>2. h' = [[[[h EXCEPT !.mutex = new_mutex] EXCEPT !.pc = new_pc] EXCEPT !.tid = new_tid] EXCEPT !.count = new_count]
  BY <1>1 DEF lock, ThreadHeapsType
<1>3. /\ new_mutex \in [PerThread -> {0, 1}]
      /\ new_pc \in [Workers -> Stages]
      /\ new_tid \in [PerThread -> Int]
      /\ new_count \in [PerThread -> Nat]
  BY <1>1, SharedFacts DEF ThreadHeapsType, Stages
<1> HIDE DEF new_mutex, new_pc, new_tid, new_count
<1>4. ThreadHeapsType'
  BY <1>2, <1>3 DEF ThreadHeapsType
<1>5. /\ h'.mutex = new_mutex
      /\ h'.pc = new_pc
      /\ h'.tid = new_tid
      /\ h'.count = new_count
  BY <1>2 DEF ThreadHeapsType
<1>6. SameSelf /\ SameData /\ SameHand
  BY <1>2 DEF ThreadHeapsType, SameSelf, SameData, SameHand
<1>7. /\ h'.held = h.held
  BY <1>2 DEF ThreadHeapsType
<1>8. QED
  BY <1>4, <1>5, <1>6, <1>7 DEF new_mutex, new_pc, new_tid, new_count

LEMMA LockSpins ==
  ASSUME ThreadHeapsType, NEW t \in Workers, lock(t), ~Acquires(t)
  PROVE  /\ ThreadHeapsType'
         /\ SameSelf /\ SameData /\ SameHand
         /\ h'.tid = h.tid /\ h'.count = h.count /\ h'.held = h.held
         /\ h'.mutex = [h.mutex EXCEPT ![h.at[t]] = 1]
         /\ h'.pc = [h.pc EXCEPT ![t] = "spin"]
<1> DEFINE new_mutex == [h.mutex EXCEPT ![h.at[t]] = 1]
           new_pc == [h.pc EXCEPT ![t] = "spin"]
<1>1. h.at[t] \in PerThread
  BY DEF ThreadHeapsType
<1>2. h' = [[h EXCEPT !.mutex = new_mutex] EXCEPT !.pc = new_pc]
  BY <1>1 DEF lock, ThreadHeapsType
<1>3. /\ new_mutex \in [PerThread -> {0, 1}]
      /\ new_pc \in [Workers -> Stages]
  BY <1>1, SharedFacts DEF ThreadHeapsType, Stages
<1> HIDE DEF new_mutex, new_pc
<1>4. ThreadHeapsType'
  BY <1>2, <1>3 DEF ThreadHeapsType
<1>5. /\ h'.mutex = new_mutex
      /\ h'.pc = new_pc
  BY <1>2 DEF ThreadHeapsType
<1>6. SameSelf /\ SameData /\ SameHand
  BY <1>2 DEF ThreadHeapsType, SameSelf, SameData, SameHand
<1>7. /\ h'.tid = h.tid
      /\ h'.count = h.count
      /\ h'.held = h.held
  BY <1>2 DEF ThreadHeapsType
<1>8. QED
  BY <1>4, <1>5, <1>6, <1>7 DEF new_mutex, new_pc

LEMMA ContendedShape ==
  ASSUME ThreadHeapsType, NEW t \in Workers, contendedLock(t)
  PROVE  /\ ThreadHeapsType'
         /\ SameSelf /\ SameLocks /\ SameData /\ SameHand
         /\ h'.pc = [h.pc EXCEPT ![t] = "lock"]
<1> DEFINE new_pc == [h.pc EXCEPT ![t] = "lock"]
<1>1. t \in Workers
  OBVIOUS
<1>2. h' = [h EXCEPT !.pc = new_pc]
  BY <1>1 DEF contendedLock, ThreadHeapsType
<1>3. /\ new_pc \in [Workers -> Stages]
  BY <1>1, SharedFacts DEF ThreadHeapsType, Stages
<1> HIDE DEF new_pc
<1>4. ThreadHeapsType'
  BY <1>2, <1>3 DEF ThreadHeapsType
<1>5. /\ h'.pc = new_pc
  BY <1>2 DEF ThreadHeapsType
<1>6. SameSelf /\ SameLocks /\ SameData /\ SameHand
  BY <1>2 DEF ThreadHeapsType, SameSelf, SameLocks, SameData, SameHand
<1>7. QED
  BY <1>4, <1>5, <1>6 DEF new_pc

LEMMA HoldShape ==
  ASSUME ThreadHeapsType, NEW t \in Workers, HoldTaken(t)
  PROVE  /\ ThreadHeapsType'
         /\ SameSelf /\ SameData
         /\ h'.mutex = h.mutex /\ h'.tid = h.tid /\ h'.count = h.count
         /\ h'.op = h.op /\ h'.p = h.p /\ h'.seen = h.seen
         /\ h'.pc = [h.pc EXCEPT ![t] = "idle"]
         /\ h'.held = [h.held EXCEPT ![t] = h.held[t] + 1]
         /\ h'.at = [h.at EXCEPT ![t] = 0]
<1> DEFINE new_pc == [h.pc EXCEPT ![t] = "idle"]
           new_held == [h.held EXCEPT ![t] = h.held[t] + 1]
           new_at == [h.at EXCEPT ![t] = 0]
<1>1. h.held[t] \in Nat
  BY DEF ThreadHeapsType
<1>2. h' = [[[h EXCEPT !.pc = new_pc] EXCEPT !.held = new_held] EXCEPT !.at = new_at]
  BY <1>1 DEF HoldTaken, ThreadHeapsType
<1>3. /\ new_pc \in [Workers -> Stages]
      /\ new_held \in [Workers -> Nat]
      /\ new_at \in [Workers -> PerThread]
  BY <1>1, SharedFacts DEF ThreadHeapsType, Stages
<1> HIDE DEF new_pc, new_held, new_at
<1>4. ThreadHeapsType'
  BY <1>2, <1>3 DEF ThreadHeapsType
<1>5. /\ h'.pc = new_pc
      /\ h'.held = new_held
      /\ h'.at = new_at
  BY <1>2 DEF ThreadHeapsType
<1>6. SameSelf /\ SameData
  BY <1>2 DEF ThreadHeapsType, SameSelf, SameData
<1>7. /\ h'.mutex = h.mutex
      /\ h'.tid = h.tid
      /\ h'.count = h.count
      /\ h'.op = h.op
      /\ h'.p = h.p
      /\ h'.seen = h.seen
  BY <1>2 DEF ThreadHeapsType
<1>8. QED
  BY <1>4, <1>5, <1>6, <1>7 DEF new_pc, new_held, new_at

LEMMA ReadShape ==
  ASSUME ThreadHeapsType, NEW t \in Workers, ReadHead(t)
  PROVE  /\ ThreadHeapsType'
         /\ SameSelf /\ SameLocks /\ SameData
         /\ h'.at = h.at /\ h'.op = h.op /\ h'.p = h.p
         /\ h'.seen = [h.seen EXCEPT ![t] = h.head[h.at[t]]]
         /\ h'.pc = [h.pc EXCEPT ![t] = "write"]
<1> DEFINE new_seen == [h.seen EXCEPT ![t] = h.head[h.at[t]]]
           new_pc == [h.pc EXCEPT ![t] = "write"]
<1>1. h.at[t] \in PerThread /\ h.head[h.at[t]] \in Shared \cup {None}
  BY DEF ThreadHeapsType
<1>2. h' = [[h EXCEPT !.seen = new_seen] EXCEPT !.pc = new_pc]
  BY <1>1 DEF ReadHead, ThreadHeapsType
<1>3. /\ new_seen \in [Workers -> Shared \cup {None}]
      /\ new_pc \in [Workers -> Stages]
  BY <1>1, SharedFacts DEF ThreadHeapsType, Stages
<1> HIDE DEF new_seen, new_pc
<1>4. ThreadHeapsType'
  BY <1>2, <1>3 DEF ThreadHeapsType
<1>5. /\ h'.seen = new_seen
      /\ h'.pc = new_pc
  BY <1>2 DEF ThreadHeapsType
<1>6. SameSelf /\ SameLocks /\ SameData
  BY <1>2 DEF ThreadHeapsType, SameSelf, SameLocks, SameData
<1>7. /\ h'.at = h.at
      /\ h'.op = h.op
      /\ h'.p = h.p
  BY <1>2 DEF ThreadHeapsType
<1>8. QED
  BY <1>4, <1>5, <1>6, <1>7 DEF new_seen, new_pc

LEMMA PopShape ==
  ASSUME ThreadHeapsType, NEW t \in Workers, TakeHead(t), h.seen[t] # None
  PROVE  /\ ThreadHeapsType'
         /\ SameSelf /\ SameLocks
         /\ h'.super = h.super /\ h'.at = h.at /\ h'.op = h.op
         /\ h'.seen = h.seen
         /\ h'.head = [h.head EXCEPT ![h.at[t]] = h.next[h.seen[t]]]
         /\ h'.next = [h.next EXCEPT ![h.seen[t]] = None]
         /\ h'.p = [h.p EXCEPT ![t] = h.seen[t]]
         /\ h'.owner = [h.owner EXCEPT ![h.seen[t]] = t]
         /\ h'.origin = [h.origin EXCEPT ![h.seen[t]] = HeapNumber(t)]
         /\ h'.pc = [h.pc EXCEPT ![t] = "out"]
<1> DEFINE new_head == [h.head EXCEPT ![h.at[t]] = h.next[h.seen[t]]]
           new_next == [h.next EXCEPT ![h.seen[t]] = None]
           new_p == [h.p EXCEPT ![t] = h.seen[t]]
           new_owner == [h.owner EXCEPT ![h.seen[t]] = t]
           new_origin == [h.origin EXCEPT ![h.seen[t]] = HeapNumber(t)]
           new_pc == [h.pc EXCEPT ![t] = "out"]
<1>1. /\ h.at[t] \in PerThread /\ h.seen[t] \in Shared /\ HeapNumber(t) \in Int
      /\ h.next[h.seen[t]] \in Shared \cup {None}
  BY ThreadNumbers DEF ThreadHeapsType
<1>2. h' = [[[[[[h EXCEPT !.head = new_head] EXCEPT !.next = new_next] EXCEPT !.p = new_p] EXCEPT !.owner = new_owner] EXCEPT !.origin = new_origin] EXCEPT !.pc = new_pc]
  BY <1>1 DEF TakeHead, ThreadHeapsType
<1>3. /\ new_head \in [PerThread -> Shared \cup {None}]
      /\ new_next \in [Shared -> Shared \cup {None}]
      /\ new_p \in [Workers -> Shared \cup {None}]
      /\ new_owner \in [Shared -> Workers \cup {Nobody}]
      /\ new_origin \in [Shared -> Int]
      /\ new_pc \in [Workers -> Stages]
  BY <1>1, SharedFacts DEF ThreadHeapsType, Stages
<1> HIDE DEF new_head, new_next, new_p, new_owner, new_origin, new_pc
<1>4. ThreadHeapsType'
  BY <1>2, <1>3 DEF ThreadHeapsType
<1>5. /\ h'.head = new_head
      /\ h'.next = new_next
      /\ h'.p = new_p
      /\ h'.owner = new_owner
      /\ h'.origin = new_origin
      /\ h'.pc = new_pc
  BY <1>2 DEF ThreadHeapsType
<1>6. SameSelf /\ SameLocks
  BY <1>2 DEF ThreadHeapsType, SameSelf, SameLocks
<1>7. /\ h'.super = h.super
      /\ h'.at = h.at
      /\ h'.op = h.op
      /\ h'.seen = h.seen
  BY <1>2 DEF ThreadHeapsType
<1>8. QED
  BY <1>4, <1>5, <1>6, <1>7 DEF new_head, new_next, new_p, new_owner, new_origin, new_pc

LEMMA BelowShape ==
  ASSUME ThreadHeapsType, NEW t \in Workers, TakeHead(t), h.seen[t] = None, h.super # {}
  PROVE  /\ ThreadHeapsType'
         /\ SameSelf /\ SameLocks
         /\ h'.head = h.head /\ h'.next = h.next /\ h'.at = h.at
         /\ h'.op = h.op /\ h'.seen = h.seen
         /\ h'.super = h.super \ {Min(h.super)}
         /\ h'.p = [h.p EXCEPT ![t] = Min(h.super)]
         /\ h'.owner = [h.owner EXCEPT ![Min(h.super)] = t]
         /\ h'.origin = [h.origin EXCEPT ![Min(h.super)] = HeapNumber(t)]
         /\ h'.pc = [h.pc EXCEPT ![t] = "out"]
<1> DEFINE new_super == h.super \ {Min(h.super)}
           new_p == [h.p EXCEPT ![t] = Min(h.super)]
           new_owner == [h.owner EXCEPT ![Min(h.super)] = t]
           new_origin == [h.origin EXCEPT ![Min(h.super)] = HeapNumber(t)]
           new_pc == [h.pc EXCEPT ![t] = "out"]
<1>1. Min(h.super) \in Shared /\ Min(h.super) \in h.super /\ HeapNumber(t) \in Int
  BY MinIn, SharedFacts, ThreadNumbers DEF ThreadHeapsType
<1>2. h' = [[[[[h EXCEPT !.super = new_super] EXCEPT !.p = new_p] EXCEPT !.owner = new_owner] EXCEPT !.origin = new_origin] EXCEPT !.pc = new_pc]
  BY <1>1 DEF TakeHead, ThreadHeapsType
<1>3. /\ new_super \in SUBSET Shared
      /\ new_p \in [Workers -> Shared \cup {None}]
      /\ new_owner \in [Shared -> Workers \cup {Nobody}]
      /\ new_origin \in [Shared -> Int]
      /\ new_pc \in [Workers -> Stages]
  BY <1>1, SharedFacts DEF ThreadHeapsType, Stages
<1> HIDE DEF new_super, new_p, new_owner, new_origin, new_pc
<1>4. ThreadHeapsType'
  BY <1>2, <1>3 DEF ThreadHeapsType
<1>5. /\ h'.super = new_super
      /\ h'.p = new_p
      /\ h'.owner = new_owner
      /\ h'.origin = new_origin
      /\ h'.pc = new_pc
  BY <1>2 DEF ThreadHeapsType
<1>6. SameSelf /\ SameLocks
  BY <1>2 DEF ThreadHeapsType, SameSelf, SameLocks
<1>7. /\ h'.head = h.head
      /\ h'.next = h.next
      /\ h'.at = h.at
      /\ h'.op = h.op
      /\ h'.seen = h.seen
  BY <1>2 DEF ThreadHeapsType
<1>8. QED
  BY <1>4, <1>5, <1>6, <1>7 DEF new_super, new_p, new_owner, new_origin, new_pc

LEMMA NothingShape ==
  ASSUME ThreadHeapsType, NEW t \in Workers, TakeHead(t), h.seen[t] = None, h.super = {}
  PROVE  /\ ThreadHeapsType'
         /\ SameSelf /\ SameLocks /\ SameData /\ SameHand
         /\ h'.pc = [h.pc EXCEPT ![t] = "out"]
<1> DEFINE new_pc == [h.pc EXCEPT ![t] = "out"]
<1>1. t \in Workers
  OBVIOUS
<1>2. h' = [h EXCEPT !.pc = new_pc]
  BY <1>1 DEF TakeHead, ThreadHeapsType
<1>3. /\ new_pc \in [Workers -> Stages]
  BY <1>1, SharedFacts DEF ThreadHeapsType, Stages
<1> HIDE DEF new_pc
<1>4. ThreadHeapsType'
  BY <1>2, <1>3 DEF ThreadHeapsType
<1>5. /\ h'.pc = new_pc
  BY <1>2 DEF ThreadHeapsType
<1>6. SameSelf /\ SameLocks /\ SameData /\ SameHand
  BY <1>2 DEF ThreadHeapsType, SameSelf, SameLocks, SameData, SameHand
<1>7. QED
  BY <1>4, <1>5, <1>6 DEF new_pc

LEMMA PutShape ==
  ASSUME ThreadHeapsType, NEW t \in Workers, PutHead(t), h.p[t] \in Shared
  PROVE  /\ ThreadHeapsType'
         /\ SameSelf /\ SameLocks /\ SameHand
         /\ h'.origin = h.origin /\ h'.super = h.super
         /\ h'.next = [h.next EXCEPT ![h.p[t]] = h.seen[t]]
         /\ h'.head = [h.head EXCEPT ![h.at[t]] = h.p[t]]
         /\ h'.owner = [h.owner EXCEPT ![h.p[t]] = Nobody]
         /\ h'.pc = [h.pc EXCEPT ![t] = "out"]
<1> DEFINE new_next == [h.next EXCEPT ![h.p[t]] = h.seen[t]]
           new_head == [h.head EXCEPT ![h.at[t]] = h.p[t]]
           new_owner == [h.owner EXCEPT ![h.p[t]] = Nobody]
           new_pc == [h.pc EXCEPT ![t] = "out"]
<1>1. h.at[t] \in PerThread /\ h.seen[t] \in Shared \cup {None}
  BY DEF ThreadHeapsType
<1>2. h' = [[[[h EXCEPT !.next = new_next] EXCEPT !.head = new_head] EXCEPT !.owner = new_owner] EXCEPT !.pc = new_pc]
  BY <1>1 DEF PutHead, ThreadHeapsType
<1>3. /\ new_next \in [Shared -> Shared \cup {None}]
      /\ new_head \in [PerThread -> Shared \cup {None}]
      /\ new_owner \in [Shared -> Workers \cup {Nobody}]
      /\ new_pc \in [Workers -> Stages]
  BY <1>1, SharedFacts DEF ThreadHeapsType, Stages
<1> HIDE DEF new_next, new_head, new_owner, new_pc
<1>4. ThreadHeapsType'
  BY <1>2, <1>3 DEF ThreadHeapsType
<1>5. /\ h'.next = new_next
      /\ h'.head = new_head
      /\ h'.owner = new_owner
      /\ h'.pc = new_pc
  BY <1>2 DEF ThreadHeapsType
<1>6. SameSelf /\ SameLocks /\ SameHand
  BY <1>2 DEF ThreadHeapsType, SameSelf, SameLocks, SameHand
<1>7. /\ h'.origin = h.origin
      /\ h'.super = h.super
  BY <1>2 DEF ThreadHeapsType
<1>8. QED
  BY <1>4, <1>5, <1>6, <1>7 DEF new_next, new_head, new_owner, new_pc

\* Nothing changes about the locks when nobody enters or leaves.
LEMMA LocksStay ==
  ASSUME ThreadHeapsType, LockInv, SameSelf, SameLocks, NEW t \in Workers, h.created \/ t = 1,
         \A u \in Workers : Inside(u)' = Inside(u) /\ (Inside(u) => h'.at[u] = h.at[u]),
         \A u \in Workers : u # t => h'.pc[u] = h.pc[u],
         \A u \in Workers : h'.op[u] = "hold" => h.op[u] = "hold" \/ h.recursive,
         h.kind = "locked" => \A u \in Workers : h'.at[u] = 0
  PROVE  LockInv'
<1>1. \A u \in Workers, i \in PerThread : Within(u, i)' <=> Within(u, i)
  BY DEF Within, SameLocks
<1>2. \A u \in Workers : CPUThreadId(u)' = CPUThreadId(u)
  BY DEF CPUThreadId, SameSelf
<1>3. 0 \in PerThread
  BY SharedFacts
<1>4. QED
  BY <1>1, <1>2, <1>3 DEF LockInv, SameSelf, SameLocks

\* Only the first thread runs before there are others.
LEMMA RunsAlone ==
  ASSUME ThreadHeapsType, LockInv, NEW t \in Workers,
         h.pc[t] # "idle" \/ h.held[t] > 0 \/ Runs(t)
  PROVE  h.created \/ t = 1
<1>1. h.held[t] \in Nat
  BY DEF ThreadHeapsType
<1>2. QED
  BY <1>1 DEF LockInv, Runs

LEMMA LockKeptCall ==
  ASSUME ThreadHeapsInv, NEW t \in Workers, NEW op \in {"malloc", "free", "hold"},
         NEW i \in PerThread, NEW o \in Shared \cup {None}, Call(t, op, i, o),
         h.kind = "locked" => i = 0, op = "hold" => h.recursive
  PROVE  LockInv'
<1>1. ThreadHeapsType /\ LockInv
  BY DEF ThreadHeapsInv
<1>2. /\ SameSelf /\ SameLocks /\ h'.pc = [h.pc EXCEPT ![t] = "lock"]
      /\ h'.at = [h.at EXCEPT ![t] = i] /\ h'.op = [h.op EXCEPT ![t] = op]
  BY <1>1, CallShape
<1>3. h.pc[t] = "idle" /\ (h.created \/ t = 1)
  BY <1>1, RunsAlone DEF Call
<1>4. /\ \A u \in Workers : Inside(u)' = Inside(u) /\ (Inside(u) => h'.at[u] = h.at[u])
      /\ \A u \in Workers : u # t => h'.pc[u] = h.pc[u]
      /\ \A u \in Workers : h'.op[u] = "hold" => h.op[u] = "hold" \/ h.recursive
      /\ h.kind = "locked" => \A u \in Workers : h'.at[u] = 0
  BY <1>1, <1>2, <1>3 DEF Inside, ThreadHeapsType, LockInv
<1>5. QED
  BY <1>1, <1>2, <1>3, <1>4, LocksStay

\* Whoever gets the lock finds nobody inside.
LEMMA NobodyWithin ==
  ASSUME ThreadHeapsType, LockInv, NEW t \in Workers, lock(t), Acquires(t)
  PROVE  \A u \in Workers : ~Within(u, h.at[t])
<1>1. /\ h.pc[t] = "lock" /\ ~ (h.recursive /\ h.tid[h.at[t]] = CPUThreadId(t))
      /\ h.at[t] \in PerThread
  BY DEF lock, ThreadHeapsType
<1>2. CASE h.mutex[h.at[t]] = 0
  BY <1>1, <1>2 DEF LockInv
<1>3. CASE ~h.created
  <2>1. t = 1 /\ ~Inside(t)
    BY <1>1, <1>3, RunsAlone DEF Inside
  <2>2. ~ (h.held[t] > 0)
    <3> SUFFICES ASSUME h.held[t] > 0 PROVE FALSE
      OBVIOUS
    <3>1. h.recursive /\ h.at[t] = 0 /\ Within(t, 0)
      BY DEF LockInv, Within
    <3>2. h.tid[0] = CPUThreadId(t)
      BY <3>1 DEF LockInv
    <3>3. QED
      BY <1>1, <3>1, <3>2
  <2>3. \A u \in Workers : u # 1 => h.pc[u] = "idle" /\ h.held[u] = 0
    BY <1>3 DEF LockInv
  <2>4. QED
    BY <2>1, <2>2, <2>3 DEF Within, Inside
<1>4. QED
  BY <1>2, <1>3 DEF Acquires

LEMMA LockKeptEnter ==
  ASSUME ThreadHeapsInv, NEW t \in Workers, lock(t)
  PROVE  LockInv'
<1>1. ThreadHeapsType /\ LockInv
  BY DEF ThreadHeapsInv
<1>2. /\ h.pc[t] = "lock" /\ ~ (h.recursive /\ h.tid[h.at[t]] = CPUThreadId(t))
      /\ h.at[t] \in PerThread /\ h.held[t] \in Nat
  BY <1>1 DEF lock, ThreadHeapsType
<1>3. h.created \/ t = 1
  BY <1>1, <1>2, RunsAlone
<1>4. CASE ~Acquires(t)
  <2>1. /\ SameSelf /\ SameHand /\ h'.tid = h.tid /\ h'.count = h.count /\ h'.held = h.held
        /\ h'.mutex = [h.mutex EXCEPT ![h.at[t]] = 1] /\ h'.pc = [h.pc EXCEPT ![t] = "spin"]
    BY <1>1, <1>4, LockSpins
  <2>2. h.mutex[h.at[t]] = 1
    BY <1>1, <1>2, <1>4 DEF Acquires, ThreadHeapsType
  <2>3. h'.mutex = h.mutex
    BY <1>1, <1>2, <2>1, <2>2 DEF ThreadHeapsType
  <2>4. /\ \A u \in Workers : Inside(u)' = Inside(u) /\ (Inside(u) => h'.at[u] = h.at[u])
        /\ \A u \in Workers : u # t => h'.pc[u] = h.pc[u]
        /\ \A u \in Workers : h'.op[u] = "hold" => h.op[u] = "hold"
        /\ h.kind = "locked" => \A u \in Workers : h'.at[u] = 0
    BY <1>1, <1>2, <2>1 DEF Inside, ThreadHeapsType, LockInv, SameHand
  <2>5. QED
    BY <1>1, <1>3, <2>1, <2>3, <2>4, LocksStay DEF SameLocks
<1>5. CASE Acquires(t)
  <2> DEFINE i == h.at[t]
  <2>1. /\ SameSelf /\ SameHand /\ h'.held = h.held
        /\ h'.mutex = [h.mutex EXCEPT ![i] = 1] /\ h'.pc = [h.pc EXCEPT ![t] = "in"]
        /\ h.recursive => /\ h'.tid = [h.tid EXCEPT ![i] = CPUThreadId(t)]
                          /\ h'.count = [h.count EXCEPT ![i] = h.count[i] + 1]
    BY <1>1, <1>5, LockRecursive, LockPlain
  <2>2. \A u \in Workers : ~Within(u, i)
    BY <1>1, <1>5, NobodyWithin
  <2>3. \A u \in Workers, j \in PerThread : Within(u, j)' <=> Within(u, j) \/ (u = t /\ j = i)
    BY <1>1, <1>2, <2>1 DEF Within, Inside, SameHand, ThreadHeapsType
  <2>4. \A u \in Workers : CPUThreadId(u)' = CPUThreadId(u)
    BY <2>1 DEF CPUThreadId, SameSelf
  <2>5. \A j \in PerThread, u, v \in Workers : Within(u, j)' /\ Within(v, j)' => u = v
    BY <1>1, <2>2, <2>3 DEF LockInv
  <2>6. \A j \in PerThread : h'.mutex[j] = 1 <=> \E u \in Workers : Within(u, j)'
    <3> SUFFICES ASSUME NEW j \in PerThread
                 PROVE  h'.mutex[j] = 1 <=> \E u \in Workers : Within(u, j)'
      OBVIOUS
    <3>1. CASE j = i
      BY <1>1, <1>2, <2>1, <2>3, <3>1 DEF ThreadHeapsType
    <3>2. CASE j # i
      BY <1>1, <1>2, <2>1, <2>3, <3>2 DEF ThreadHeapsType, LockInv
    <3>3. QED
      BY <3>1, <3>2
  <2>7. h.recursive =>
          /\ \A u \in Workers : Within(u, 0)' =>
               h'.tid[0] = CPUThreadId(u)' /\ h'.count[0] = h'.held[u] + (IF Inside(u)' THEN 1 ELSE 0)
          /\ (\A u \in Workers : ~Within(u, 0)') => h'.tid[0] = Nobody /\ h'.count[0] = 0
    <3> SUFFICES ASSUME h.recursive
                 PROVE  /\ \A u \in Workers : Within(u, 0)' =>
                             /\ h'.tid[0] = CPUThreadId(u)'
                             /\ h'.count[0] = h'.held[u] + (IF Inside(u)' THEN 1 ELSE 0)
                        /\ ~ \A u \in Workers : ~Within(u, 0)'
      OBVIOUS
    <3>1. i = 0
      BY <1>1 DEF LockInv
    <3>2. h.count[0] = 0 /\ h.tid[0] = Nobody
      BY <1>1, <2>2, <3>1 DEF LockInv
    <3>3. h'.tid[0] = CPUThreadId(t) /\ h'.count[0] = 1
      BY <1>1, <1>2, <2>1, <3>1, <3>2 DEF ThreadHeapsType
    <3>4. h'.held[t] = 0
      BY <1>2, <2>1, <2>2, <3>1 DEF Within
    <3>5. Inside(t)'
      BY <1>1, <2>1 DEF Inside, ThreadHeapsType
    <3>6. \A u \in Workers : Within(u, 0)' <=> u = t
      BY <1>2, <2>2, <2>3, <3>1
    <3>7. QED
      BY <2>4, <3>3, <3>4, <3>5, <3>6
  <2>8. ~h.created => \A u \in Workers : u # 1 => h'.pc[u] = "idle" /\ h'.held[u] = 0
    BY <1>1, <1>3, <2>1 DEF LockInv, ThreadHeapsType
  <2>9. QED
    BY <1>1, <2>1, <2>5, <2>6, <2>7, <2>8 DEF LockInv, SameSelf, SameHand
<1>6. QED
  BY <1>4, <1>5

LEMMA LockKeptAgain ==
  ASSUME ThreadHeapsInv, NEW t \in Workers, EnterAgain(t)
  PROVE  LockInv'
<1>1. ThreadHeapsType /\ LockInv
  BY DEF ThreadHeapsInv
<1>2. /\ h.pc[t] = "lock" /\ h.recursive /\ h.tid[h.at[t]] = CPUThreadId(t)
      /\ h.held[t] \in Nat /\ h.count[0] \in Nat
  BY <1>1, SharedFacts DEF EnterAgain, ThreadHeapsType
<1>3. /\ SameSelf /\ SameHand /\ h'.mutex = h.mutex /\ h'.tid = h.tid /\ h'.held = h.held
      /\ h'.count = [h.count EXCEPT ![h.at[t]] = h.count[h.at[t]] + 1]
      /\ h'.pc = [h.pc EXCEPT ![t] = "in"]
  BY <1>1, EnterShape
<1>4. h.at[t] = 0 /\ h.kind = "locked"
  BY <1>1, <1>2 DEF LockInv
<1>5. Within(t, 0) /\ ~Inside(t)
  <2>1. h.tid[0] # Nobody
    BY <1>1, <1>2, <1>4, ThreadNumbers
  <2>2. PICK u \in Workers : Within(u, 0)
    BY <1>1, <1>2, <2>1 DEF LockInv
  <2>3. h.tid[0] = CPUThreadId(u)
    BY <1>1, <1>2, <2>2 DEF LockInv
  <2>4. u = t
    BY <1>1, <1>2, <1>4, <2>3, ThreadNumbers
  <2>5. QED
    BY <1>2, <2>2, <2>4 DEF Inside
<1>6. h.held[t] > 0 /\ h.count[0] = h.held[t]
  BY <1>1, <1>2, <1>5 DEF LockInv, Within
<1>7. \A u \in Workers, j \in PerThread : Within(u, j)' <=> Within(u, j)
  BY <1>1, <1>2, <1>3, <1>4, <1>6 DEF Within, Inside, SameHand, ThreadHeapsType
<1>8. \A u \in Workers : CPUThreadId(u)' = CPUThreadId(u)
  BY <1>3 DEF CPUThreadId, SameSelf
<1>9. \A u \in Workers : Within(u, 0)' =>
        h'.tid[0] = CPUThreadId(u)' /\ h'.count[0] = h'.held[u] + (IF Inside(u)' THEN 1 ELSE 0)
  <2> SUFFICES ASSUME NEW u \in Workers, Within(u, 0)'
               PROVE  h'.tid[0] = CPUThreadId(u)' /\ h'.count[0] = h'.held[u] + (IF Inside(u)' THEN 1 ELSE 0)
    OBVIOUS
  <2>1. u = t
    BY <1>1, <1>5, <1>7, SharedFacts DEF LockInv
  <2>2. h'.count[0] = h.held[t] + 1 /\ Inside(t)'
    BY <1>1, <1>3, <1>4, <1>6, SharedFacts DEF ThreadHeapsType, Inside
  <2>3. QED
    BY <1>2, <1>3, <1>4, <1>8, <2>1, <2>2
<1>10. h.created \/ t = 1
  BY <1>1, <1>2, RunsAlone
<1>11. ~h.created => \A u \in Workers : u # 1 => h'.pc[u] = "idle" /\ h'.held[u] = 0
  BY <1>1, <1>3, <1>10 DEF LockInv, ThreadHeapsType
<1>12. Within(t, 0)'
  BY <1>5, <1>7, SharedFacts
<1>13. QED
  BY <1>1, <1>3, <1>7, <1>9, <1>11, <1>12 DEF LockInv, SameSelf, SameHand

\* A thread that was inside a heap and is inside none now has released it.
LEMMA LeftHeap ==
  ASSUME ThreadHeapsType, LockInv, SameSelf, NEW t \in Workers, NEW i \in PerThread,
         Within(t, i), \A j \in PerThread : Within(t, j) => j = i,
         \A u \in Workers, j \in PerThread : Within(u, j)' <=> Within(u, j) /\ u # t,
         h'.mutex = [h.mutex EXCEPT ![i] = 0],
         h.recursive => i = 0 /\ h'.tid[0] = Nobody /\ h'.count[0] = 0,
         \A u \in Workers : u # t => h'.pc[u] = h.pc[u] /\ h'.held[u] = h.held[u],
         h.created \/ t = 1,
         \A u \in Workers : h'.held[u] > 0 \/ h'.op[u] = "hold" => h.recursive,
         h.kind = "locked" => \A u \in Workers : h'.at[u] = 0
  PROVE  LockInv'
<1>1. \A u \in Workers : Within(u, i) => u = t
  BY DEF LockInv
<1>2. \A j \in PerThread, u, v \in Workers : Within(u, j)' /\ Within(v, j)' => u = v
  BY DEF LockInv
<1>3. \A j \in PerThread : h'.mutex[j] = 1 <=> \E u \in Workers : Within(u, j)'
  <2> SUFFICES ASSUME NEW j \in PerThread
               PROVE  h'.mutex[j] = 1 <=> \E u \in Workers : Within(u, j)'
    OBVIOUS
  <2>1. CASE j = i
    BY <1>1, <2>1 DEF ThreadHeapsType
  <2>2. CASE j # i
    BY <2>2 DEF ThreadHeapsType, LockInv
  <2>3. QED
    BY <2>1, <2>2
<1>4. h.recursive => \A u \in Workers : ~Within(u, 0)'
  BY <1>1
<1>5. ~h.created => \A u \in Workers : u # 1 => h'.pc[u] = "idle" /\ h'.held[u] = 0
  BY DEF LockInv
<1>6. QED
  BY <1>2, <1>3, <1>4, <1>5 DEF LockInv, SameSelf

\* The recursive lock counts down while its owner stays inside.
LEMMA StaysWithin ==
  ASSUME ThreadHeapsType, ThreadHeapsType', LockInv, SameSelf, NEW t \in Workers, Within(t, 0),
         h.recursive, h'.mutex = h.mutex, h'.tid = h.tid,
         h'.count[0] = h.count[0] - 1,
         h'.held[t] + (IF Inside(t)' THEN 1 ELSE 0) = h.held[t] + (IF Inside(t) THEN 1 ELSE 0) - 1,
         \A u \in Workers, j \in PerThread : Within(u, j)' <=> Within(u, j),
         \A u \in Workers : u # t => h'.pc[u] = h.pc[u] /\ h'.held[u] = h.held[u],
         h.created \/ t = 1, \A u \in Workers : h'.at[u] = 0
  PROVE  LockInv'
<1>1. \A u \in Workers : CPUThreadId(u)' = CPUThreadId(u)
  BY DEF CPUThreadId, SameSelf
<1>2. \A u \in Workers : Within(u, 0)' <=> u = t
  BY SharedFacts DEF LockInv
<1>3. h'.tid[0] = CPUThreadId(t)' /\ h'.count[0] = h'.held[t] + (IF Inside(t)' THEN 1 ELSE 0)
  <2>1. h.tid[0] = CPUThreadId(t) /\ h.count[0] = h.held[t] + (IF Inside(t) THEN 1 ELSE 0)
    BY DEF LockInv
  <2>2. h'.count[0] = h'.held[t] + (IF Inside(t)' THEN 1 ELSE 0)
    <3> DEFINE b == IF Inside(t) THEN 1 ELSE 0
               c == IF Inside(t)' THEN 1 ELSE 0
    <3>1. h.count[0] = h.held[t] + b /\ h'.held[t] + c = h.held[t] + b - 1
      BY <2>1
    <3>2. h.count[0] \in Nat /\ h.held[t] \in Nat /\ h'.held[t] \in Nat /\ b \in Int /\ c \in Int
      BY SharedFacts DEF ThreadHeapsType
    <3> HIDE DEF b, c
    <3>3. h'.count[0] = h'.held[t] + c
      BY <3>1, <3>2
    <3>4. QED
      BY <3>3 DEF c
  <2>3. h'.tid[0] = CPUThreadId(t)'
    BY <1>1, <2>1
  <2>4. QED
    BY <2>2, <2>3
<1>4. ~h.created => \A u \in Workers : u # 1 => h'.pc[u] = "idle" /\ h'.held[u] = 0
  BY DEF LockInv
<1>5. QED
  BY <1>2, <1>3, <1>4 DEF LockInv, SameSelf

LEMMA LockKeptLeave ==
  ASSUME ThreadHeapsInv, NEW t \in Workers, Leave(t)
  PROVE  LockInv'
<1> DEFINE i == h.at[t]
<1>1. ThreadHeapsType /\ LockInv
  BY DEF ThreadHeapsInv
<1>2. h.pc[t] = "out" /\ i \in PerThread /\ Inside(t) /\ Within(t, i) /\ h.held[t] \in Nat
  BY <1>1 DEF Leave, ThreadHeapsType, Inside, Within
<1>3. h.created \/ t = 1
  BY <1>1, <1>2, RunsAlone
<1>4. /\ SameSelf /\ h'.held = h.held /\ h'.pc = [h.pc EXCEPT ![t] = "idle"]
      /\ h'.at = [h.at EXCEPT ![t] = 0] /\ h'.op = [h.op EXCEPT ![t] = "malloc"]
  BY <1>1, LeavePlain, LeaveCounts, LeaveReleases
<1>5. /\ \A u \in Workers : u # t => h'.pc[u] = h.pc[u] /\ h'.held[u] = h.held[u]
      /\ \A u \in Workers : h'.held[u] > 0 \/ h'.op[u] = "hold" => h.recursive
      /\ h.kind = "locked" => \A u \in Workers : h'.at[u] = 0
  BY <1>1, <1>4 DEF ThreadHeapsType, LockInv
<1>6. /\ \A u \in Workers : u # t => (Inside(u)' <=> Inside(u)) /\ h'.at[u] = h.at[u]
      /\ ~Inside(t)'
  BY <1>1, <1>4 DEF ThreadHeapsType, Inside
<1>7. h.recursive => i = 0 /\ h.count[0] = h.held[t] + 1
  BY <1>1, <1>2 DEF LockInv
<1>8. CASE h.held[t] = 0
  <2>1. \A u \in Workers, j \in PerThread : Within(u, j)' <=> Within(u, j) /\ u # t
    BY <1>4, <1>6, <1>8 DEF Within
  <2>2. \A j \in PerThread : Within(t, j) => j = i
    BY <1>8 DEF Within
  <2>3. CASE h.recursive
    <3>0. h.count[h.at[t]] = 1 /\ ~ (h.count[h.at[t]] > 1)
      BY <1>7, <1>8, <2>3
    <3>1. /\ h'.mutex = [h.mutex EXCEPT ![i] = 0] /\ h'.tid = [h.tid EXCEPT ![i] = Nobody]
          /\ h'.count = [h.count EXCEPT ![i] = 0]
      BY <1>1, <2>3, <3>0, LeaveReleases
    <3>2. h'.tid[0] = Nobody /\ h'.count[0] = 0
      BY <1>1, <1>2, <1>7, <2>3, <3>1 DEF ThreadHeapsType
    <3>3. QED
      BY <1>1, <1>2, <1>3, <1>4, <1>5, <1>7, <2>1, <2>2, <2>3, <3>1, <3>2, LeftHeap
  <2>4. CASE ~h.recursive
    <3>1. h'.mutex = [h.mutex EXCEPT ![i] = 0]
      BY <1>1, <2>4, LeavePlain
    <3>2. QED
      BY <1>1, <1>2, <1>3, <1>4, <1>5, <2>1, <2>2, <2>4, <3>1, LeftHeap
  <2>5. QED
    BY <2>3, <2>4
<1>9. CASE h.held[t] > 0
  <2>1. h.recursive /\ h.count[i] > 1 /\ i = 0 /\ h.kind = "locked"
    BY <1>1, <1>2, <1>7, <1>9 DEF LockInv
  <2>2. /\ h'.count = [h.count EXCEPT ![i] = h.count[i] - 1]
        /\ h'.mutex = h.mutex /\ h'.tid = h.tid /\ ThreadHeapsType'
    BY <1>1, <2>1, LeaveCounts
  <2>3. h'.count[0] = h.count[0] - 1
    BY <1>1, <1>2, <2>1, <2>2 DEF ThreadHeapsType
  <2>4. \A u \in Workers, j \in PerThread : Within(u, j)' <=> Within(u, j)
    BY <1>4, <1>6, <1>9, <2>1 DEF Within
  <2>5. Within(t, 0)
    BY <1>2, <2>1
  <2>6. h'.held[t] + (IF Inside(t)' THEN 1 ELSE 0) = h.held[t] + (IF Inside(t) THEN 1 ELSE 0) - 1
    BY <1>2, <1>4, <1>6
  <2>7. QED
    BY <1>1, <1>3, <1>4, <1>5, <2>1, <2>2, <2>3, <2>4, <2>5, <2>6, StaysWithin
<1>10. QED
  BY <1>2, <1>8, <1>9

LEMMA LockKeptLetGo ==
  ASSUME ThreadHeapsInv, NEW t \in Workers, LetGo(t)
  PROVE  LockInv'
<1>1. ThreadHeapsType /\ LockInv
  BY DEF ThreadHeapsInv
<1>2. h.pc[t] = "idle" /\ h.held[t] \in Nat /\ h.held[t] > 0 /\ ~Inside(t) /\ Within(t, 0) /\ 0 \in PerThread
  BY <1>1, SharedFacts DEF LetGo, ThreadHeapsType, Inside, Within
<1>3. h.recursive /\ h.kind = "locked" /\ h.count[0] = h.held[t] /\ (h.created \/ t = 1)
  BY <1>1, <1>2, RunsAlone DEF LockInv
<1>4. SameSelf /\ h'.pc = h.pc /\ SameHand /\ h'.held = [h.held EXCEPT ![t] = h.held[t] - 1]
  BY <1>1, <1>3, LetGoCounts, LetGoReleases
<1>5. /\ \A u \in Workers : u # t => h'.pc[u] = h.pc[u] /\ h'.held[u] = h.held[u]
      /\ \A u \in Workers : h'.at[u] = 0
      /\ \A u \in Workers : (Inside(u)' <=> Inside(u)) /\ h'.at[u] = h.at[u]
      /\ h'.held[t] = h.held[t] - 1
  BY <1>1, <1>3, <1>4 DEF ThreadHeapsType, LockInv, Inside, SameHand
<1>6. CASE h.held[t] = 1
  <2>0. ~ (h.count[0] > 1)
    BY <1>3, <1>6
  <2>1. /\ h'.mutex = [h.mutex EXCEPT ![0] = 0] /\ h'.tid = [h.tid EXCEPT ![0] = Nobody]
        /\ h'.count = [h.count EXCEPT ![0] = 0]
    BY <1>1, <1>3, <2>0, LetGoReleases
  <2>2. h'.tid[0] = Nobody /\ h'.count[0] = 0
    BY <1>1, <1>2, <2>1 DEF ThreadHeapsType
  <2>3. \A u \in Workers, j \in PerThread : Within(u, j)' <=> Within(u, j) /\ u # t
    BY <1>2, <1>5, <1>6 DEF Within
  <2>4. \A j \in PerThread : Within(t, j) => j = 0
    BY <1>2 DEF Within
  <2>5. QED
    BY <1>1, <1>2, <1>3, <1>4, <1>5, <2>1, <2>2, <2>3, <2>4, LeftHeap
<1>7. CASE h.held[t] > 1
  <2>1. /\ h'.mutex = h.mutex /\ h'.tid = h.tid
        /\ h'.count = [h.count EXCEPT ![0] = h.count[0] - 1] /\ ThreadHeapsType'
    BY <1>1, <1>3, <1>7, LetGoCounts
  <2>2. h'.count[0] = h.count[0] - 1
    BY <1>1, <1>2, <2>1 DEF ThreadHeapsType
  <2>3. \A u \in Workers, j \in PerThread : Within(u, j)' <=> Within(u, j)
    BY <1>2, <1>5, <1>7 DEF Within
  <2>4. h'.held[t] + (IF Inside(t)' THEN 1 ELSE 0) = h.held[t] + (IF Inside(t) THEN 1 ELSE 0) - 1
    BY <1>2, <1>5
  <2>5. QED
    BY <1>1, <1>2, <1>3, <1>4, <1>5, <2>1, <2>2, <2>3, <2>4, StaysWithin
<1>8. QED
  BY <1>2, <1>6, <1>7

LEMMA LockKeptHold ==
  ASSUME ThreadHeapsInv, NEW t \in Workers, HoldTaken(t)
  PROVE  LockInv'
<1>1. ThreadHeapsType /\ LockInv
  BY DEF ThreadHeapsInv
<1>2. h.pc[t] = "in" /\ h.op[t] = "hold" /\ h.held[t] \in Nat /\ Inside(t)
  BY <1>1 DEF HoldTaken, ThreadHeapsType, Inside
<1>3. h.recursive /\ h.kind = "locked" /\ h.at[t] = 0 /\ Within(t, 0) /\ (h.created \/ t = 1)
  BY <1>1, <1>2, RunsAlone DEF LockInv, Within
<1>4. /\ SameSelf /\ h'.mutex = h.mutex /\ h'.tid = h.tid /\ h'.count = h.count
      /\ h'.held = [h.held EXCEPT ![t] = h.held[t] + 1] /\ h'.pc = [h.pc EXCEPT ![t] = "idle"]
      /\ h'.at = [h.at EXCEPT ![t] = 0] /\ h'.op = h.op
  BY <1>1, HoldShape
<1>5. /\ \A u \in Workers : u # t => h'.pc[u] = h.pc[u] /\ h'.held[u] = h.held[u] /\ (Inside(u)' <=> Inside(u))
      /\ \A u \in Workers : h'.at[u] = 0 /\ h.at[u] = 0
      /\ h'.held[t] = h.held[t] + 1 /\ ~Inside(t)'
  BY <1>1, <1>3, <1>4 DEF ThreadHeapsType, LockInv, Inside
<1>6. \A u \in Workers, j \in PerThread : Within(u, j)' <=> Within(u, j)
  BY <1>2, <1>5 DEF Within
<1>7. \A u \in Workers : Within(u, 0)' <=> u = t
  BY <1>1, <1>3, <1>6, SharedFacts DEF LockInv
<1>8. h.tid[0] = CPUThreadId(t) /\ h.count[0] = h.held[t] + 1
  BY <1>1, <1>2, <1>3 DEF LockInv
<1>9. h'.tid[0] = CPUThreadId(t)' /\ h'.count[0] = h'.held[t] + (IF Inside(t)' THEN 1 ELSE 0)
  <2>1. CPUThreadId(t)' = CPUThreadId(t)
    BY <1>4 DEF CPUThreadId, SameSelf
  <2>2. QED
    BY <1>2, <1>4, <1>5, <1>8, <2>1
<1>10. ~h.created => \A u \in Workers : u # 1 => h'.pc[u] = "idle" /\ h'.held[u] = 0
  BY <1>1, <1>3, <1>5 DEF LockInv
<1>11. QED
  BY <1>1, <1>3, <1>4, <1>5, <1>6, <1>7, <1>9, <1>10 DEF LockInv, SameSelf

\* No object moves.
LEMMA DataStays ==
  ASSUME DataInv, h'.kind = h.kind, SameData
  PROVE  DataInv'
<1>1. PICK n, st : Stacked(n, st)
  BY DEF DataInv
<1>2. Stacked(n, st)'
  BY <1>1 DEF Stacked, SameData
<1>3. QED
  BY <1>2 DEF DataInv

LEMMA LockKeptRest ==
  ASSUME ThreadHeapsInv, NEW t \in Workers, contendedLock(t) \/ ReadHead(t) \/ TakeHead(t) \/ PutHead(t)
  PROVE  LockInv'
<1>1. ThreadHeapsType /\ LockInv /\ HandInv
  BY DEF ThreadHeapsInv
<1>2. /\ h.pc[t] \in {"spin", "in", "write"} /\ (h.created \/ t = 1)
      /\ h.pc[t] = "write" /\ h.op[t] = "free" => h.p[t] \in Shared
  BY <1>1, RunsAlone DEF contendedLock, ReadHead, TakeHead, PutHead, HandInv, Freeing
<1>3. /\ SameSelf /\ SameLocks /\ h'.at = h.at /\ h'.op = h.op
      /\ \E s \in {"lock", "write", "out"} :
           h'.pc = [h.pc EXCEPT ![t] = s] /\ (s = "lock" <=> h.pc[t] = "spin")
  <2>1. CASE contendedLock(t)
    BY <1>1, <2>1, ContendedShape DEF contendedLock, SameHand
  <2>2. CASE ReadHead(t)
    BY <1>1, <2>2, ReadShape DEF ReadHead
  <2>3. CASE TakeHead(t)
    BY <1>1, <2>3, PopShape, BelowShape, NothingShape DEF TakeHead, SameHand
  <2>4. CASE PutHead(t)
    BY <1>1, <1>2, <2>4, PutShape DEF PutHead, SameHand
  <2>5. QED
    BY <2>1, <2>2, <2>3, <2>4
<1>4. /\ \A u \in Workers : Inside(u)' = Inside(u) /\ (Inside(u) => h'.at[u] = h.at[u])
      /\ \A u \in Workers : u # t => h'.pc[u] = h.pc[u]
      /\ \A u \in Workers : h'.op[u] = "hold" => h.op[u] = "hold"
      /\ h.kind = "locked" => \A u \in Workers : h'.at[u] = 0
  BY <1>1, <1>2, <1>3 DEF Inside, ThreadHeapsType, LockInv
<1>5. QED
  BY <1>1, <1>2, <1>3, <1>4, LocksStay

LEMMA LockKeptCreate ==
  ASSUME ThreadHeapsInv, CreateThread
  PROVE  ThreadHeapsInv'
<1>1. ThreadHeapsType /\ LockInv /\ HandInv /\ DataInv
  BY DEF ThreadHeapsInv
<1>2. h' = [h EXCEPT !.created = TRUE]
  BY DEF CreateThread
<1>3. /\ ThreadHeapsType' /\ SameLocks /\ SameData /\ SameHand /\ h'.pc = h.pc
      /\ h'.kind = h.kind /\ h'.recursive = h.recursive /\ h'.handle = h.handle /\ h'.created
  BY <1>1, <1>2 DEF ThreadHeapsType, SameLocks, SameData, SameHand
<1>4. /\ \A u \in Workers : CPUThreadId(u)' = CPUThreadId(u)
      /\ \A u \in Workers : HeapNumber(u)' = HeapNumber(u)
  BY <1>3 DEF CPUThreadId, HeapNumber
<1>5. /\ \A u \in Workers : Inside(u)' = Inside(u) /\ Freeing(u)' = Freeing(u)
      /\ \A u \in Workers, i \in PerThread : Within(u, i)' = Within(u, i)
  BY <1>3 DEF Inside, Freeing, Within, SameHand, SameLocks
<1>6. LockInv'
  <2>1. 0 \in PerThread
    BY SharedFacts
  <2>2. /\ h'.mutex = h.mutex /\ h'.tid = h.tid /\ h'.count = h.count /\ h'.held = h.held
        /\ h'.at = h.at /\ h'.op = h.op /\ h'.kind = h.kind /\ h'.recursive = h.recursive
        /\ h'.created
    BY <1>3 DEF SameLocks, SameHand
  <2>3. /\ \A i \in PerThread, t, u \in Workers : Within(t, i)' /\ Within(u, i)' => t = u
        /\ \A i \in PerThread : h'.mutex[i] = 1 <=> \E t \in Workers : Within(t, i)'
    BY <1>1, <1>5, <2>2 DEF LockInv
  <2>4. h'.recursive =>
          /\ \A t \in Workers : Within(t, 0)' =>
               h'.tid[0] = CPUThreadId(t)' /\ h'.count[0] = h'.held[t] + (IF Inside(t)' THEN 1 ELSE 0)
          /\ (\A t \in Workers : ~Within(t, 0)') => h'.tid[0] = Nobody /\ h'.count[0] = 0
    BY <1>1, <1>4, <1>5, <2>1, <2>2 DEF LockInv
  <2>5. /\ \A t \in Workers : h'.held[t] > 0 \/ h'.op[t] = "hold" => h'.recursive
        /\ h'.recursive => h'.kind = "locked"
        /\ h'.kind = "locked" => \A t \in Workers : h'.at[t] = 0
    BY <1>1, <2>2 DEF LockInv
  <2>6. QED
    BY <2>2, <2>3, <2>4, <2>5 DEF LockInv
<1>7. HandInv'
  BY <1>1, <1>3, <1>4, <1>5 DEF HandInv, SameData, SameHand
<1>8. DataInv'
  BY <1>1, <1>3, DataStays
<1>9. QED
  BY <1>3, <1>6, <1>7, <1>8 DEF ThreadHeapsInv

\* What the other threads have in hand stays good when no object moves.
LEMMA HandStays ==
  ASSUME ThreadHeapsType, HandInv, SameSelf, SameData, NEW t \in Workers,
         \A u \in Workers : u # t =>
           /\ h'.pc[u] = h.pc[u] /\ h'.at[u] = h.at[u] /\ h'.op[u] = h.op[u]
           /\ h'.p[u] = h.p[u] /\ h'.seen[u] = h.seen[u],
         h'.pc[t] = "write" => h'.seen[t] = h.head[h'.at[t]],
         Freeing(t)' => Freeing(t) /\ h'.p[t] = h.p[t] /\ h'.at[t] = h.at[t],
         h.kind = "pho" /\ h'.pc[t] # "idle" /\ h'.op[t] = "malloc" => h'.at[t] = HeapNumber(t)
  PROVE  HandInv'
<1>1. \A u \in Workers : Freeing(u)' => Freeing(u) /\ h'.p[u] = h.p[u] /\ h'.at[u] = h.at[u]
  BY DEF Freeing
<1>2. \A u \in Workers : HeapNumber(u)' = HeapNumber(u)
  BY DEF HeapNumber, SameSelf
<1>3. \A u \in Workers : h'.pc[u] = "write" => h'.seen[u] = h'.head[h'.at[u]]
  BY DEF HandInv, SameData
<1>4. /\ \A u \in Workers : Freeing(u)' => h'.p[u] \in Shared /\ h'.owner[h'.p[u]] # Nobody
      /\ \A u, v \in Workers : Freeing(u)' /\ Freeing(v)' /\ h'.p[u] = h'.p[v] => u = v
  BY <1>1 DEF HandInv, SameData
<1>5. h'.kind = "pho" =>
        /\ \A o \in Shared : h'.owner[o] # Nobody => h'.origin[o] \in PerThread
        /\ \A u \in Workers :
             /\ Freeing(u)' => h'.at[u] = h'.origin[h'.p[u]]
             /\ h'.pc[u] # "idle" /\ h'.op[u] = "malloc" => h'.at[u] = HeapNumber(u)'
  BY <1>1, <1>2 DEF HandInv, SameData, SameSelf
<1>6. QED
  BY <1>3, <1>4, <1>5 DEF HandInv

\* malloc takes the head of a list off it.
LEMMA Pops ==
  ASSUME ThreadHeapsInv, NEW t \in Workers, TakeHead(t), h.seen[t] # None
  PROVE  HandInv' /\ DataInv'
<1> DEFINE i == h.at[t]
           s == h.seen[t]
<1>1. ThreadHeapsType /\ LockInv /\ HandInv
  BY DEF ThreadHeapsInv
<1>2. PICK n, st : Stacked(n, st)
  BY DEF ThreadHeapsInv, DataInv
<1>3. /\ h.pc[t] = "write" /\ h.op[t] = "malloc" /\ i \in PerThread /\ s \in Shared
      /\ s = h.head[i] /\ Within(t, i)
  BY <1>1 DEF TakeHead, ThreadHeapsType, HandInv, Within, Inside
<1>4. /\ SameSelf /\ h'.super = h.super /\ h'.at = h.at /\ h'.op = h.op /\ h'.seen = h.seen
      /\ h'.head = [h.head EXCEPT ![i] = h.next[s]] /\ h'.next = [h.next EXCEPT ![s] = None]
      /\ h'.p = [h.p EXCEPT ![t] = s] /\ h'.owner = [h.owner EXCEPT ![s] = t]
      /\ h'.origin = [h.origin EXCEPT ![s] = HeapNumber(t)] /\ h'.pc = [h.pc EXCEPT ![t] = "out"]
  BY <1>1, PopShape
<1>5. /\ n[i] \in Nat /\ n[i] > 0 /\ s = st[i][n[i]] /\ h.next[s] = st[i][n[i] - 1]
      /\ h.owner[s] = Nobody /\ s \notin h.super
  BY <1>2, <1>3 DEF Stacked
<1>6. \A o \in Shared : o # s => /\ h'.next[o] = h.next[o] /\ h'.owner[o] = h.owner[o]
                                 /\ h'.origin[o] = h.origin[o]
  BY <1>1, <1>4 DEF ThreadHeapsType
<1>7. h'.owner[s] = t /\ t # Nobody /\ h'.origin[s] = HeapNumber(t) /\ h'.head[i] = st[i][n[i] - 1]
  BY <1>1, <1>3, <1>4, <1>5, SharedFacts DEF ThreadHeapsType
<1>8. \A j \in PerThread : j # i => h'.head[j] = h.head[j]
  BY <1>1, <1>4 DEF ThreadHeapsType
<1>9. HandInv'
  <2>1. \A u \in Workers : Freeing(u)' => Freeing(u) /\ u # t /\ h'.p[u] = h.p[u] /\ h.p[u] \in Shared /\ h.p[u] # s
    BY <1>1, <1>3, <1>4, <1>5 DEF Freeing, ThreadHeapsType, HandInv
  <2>2. \A u \in Workers : h'.pc[u] = "write" => h'.seen[u] = h'.head[h'.at[u]]
    <3> SUFFICES ASSUME NEW u \in Workers, h'.pc[u] = "write"
                 PROVE  h.seen[u] = h'.head[h.at[u]]
      BY <1>4
    <3>1. u # t /\ h.pc[u] = "write" /\ h.at[u] \in PerThread
      BY <1>1, <1>4 DEF ThreadHeapsType
    <3>2. h.at[u] # i
      BY <1>1, <1>3, <3>1 DEF LockInv, Within, Inside
    <3>3. QED
      BY <1>1, <1>8, <3>1, <3>2 DEF HandInv
  <2>3. \A u \in Workers : HeapNumber(u)' = HeapNumber(u)
    BY <1>4 DEF HeapNumber, SameSelf
  <2>4. /\ \A u \in Workers : Freeing(u)' => h'.p[u] \in Shared /\ h'.owner[h'.p[u]] # Nobody
        /\ \A u, v \in Workers : Freeing(u)' /\ Freeing(v)' /\ h'.p[u] = h'.p[v] => u = v
    BY <1>1, <1>6, <2>1 DEF HandInv
  <2>5. ASSUME h.kind = "pho"
        PROVE  /\ \A o \in Shared : h'.owner[o] # Nobody => h'.origin[o] \in PerThread
               /\ \A u \in Workers :
                    /\ Freeing(u)' => h'.at[u] = h'.origin[h'.p[u]]
                    /\ h'.pc[u] # "idle" /\ h'.op[u] = "malloc" => h'.at[u] = HeapNumber(u)'
    <3>1. HeapNumber(t) = i
      BY <1>1, <1>3, <2>5 DEF HandInv
    <3>2. \A o \in Shared : h'.owner[o] # Nobody => h'.origin[o] \in PerThread
      BY <1>1, <1>3, <1>6, <1>7, <2>5, <3>1 DEF HandInv
    <3>3. \A u \in Workers : Freeing(u)' => h'.at[u] = h'.origin[h'.p[u]]
      BY <1>1, <1>4, <1>6, <2>1, <2>5 DEF HandInv
    <3>4. \A u \in Workers : h'.pc[u] # "idle" /\ h'.op[u] = "malloc" => h'.at[u] = HeapNumber(u)'
      BY <1>1, <1>3, <1>4, <2>3, <2>5 DEF HandInv, ThreadHeapsType
    <3>5. QED
      BY <3>2, <3>3, <3>4
  <2>6. QED
    BY <1>4, <2>2, <2>4, <2>5 DEF HandInv, SameSelf
<1>10. DataInv'
  <2>1. PICK m : m[i] = n[i] - 1 /\ \A j \in PerThread : j # i => m[j] = n[j]
    <3> DEFINE f == [j \in PerThread |-> IF j = i THEN n[i] - 1 ELSE n[j]]
    <3>1. f[i] = n[i] - 1 /\ \A j \in PerThread : j # i => f[j] = n[j]
      BY <1>3
    <3> HIDE DEF f
    <3>2. QED
      BY <3>1
  <2>2. \A j \in PerThread : m[j] \in Nat /\ m[j] <= n[j] /\ n[j] \in Nat
    BY <1>2, <1>5, <2>1 DEF Stacked
  <2>3. \A j \in PerThread : \A k \in 1 .. m[j] : k \in 1 .. n[j] /\ st[j][k] \in Shared /\ st[j][k] # s
    <3> SUFFICES ASSUME NEW j \in PerThread, NEW k \in 1 .. m[j]
                 PROVE  k \in 1 .. n[j] /\ st[j][k] \in Shared /\ st[j][k] # s
      OBVIOUS
    <3>1. k \in 1 .. n[j] /\ (j = i => k # n[i])
      BY <1>5, <2>1, <2>2
    <3>2. n[i] \in 1 .. n[i]
      BY <1>5
    <3>3. QED
      BY <1>2, <1>3, <1>5, <3>1, <3>2 DEF Stacked
  <2>4. ASSUME NEW j \in PerThread
        PROVE  /\ m[j] \in Nat /\ st[j][0] = None /\ h'.head[j] = st[j][m[j]]
               /\ \A k \in 1 .. m[j] :
                    /\ st[j][k] \in Shared /\ h'.next[st[j][k]] = st[j][k - 1]
                    /\ h'.owner[st[j][k]] = Nobody /\ st[j][k] \notin h'.super
                    /\ h'.kind = "pho" => h'.origin[st[j][k]] = j
    <3>1. m[j] \in Nat /\ st[j][0] = None
      BY <1>2, <2>2 DEF Stacked
    <3>2. h'.head[j] = st[j][m[j]]
      BY <1>2, <1>7, <1>8, <2>1 DEF Stacked
    <3>3. ASSUME NEW k \in 1 .. m[j]
          PROVE  /\ st[j][k] \in Shared /\ h'.next[st[j][k]] = st[j][k - 1]
                 /\ h'.owner[st[j][k]] = Nobody /\ st[j][k] \notin h'.super
                 /\ h'.kind = "pho" => h'.origin[st[j][k]] = j
      BY <1>2, <1>4, <1>6, <2>3 DEF Stacked, SameSelf
    <3>4. QED
      BY <3>1, <3>2, <3>3
  <2>5. \A a, b \in PerThread : \A k \in 1 .. m[a], l \in 1 .. m[b] : st[a][k] = st[b][l] => a = b /\ k = l
    BY <1>2, <2>3 DEF Stacked
  <2>6. ASSUME NEW o \in Shared
        PROVE  /\ o \in h'.super => h'.owner[o] = Nobody
               /\ h'.owner[o] = Nobody =>
                    o \in h'.super \/ \E j \in PerThread : \E k \in 1 .. m[j] : st[j][k] = o
    <3>1. o \in h'.super => h'.owner[o] = Nobody
      BY <1>2, <1>4, <1>5, <1>6 DEF Stacked
    <3>2. ASSUME h'.owner[o] = Nobody, o \notin h'.super
          PROVE  \E j \in PerThread : \E k \in 1 .. m[j] : st[j][k] = o
      <4>1. o # s /\ h.owner[o] = Nobody /\ o \notin h.super
        BY <1>4, <1>6, <1>7, <3>2
      <4>2. PICK j \in PerThread : \E k \in 1 .. n[j] : st[j][k] = o
        BY <1>2, <4>1 DEF Stacked
      <4>3. PICK k \in 1 .. n[j] : st[j][k] = o
        BY <4>2
      <4>4. k \in 1 .. m[j]
        BY <1>5, <2>1, <2>2, <4>1, <4>3
      <4>5. QED
        BY <4>3, <4>4
    <3>3. QED
      BY <3>1, <3>2
  <2>7. Stacked(m, st)'
    BY <2>4, <2>5, <2>6 DEF Stacked
  <2>8. QED
    BY <2>7 DEF DataInv
<1>11. QED
  BY <1>9, <1>10

\* malloc takes an object of the heap below.
LEMMA TakesBelow ==
  ASSUME ThreadHeapsInv, NEW t \in Workers, TakeHead(t), h.seen[t] = None, h.super # {}
  PROVE  HandInv' /\ DataInv'
<1> DEFINE s == Min(h.super)
<1>1. ThreadHeapsType /\ LockInv /\ HandInv
  BY DEF ThreadHeapsInv
<1>2. PICK n, st : Stacked(n, st)
  BY DEF ThreadHeapsInv, DataInv
<1>3. h.pc[t] = "write" /\ h.op[t] = "malloc" /\ h.at[t] \in PerThread
  BY <1>1 DEF TakeHead, ThreadHeapsType
<1>4. s \in h.super /\ s \in Shared
  <2>1. h.super \subseteq Shared /\ h.super \subseteq Nat
    BY <1>1, SharedFacts DEF ThreadHeapsType
  <2>2. QED
    BY <2>1, MinIn
<1>5. /\ SameSelf /\ h'.head = h.head /\ h'.next = h.next /\ h'.at = h.at /\ h'.op = h.op
      /\ h'.seen = h.seen /\ h'.super = h.super \ {s}
      /\ h'.p = [h.p EXCEPT ![t] = s] /\ h'.owner = [h.owner EXCEPT ![s] = t]
      /\ h'.origin = [h.origin EXCEPT ![s] = HeapNumber(t)] /\ h'.pc = [h.pc EXCEPT ![t] = "out"]
  BY <1>1, BelowShape
<1> HIDE DEF s
<1>6. h.owner[s] = Nobody
  BY <1>2, <1>4 DEF Stacked
<1>7. \A o \in Shared : o # s => h'.owner[o] = h.owner[o] /\ h'.origin[o] = h.origin[o]
  BY <1>1, <1>5 DEF ThreadHeapsType
<1>8. h'.owner[s] = t /\ t # Nobody /\ h'.origin[s] = HeapNumber(t)
  BY <1>1, <1>4, <1>5, SharedFacts DEF ThreadHeapsType
<1>9. HandInv'
  <2>1. \A u \in Workers : Freeing(u)' => Freeing(u) /\ u # t /\ h'.p[u] = h.p[u] /\ h.p[u] \in Shared /\ h.p[u] # s
    BY <1>1, <1>3, <1>5, <1>6 DEF Freeing, ThreadHeapsType, HandInv
  <2>2. \A u \in Workers : h'.pc[u] = "write" => h'.seen[u] = h'.head[h'.at[u]]
    BY <1>1, <1>5 DEF ThreadHeapsType, HandInv
  <2>3. \A u \in Workers : HeapNumber(u)' = HeapNumber(u)
    BY <1>5 DEF HeapNumber, SameSelf
  <2>4. /\ \A u \in Workers : Freeing(u)' => h'.p[u] \in Shared /\ h'.owner[h'.p[u]] # Nobody
        /\ \A u, v \in Workers : Freeing(u)' /\ Freeing(v)' /\ h'.p[u] = h'.p[v] => u = v
    BY <1>1, <1>7, <2>1 DEF HandInv
  <2>5. ASSUME h.kind = "pho"
        PROVE  /\ \A o \in Shared : h'.owner[o] # Nobody => h'.origin[o] \in PerThread
               /\ \A u \in Workers :
                    /\ Freeing(u)' => h'.at[u] = h'.origin[h'.p[u]]
                    /\ h'.pc[u] # "idle" /\ h'.op[u] = "malloc" => h'.at[u] = HeapNumber(u)'
    <3>1. HeapNumber(t) = h.at[t]
      BY <1>1, <1>3, <2>5 DEF HandInv
    <3>2. \A o \in Shared : h'.owner[o] # Nobody => h'.origin[o] \in PerThread
      BY <1>1, <1>3, <1>7, <1>8, <2>5, <3>1 DEF HandInv
    <3>3. \A u \in Workers : Freeing(u)' => h'.at[u] = h'.origin[h'.p[u]]
      BY <1>1, <1>5, <1>7, <2>1, <2>5 DEF HandInv
    <3>4. \A u \in Workers : h'.pc[u] # "idle" /\ h'.op[u] = "malloc" => h'.at[u] = HeapNumber(u)'
      BY <1>1, <1>3, <1>5, <2>3, <2>5 DEF HandInv, ThreadHeapsType
    <3>5. QED
      BY <3>2, <3>3, <3>4
  <2>6. QED
    BY <1>5, <2>2, <2>4, <2>5 DEF HandInv, SameSelf
<1>10. DataInv'
  <2>1. ASSUME NEW j \in PerThread
        PROVE  /\ n[j] \in Nat /\ st[j][0] = None /\ h'.head[j] = st[j][n[j]]
               /\ \A k \in 1 .. n[j] :
                    /\ st[j][k] \in Shared /\ h'.next[st[j][k]] = st[j][k - 1]
                    /\ h'.owner[st[j][k]] = Nobody /\ st[j][k] \notin h'.super
                    /\ h'.kind = "pho" => h'.origin[st[j][k]] = j
    <3>1. n[j] \in Nat /\ st[j][0] = None /\ h'.head[j] = st[j][n[j]]
      BY <1>2, <1>5 DEF Stacked
    <3>2. ASSUME NEW k \in 1 .. n[j]
          PROVE  /\ st[j][k] \in Shared /\ h'.next[st[j][k]] = st[j][k - 1]
                 /\ h'.owner[st[j][k]] = Nobody /\ st[j][k] \notin h'.super
                 /\ h'.kind = "pho" => h'.origin[st[j][k]] = j
      <4>1. st[j][k] # s
        BY <1>2, <1>4 DEF Stacked
      <4>2. QED
        BY <1>2, <1>5, <1>7, <4>1 DEF Stacked, SameSelf
    <3>3. QED
      BY <3>1, <3>2
  <2>2. \A a, b \in PerThread : \A k \in 1 .. n[a], l \in 1 .. n[b] : st[a][k] = st[b][l] => a = b /\ k = l
    BY <1>2 DEF Stacked
  <2>3. \A o \in Shared :
          /\ o \in h'.super => h'.owner[o] = Nobody
          /\ h'.owner[o] = Nobody =>
               o \in h'.super \/ \E j \in PerThread : \E k \in 1 .. n[j] : st[j][k] = o
    BY <1>2, <1>5, <1>7, <1>8 DEF Stacked
  <2>4. Stacked(n, st)'
    BY <2>1, <2>2, <2>3 DEF Stacked
  <2>5. QED
    BY <2>4 DEF DataInv
<1>11. QED
  BY <1>9, <1>10

\* free puts its object at the head of a list.
LEMMA Puts ==
  ASSUME ThreadHeapsInv, NEW t \in Workers, PutHead(t)
  PROVE  HandInv' /\ DataInv'
<1> DEFINE i == h.at[t]
           s == h.p[t]
<1>1. ThreadHeapsType /\ LockInv /\ HandInv
  BY DEF ThreadHeapsInv
<1>2. PICK n, st : Stacked(n, st)
  BY DEF ThreadHeapsInv, DataInv
<1>3. /\ h.pc[t] = "write" /\ h.op[t] = "free" /\ i \in PerThread /\ Freeing(t)
      /\ s \in Shared /\ h.owner[s] # Nobody /\ h.seen[t] = h.head[i] /\ Within(t, i)
  BY <1>1 DEF PutHead, ThreadHeapsType, HandInv, Within, Inside, Freeing
<1>4. /\ SameSelf /\ h'.super = h.super /\ h'.origin = h.origin /\ SameHand
      /\ h'.next = [h.next EXCEPT ![s] = h.seen[t]] /\ h'.head = [h.head EXCEPT ![i] = s]
      /\ h'.owner = [h.owner EXCEPT ![s] = Nobody] /\ h'.pc = [h.pc EXCEPT ![t] = "out"]
  BY <1>1, <1>3, PutShape
<1>5. /\ n[i] \in Nat /\ h.seen[t] = st[i][n[i]] /\ st[i][0] = None /\ s \notin h.super
      /\ h.kind = "pho" => h.origin[s] = i
  BY <1>1, <1>2, <1>3 DEF Stacked, HandInv
<1>6. \A o \in Shared : o # s => h'.next[o] = h.next[o] /\ h'.owner[o] = h.owner[o]
  BY <1>1, <1>4 DEF ThreadHeapsType
<1>7. h'.owner[s] = Nobody /\ h'.next[s] = st[i][n[i]] /\ h'.head[i] = s
  BY <1>1, <1>3, <1>4, <1>5 DEF ThreadHeapsType
<1>8. \A j \in PerThread : j # i => h'.head[j] = h.head[j]
  BY <1>1, <1>4 DEF ThreadHeapsType
<1>9. HandInv'
  <2>1. \A u \in Workers : Freeing(u)' => Freeing(u) /\ u # t /\ h.p[u] \in Shared /\ h.p[u] # s
    BY <1>1, <1>3, <1>4 DEF Freeing, ThreadHeapsType, HandInv, SameHand
  <2>2. \A u \in Workers : h'.pc[u] = "write" => h'.seen[u] = h'.head[h'.at[u]]
    <3> SUFFICES ASSUME NEW u \in Workers, h'.pc[u] = "write"
                 PROVE  h.seen[u] = h'.head[h.at[u]]
      BY <1>4 DEF SameHand
    <3>1. u # t /\ h.pc[u] = "write" /\ h.at[u] \in PerThread
      BY <1>1, <1>4 DEF ThreadHeapsType
    <3>2. h.at[u] # i
      BY <1>1, <1>3, <3>1 DEF LockInv, Within, Inside
    <3>3. QED
      BY <1>1, <1>8, <3>1, <3>2 DEF HandInv
  <2>3. \A u \in Workers : HeapNumber(u)' = HeapNumber(u)
    BY <1>4 DEF HeapNumber, SameSelf
  <2>4. /\ \A u \in Workers : Freeing(u)' => h'.p[u] \in Shared /\ h'.owner[h'.p[u]] # Nobody
        /\ \A u, v \in Workers : Freeing(u)' /\ Freeing(v)' /\ h'.p[u] = h'.p[v] => u = v
    BY <1>1, <1>4, <1>6, <2>1 DEF HandInv, SameHand
  <2>5. ASSUME h.kind = "pho"
        PROVE  /\ \A o \in Shared : h'.owner[o] # Nobody => h'.origin[o] \in PerThread
               /\ \A u \in Workers :
                    /\ Freeing(u)' => h'.at[u] = h'.origin[h'.p[u]]
                    /\ h'.pc[u] # "idle" /\ h'.op[u] = "malloc" => h'.at[u] = HeapNumber(u)'
    <3>1. \A o \in Shared : h'.owner[o] # Nobody => h'.origin[o] \in PerThread
      BY <1>1, <1>4, <1>6, <1>7, <2>5 DEF HandInv
    <3>2. \A u \in Workers : Freeing(u)' => h'.at[u] = h'.origin[h'.p[u]]
      BY <1>1, <1>4, <2>1, <2>5 DEF HandInv, SameHand
    <3>3. \A u \in Workers : h'.pc[u] # "idle" /\ h'.op[u] = "malloc" => h'.at[u] = HeapNumber(u)'
      BY <1>1, <1>3, <1>4, <2>3, <2>5 DEF HandInv, ThreadHeapsType, SameHand
    <3>4. QED
      BY <3>1, <3>2, <3>3
  <2>6. QED
    BY <1>4, <2>2, <2>4, <2>5 DEF HandInv, SameSelf
<1>10. DataInv'
  <2>1. PICK m, su :
          /\ m[i] = n[i] + 1 /\ \A j \in PerThread : j # i => m[j] = n[j]
          /\ su[i][n[i] + 1] = s /\ \A k \in 0 .. n[i] : su[i][k] = st[i][k]
          /\ \A j \in PerThread : j # i => su[j] = st[j]
    <3> DEFINE f == [j \in PerThread |-> IF j = i THEN n[i] + 1 ELSE n[j]]
               g == [k \in Nat |-> IF k = n[i] + 1 THEN s ELSE st[i][k]]
               r == [j \in PerThread |-> IF j = i THEN g ELSE st[j]]
    <3>1. f[i] = n[i] + 1 /\ \A j \in PerThread : j # i => f[j] = n[j]
      BY <1>3
    <3>2. g[n[i] + 1] = s /\ \A k \in 0 .. n[i] : g[k] = st[i][k]
      BY <1>5
    <3> HIDE DEF g
    <3>3. r[i] = g /\ \A j \in PerThread : j # i => r[j] = st[j]
      BY <1>3
    <3> HIDE DEF f, r
    <3>4. QED
      BY <3>1, <3>2, <3>3
  <2>2. \A j \in PerThread : \A k \in 1 .. n[j] : st[j][k] \in Shared /\ st[j][k] # s
    BY <1>2, <1>3 DEF Stacked
  <2>3. \A j \in PerThread : n[j] \in Nat /\ m[j] \in Nat
    BY <1>2, <1>5, <2>1 DEF Stacked
  <2>4. ASSUME NEW j \in PerThread, NEW k \in 1 .. m[j]
        PROVE  \/ k \in 1 .. n[j] /\ su[j][k] = st[j][k] /\ su[j][k - 1] = st[j][k - 1]
               \/ j = i /\ k = n[i] + 1 /\ su[j][k] = s /\ su[j][k - 1] = st[i][n[i]]
    <3>1. CASE j # i
      BY <2>1, <3>1
    <3>2. CASE j = i /\ k = n[i] + 1
      <4>1. k - 1 = n[i] /\ n[i] \in 0 .. n[i]
        BY <1>5, <3>2
      <4>2. QED
        BY <2>1, <3>2, <4>1
    <3>3. CASE j = i /\ k # n[i] + 1
      <4>1. k \in 1 .. n[i] /\ k \in 0 .. n[i] /\ k - 1 \in 0 .. n[i]
        BY <1>5, <2>1, <3>3
      <4>2. QED
        BY <2>1, <3>3, <4>1
    <3>4. QED
      BY <3>1, <3>2, <3>3
  <2>5. ASSUME NEW j \in PerThread
        PROVE  /\ m[j] \in Nat /\ su[j][0] = None /\ h'.head[j] = su[j][m[j]]
               /\ \A k \in 1 .. m[j] :
                    /\ su[j][k] \in Shared /\ h'.next[su[j][k]] = su[j][k - 1]
                    /\ h'.owner[su[j][k]] = Nobody /\ su[j][k] \notin h'.super
                    /\ h'.kind = "pho" => h'.origin[su[j][k]] = j
    <3>1. 0 \in 0 .. n[i]
      BY <1>5
    <3>2. m[j] \in Nat /\ su[j][0] = None
      BY <1>2, <2>1, <2>3, <3>1 DEF Stacked
    <3>3. h'.head[j] = su[j][m[j]]
      BY <1>2, <1>7, <1>8, <2>1 DEF Stacked
    <3>4. ASSUME NEW k \in 1 .. m[j]
          PROVE  /\ su[j][k] \in Shared /\ h'.next[su[j][k]] = su[j][k - 1]
                 /\ h'.owner[su[j][k]] = Nobody /\ su[j][k] \notin h'.super
                 /\ h'.kind = "pho" => h'.origin[su[j][k]] = j
      <4>1. CASE k \in 1 .. n[j] /\ su[j][k] = st[j][k] /\ su[j][k - 1] = st[j][k - 1]
        BY <1>2, <1>4, <1>6, <2>2, <4>1 DEF Stacked, SameSelf
      <4>2. CASE j = i /\ k = n[i] + 1 /\ su[j][k] = s /\ su[j][k - 1] = st[i][n[i]]
        BY <1>3, <1>4, <1>5, <1>7, <4>2 DEF SameSelf
      <4>3. QED
        BY <2>4, <4>1, <4>2
    <3>5. QED
      BY <3>2, <3>3, <3>4
  <2>6. ASSUME NEW a \in PerThread, NEW b \in PerThread, NEW k \in 1 .. m[a], NEW l \in 1 .. m[b],
               su[a][k] = su[b][l]
        PROVE  a = b /\ k = l
    BY <1>2, <2>2, <2>4, <2>6 DEF Stacked
  <2>7. ASSUME NEW o \in Shared
        PROVE  /\ o \in h'.super => h'.owner[o] = Nobody
               /\ h'.owner[o] = Nobody =>
                    o \in h'.super \/ \E j \in PerThread : \E k \in 1 .. m[j] : su[j][k] = o
    <3>1. o \in h'.super => h'.owner[o] = Nobody
      BY <1>2, <1>4, <1>5, <1>6 DEF Stacked
    <3>2. CASE o = s
      <4>1. m[i] \in 1 .. m[i] /\ su[i][m[i]] = s
        BY <1>5, <2>1
      <4>2. QED
        BY <1>3, <3>1, <3>2, <4>1
    <3>3. ASSUME o # s, h'.owner[o] = Nobody, o \notin h'.super
          PROVE  \E j \in PerThread : \E k \in 1 .. m[j] : su[j][k] = o
      <4>1. PICK j \in PerThread : \E k \in 1 .. n[j] : st[j][k] = o
        BY <1>2, <1>4, <1>6, <3>3 DEF Stacked
      <4>2. PICK k \in 1 .. n[j] : st[j][k] = o
        BY <4>1
      <4>3. k \in 1 .. m[j] /\ su[j][k] = o
        BY <1>5, <2>1, <2>3, <4>2
      <4>4. QED
        BY <4>3
    <3>4. QED
      BY <3>1, <3>2, <3>3
  <2>8. Stacked(m, su)'
    BY <2>5, <2>6, <2>7 DEF Stacked
  <2>9. QED
    BY <2>8 DEF DataInv
<1>11. QED
  BY <1>9, <1>10

\* A failed assertion changes nothing else.
LEMMA DeadKept ==
  ASSUME ThreadHeapsInv, h' = [h EXCEPT !.dead = TRUE]
  PROVE  ThreadHeapsInv'
<1>1. ThreadHeapsType /\ LockInv /\ HandInv /\ DataInv
  BY DEF ThreadHeapsInv
<1>2. ThreadHeapsType' /\ SameSelf /\ SameLocks /\ SameData /\ SameHand /\ h'.pc = h.pc
  BY <1>1 DEF ThreadHeapsType, SameSelf, SameLocks, SameData, SameHand
<1>3. /\ \A u \in Workers : CPUThreadId(u)' = CPUThreadId(u)
      /\ \A u \in Workers : HeapNumber(u)' = HeapNumber(u)
  BY <1>2 DEF CPUThreadId, HeapNumber, SameSelf
<1>4. /\ \A u \in Workers : Inside(u)' = Inside(u) /\ Freeing(u)' = Freeing(u)
      /\ \A u \in Workers, i \in PerThread : Within(u, i)' = Within(u, i)
  BY <1>2 DEF Inside, Freeing, Within, SameHand, SameLocks
<1>5. LockInv'
  BY <1>1, <1>2, <1>3, <1>4, SharedFacts DEF LockInv, SameLocks, SameHand, SameSelf
<1>6. HandInv'
  BY <1>1, <1>2, <1>3, <1>4 DEF HandInv, SameData, SameHand, SameSelf
<1>7. DataInv'
  BY <1>1, <1>2, DataStays DEF SameSelf
<1>8. QED
  BY <1>2, <1>5, <1>6, <1>7 DEF ThreadHeapsInv

LEMMA CallKept ==
  ASSUME ThreadHeapsInv, NEW t \in Workers, NEW op \in {"malloc", "hold"}, NEW i,
         i \in PerThread \/ i < 0, Call(t, op, i, None),
         h.kind = "locked" => i = 0, op = "hold" => h.recursive,
         op = "malloc" => i = Chosen(t)
  PROVE  ThreadHeapsInv'
<1>1. ThreadHeapsType /\ LockInv /\ HandInv /\ DataInv
  BY DEF ThreadHeapsInv
<1>2. CASE i < 0
  BY <1>2, DeadKept DEF Call
<1>3. CASE i \in PerThread
  <2>1. /\ ThreadHeapsType' /\ SameSelf /\ SameData /\ h'.seen = h.seen
        /\ h'.pc = [h.pc EXCEPT ![t] = "lock"] /\ h'.at = [h.at EXCEPT ![t] = i]
        /\ h'.op = [h.op EXCEPT ![t] = op] /\ h'.p = [h.p EXCEPT ![t] = None]
    <3>1. op \in {"malloc", "free", "hold"} /\ None \in Shared \cup {None}
      OBVIOUS
    <3>2. QED
      BY <1>1, <1>3, <3>1, CallShape
  <2>2. LockInv'
    BY <1>1, <1>3, LockKeptCall
  <2>3. h'.pc[t] = "lock" /\ h'.op[t] = op /\ h'.at[t] = i
    BY <1>1, <2>1 DEF ThreadHeapsType
  <2>4. \A u \in Workers : u # t =>
          /\ h'.pc[u] = h.pc[u] /\ h'.at[u] = h.at[u] /\ h'.op[u] = h.op[u]
          /\ h'.p[u] = h.p[u] /\ h'.seen[u] = h.seen[u]
    BY <1>1, <2>1 DEF ThreadHeapsType
  <2>5. ~Freeing(t)'
    BY <2>3 DEF Freeing
  <2>6. h.kind = "pho" /\ h'.pc[t] # "idle" /\ h'.op[t] = "malloc" => h'.at[t] = HeapNumber(t)
    BY <2>3 DEF Chosen
  <2>7. HandInv'
    BY <1>1, <2>1, <2>3, <2>4, <2>5, <2>6, HandStays
  <2>8. DataInv'
    BY <1>1, <2>1, DataStays DEF SameSelf
  <2>9. QED
    BY <2>1, <2>2, <2>7, <2>8 DEF ThreadHeapsInv
<1>4. QED
  BY <1>2, <1>3

LEMMA FreeKept ==
  ASSUME ThreadHeapsInv, NEW t \in Workers, free(t)
  PROVE  ThreadHeapsInv'
<1>1. ThreadHeapsType /\ LockInv /\ HandInv /\ DataInv
  BY DEF ThreadHeapsInv
<1>2. PICK o \in Shared : /\ h.owner[o] # Nobody /\ \A u \in Workers : h.p[u] # o
                          /\ Call(t, "free", FreeHeap(t, o), o)
  BY DEF free
<1>3. PICK i : i = FreeHeap(t, o)
  OBVIOUS
<1>4. CASE i < 0
  BY <1>2, <1>3, <1>4, DeadKept DEF Call
<1>5. CASE i \in PerThread
  <2>1. /\ ThreadHeapsType' /\ SameSelf /\ SameData /\ h'.seen = h.seen
        /\ h'.pc = [h.pc EXCEPT ![t] = "lock"] /\ h'.at = [h.at EXCEPT ![t] = i]
        /\ h'.op = [h.op EXCEPT ![t] = "free"] /\ h'.p = [h.p EXCEPT ![t] = o]
    <3>1. Call(t, "free", i, o)
      BY <1>2, <1>3
    <3>2. QED
      BY <1>1, <1>5, <3>1, FreeShape
  <2>2. h.kind = "locked" => i = 0
    BY <1>3 DEF FreeHeap, Chosen
  <2>3. LockInv'
    BY <1>2, <1>3, <1>5, <2>2, LockKeptCall
  <2>4. h'.pc[t] = "lock" /\ h'.op[t] = "free" /\ h'.at[t] = i /\ h'.p[t] = o
    BY <1>1, <2>1 DEF ThreadHeapsType
  <2>5. \A u \in Workers : u # t =>
          /\ h'.pc[u] = h.pc[u] /\ h'.at[u] = h.at[u] /\ h'.op[u] = h.op[u]
          /\ h'.p[u] = h.p[u] /\ h'.seen[u] = h.seen[u]
    BY <1>1, <2>1 DEF ThreadHeapsType
  <2>6. \A u \in Workers : u # t /\ Freeing(u)' => Freeing(u)
    BY <2>5 DEF Freeing
  <2>7. \A u \in Workers : h'.pc[u] = "write" => h'.seen[u] = h'.head[h'.at[u]]
    BY <1>1, <2>1, <2>4, <2>5 DEF HandInv, SameData
  <2>8. \A u \in Workers : Freeing(u)' => h'.p[u] \in Shared /\ h'.owner[h'.p[u]] # Nobody
    BY <1>1, <1>2, <2>1, <2>4, <2>5, <2>6 DEF HandInv, SameData
  <2>9. \A u, v \in Workers : Freeing(u)' /\ Freeing(v)' /\ h'.p[u] = h'.p[v] => u = v
    BY <1>1, <1>2, <2>4, <2>5, <2>6 DEF HandInv
  <2>10. \A u \in Workers : HeapNumber(u)' = HeapNumber(u)
    BY <2>1 DEF HeapNumber, SameSelf
  <2>11. h.kind = "pho" =>
          /\ \A q \in Shared : h'.owner[q] # Nobody => h'.origin[q] \in PerThread
          /\ \A u \in Workers :
               /\ Freeing(u)' => h'.at[u] = h'.origin[h'.p[u]]
               /\ h'.pc[u] # "idle" /\ h'.op[u] = "malloc" => h'.at[u] = HeapNumber(u)'
    BY <1>1, <1>2, <1>3, <2>1, <2>4, <2>5, <2>6, <2>10 DEF HandInv, SameData, FreeHeap
  <2>12. HandInv'
    BY <2>1, <2>7, <2>8, <2>9, <2>11 DEF HandInv, SameSelf
  <2>13. DataInv'
    BY <1>1, <2>1, DataStays DEF SameSelf
  <2>14. QED
    BY <2>1, <2>3, <2>12, <2>13 DEF ThreadHeapsInv
<1>6. QED
  BY <1>1, <1>2, <1>3, <1>4, <1>5, CallGoes

LEMMA ThreadHeapsStarts == ThreadHeapsInit => ThreadHeapsInv
<1> SUFFICES ASSUME ThreadHeapsInit PROVE ThreadHeapsInv
  OBVIOUS
<1>1. PICK k \in {"locked", "threadheap", "pho"}, r \in BOOLEAN, f \in HandlesOf :
        /\ r => k = "locked"
        /\ h = [kind |-> k, recursive |-> r, created |-> FALSE, dead |-> FALSE, handle |-> f,
            mutex |-> [i \in PerThread |-> 0], tid |-> [i \in PerThread |-> Nobody],
            count |-> [i \in PerThread |-> 0], held |-> [t \in Workers |-> 0],
            head |-> [i \in PerThread |-> None], next |-> [o \in Shared |-> None],
            owner |-> [o \in Shared |-> Nobody], origin |-> [o \in Shared |-> Nobody],
            super |-> Shared,
            pc |-> [t \in Workers |-> "idle"], at |-> [t \in Workers |-> 0],
            op |-> [t \in Workers |-> "malloc"], p |-> [t \in Workers |-> None],
            seen |-> [t \in Workers |-> None]]
  BY DEF ThreadHeapsInit
<1>2. ThreadHeapsType
  BY <1>1, SharedFacts DEF ThreadHeapsType, Stages, Nobody
<1>3. /\ \A t \in Workers : h.pc[t] = "idle" /\ h.at[t] = 0 /\ h.op[t] = "malloc" /\ h.held[t] = 0
      /\ \A i \in PerThread : h.mutex[i] = 0 /\ h.tid[i] = Nobody /\ h.count[i] = 0 /\ h.head[i] = None
      /\ \A o \in Shared : h.owner[o] = Nobody
      /\ h.super = Shared /\ (h.recursive => h.kind = "locked")
  BY <1>1
<1>4. \A t \in Workers : ~Inside(t) /\ ~Freeing(t) /\ \A i \in PerThread : ~Within(t, i)
  BY <1>3 DEF Inside, Freeing, Within
<1>5. LockInv
  <2>1. \A t \in Workers : ~ (h.held[t] > 0 \/ h.op[t] = "hold")
    BY <1>3
  <2>2. \A i \in PerThread : ~ (h.mutex[i] = 1)
    BY <1>3
  <2>3. QED
    BY <1>3, <1>4, <2>1, <2>2, SharedFacts DEF LockInv
<1>6. HandInv
  BY <1>3, <1>4 DEF HandInv
<1>7. DataInv
  <2>1. PICK n, st : \A i \in PerThread : n[i] = 0 /\ st[i][0] = None
    <3> DEFINE g == [j \in Nat |-> None]
               m == [i \in PerThread |-> 0]
               su == [i \in PerThread |-> g]
    <3>1. \A i \in PerThread : m[i] = 0 /\ su[i] = g /\ g[0] = None
      OBVIOUS
    <3> HIDE DEF g, m, su
    <3>2. \A i \in PerThread : m[i] = 0 /\ su[i][0] = None
      BY <3>1
    <3>3. QED
      BY <3>2
  <2>2. \A i \in PerThread : 1 .. n[i] = {}
    BY <2>1
  <2>3. Stacked(n, st)
    BY <1>3, <2>1, <2>2 DEF Stacked
  <2>4. QED
    BY <2>3 DEF DataInv
<1>8. QED
  BY <1>2, <1>5, <1>6, <1>7 DEF ThreadHeapsInv

\* A step of a thread that moves no object and puts none in its hand
LEMMA QuietKept ==
  ASSUME ThreadHeapsInv, NEW t \in Workers,
         LetGo(t) \/ EnterAgain(t) \/ lock(t) \/ contendedLock(t) \/ HoldTaken(t) \/ ReadHead(t)
           \/ Leave(t) \/ (TakeHead(t) /\ h.seen[t] = None /\ h.super = {})
  PROVE  ThreadHeapsType' /\ HandInv' /\ DataInv'
<1>1. ThreadHeapsType /\ LockInv /\ HandInv /\ DataInv
  BY DEF ThreadHeapsInv
<1> DEFINE Quiet ==
      /\ ThreadHeapsType' /\ SameSelf /\ SameData
      /\ \A u \in Workers : u # t =>
           /\ h'.pc[u] = h.pc[u] /\ h'.at[u] = h.at[u] /\ h'.op[u] = h.op[u]
           /\ h'.p[u] = h.p[u] /\ h'.seen[u] = h.seen[u]
      /\ h'.pc[t] = "write" => h'.seen[t] = h.head[h'.at[t]]
      /\ Freeing(t)' => Freeing(t) /\ h'.p[t] = h.p[t] /\ h'.at[t] = h.at[t]
      /\ h.kind = "pho" /\ h'.pc[t] # "idle" /\ h'.op[t] = "malloc" => h'.at[t] = HeapNumber(t)
<1>2. SUFFICES Quiet
  BY <1>1, <1>2, HandStays, DataStays DEF SameSelf
<1>3. CASE LetGo(t)
  <2>1. ThreadHeapsType' /\ SameSelf /\ SameData /\ SameHand /\ h'.pc = h.pc /\ h.pc[t] = "idle"
    <3>1. h.recursive
      BY <1>1, <1>3, SharedFacts DEF LockInv, LetGo
    <3>2. QED
      BY <1>1, <1>3, <3>1, LetGoCounts, LetGoReleases DEF LetGo
  <2>2. QED
    BY <1>1, <2>1 DEF SameHand, Freeing
<1>4. CASE EnterAgain(t) \/ lock(t) \/ contendedLock(t)
  <2>1. /\ ThreadHeapsType' /\ SameSelf /\ SameData /\ SameHand /\ h.pc[t] \in {"lock", "spin"}
        /\ \E s \in {"lock", "spin", "in"} : h'.pc = [h.pc EXCEPT ![t] = s]
    BY <1>1, <1>4, EnterShape, LockRecursive, LockPlain, LockSpins, ContendedShape
       DEF EnterAgain, lock, contendedLock
  <2>2. QED
    BY <1>1, <2>1 DEF SameHand, Freeing, HandInv, ThreadHeapsType
<1>5. CASE HoldTaken(t)
  <2>1. /\ ThreadHeapsType' /\ SameSelf /\ SameData /\ h'.op = h.op /\ h'.p = h.p /\ h'.seen = h.seen
        /\ h'.pc = [h.pc EXCEPT ![t] = "idle"] /\ h'.at = [h.at EXCEPT ![t] = 0]
    BY <1>1, <1>5, HoldShape
  <2>2. QED
    BY <1>1, <2>1 DEF Freeing, ThreadHeapsType
<1>6. CASE ReadHead(t)
  <2>1. /\ ThreadHeapsType' /\ SameSelf /\ SameData /\ h'.at = h.at /\ h'.op = h.op /\ h'.p = h.p
        /\ h'.seen = [h.seen EXCEPT ![t] = h.head[h.at[t]]] /\ h'.pc = [h.pc EXCEPT ![t] = "write"]
        /\ h.pc[t] = "in"
    BY <1>1, <1>6, ReadShape DEF ReadHead
  <2>2. QED
    BY <1>1, <2>1 DEF Freeing, ThreadHeapsType, HandInv
<1>7. CASE Leave(t)
  <2>1. /\ ThreadHeapsType' /\ SameSelf /\ SameData
        /\ h'.pc = [h.pc EXCEPT ![t] = "idle"] /\ h'.p = [h.p EXCEPT ![t] = None]
        /\ h'.seen = [h.seen EXCEPT ![t] = None] /\ h'.at = [h.at EXCEPT ![t] = 0]
        /\ h'.op = [h.op EXCEPT ![t] = "malloc"]
    BY <1>1, <1>7, LeavePlain, LeaveCounts, LeaveReleases
  <2>2. QED
    BY <1>1, <2>1 DEF Freeing, ThreadHeapsType
<1>8. CASE TakeHead(t) /\ h.seen[t] = None /\ h.super = {}
  <2>1. /\ ThreadHeapsType' /\ SameSelf /\ SameData /\ SameHand
        /\ h'.pc = [h.pc EXCEPT ![t] = "out"] /\ h.pc[t] = "write"
    BY <1>1, <1>8, NothingShape DEF TakeHead
  <2>2. QED
    BY <1>1, <2>1 DEF Freeing, ThreadHeapsType, HandInv, SameHand
<1>9. QED
  BY <1>3, <1>4, <1>5, <1>6, <1>7, <1>8

\* Every step of the shared heaps keeps the invariant.
LEMMA ThreadHeapsKept ==
  ASSUME ThreadHeapsInv, ThreadHeapsNext
  PROVE  ThreadHeapsInv'
<1>1. ThreadHeapsType /\ LockInv /\ HandInv /\ DataInv
  BY DEF ThreadHeapsInv
<1>2. CASE CreateThread
  BY <1>2, LockKeptCreate
<1>3. ASSUME NEW t \in Workers, malloc(t)
      PROVE  ThreadHeapsInv'
  <2>1. Chosen(t) \in PerThread \/ Chosen(t) < 0
    BY <1>1, CallGoes
  <2>2. PICK i : i = Chosen(t)
    OBVIOUS
  <2>3. Call(t, "malloc", i, None) /\ (h.kind = "locked" => i = 0)
    BY <1>3, <2>2 DEF malloc, Chosen
  <2>4. QED
    BY <2>1, <2>2, <2>3, CallKept
<1>4. ASSUME NEW t \in Workers, free(t)
      PROVE  ThreadHeapsInv'
  BY <1>4, FreeKept
<1>5. ASSUME NEW t \in Workers, HoldHeap(t)
      PROVE  ThreadHeapsInv'
  BY <1>5, CallKept, SharedFacts DEF HoldHeap
<1>6. ASSUME NEW t \in Workers,
             LetGo(t) \/ EnterAgain(t) \/ lock(t) \/ contendedLock(t) \/ HoldTaken(t) \/ ReadHead(t)
               \/ Leave(t)
      PROVE  ThreadHeapsInv'
  <2>1. LockInv'
    BY <1>6, LockKeptLetGo, LockKeptAgain, LockKeptEnter, LockKeptRest, LockKeptHold, LockKeptLeave
  <2>2. QED
    BY <1>6, <2>1, QuietKept DEF ThreadHeapsInv
<1>7. ASSUME NEW t \in Workers, TakeHead(t)
      PROVE  ThreadHeapsInv'
  <2>1. LockInv'
    BY <1>7, LockKeptRest
  <2>2. CASE h.seen[t] # None
    BY <1>1, <1>7, <2>1, <2>2, Pops, PopShape DEF ThreadHeapsInv
  <2>3. CASE h.seen[t] = None /\ h.super # {}
    BY <1>1, <1>7, <2>1, <2>3, TakesBelow, BelowShape DEF ThreadHeapsInv
  <2>4. CASE h.seen[t] = None /\ h.super = {}
    BY <1>7, <2>1, <2>4, QuietKept DEF ThreadHeapsInv
  <2>5. QED
    BY <2>2, <2>3, <2>4
<1>8. ASSUME NEW t \in Workers, PutHead(t)
      PROVE  ThreadHeapsInv'
  <2>1. h.p[t] \in Shared
    BY <1>1, <1>8 DEF PutHead, HandInv, Freeing
  <2>2. ThreadHeapsType' /\ LockInv' /\ HandInv' /\ DataInv'
    BY <1>1, <1>8, <2>1, PutShape, LockKeptRest, Puts
  <2>3. QED
    BY <2>2 DEF ThreadHeapsInv
<1>9. QED
  BY <1>2, <1>3, <1>4, <1>5, <1>6, <1>7, <1>8 DEF ThreadHeapsNext

-----------------------------------------------------------------------------
(* SourceInternalHeap *)

\* The quotient rounded up covers the number.
LEMMA RoundedUp ==
  ASSUME NEW a \in Nat, NEW b \in Nat \ {0}
  PROVE  /\ (a + b - 1) \div b \in Nat
         /\ ((a + b - 1) \div b) * b >= a
<1>1. ASSUME NEW x \in Nat
      PROVE  x \div b \in Int /\ x \div b >= 0 /\ x < b * (x \div b) + b
  OBVIOUS
<1>2. a + b - 1 \in Nat
  OBVIOUS
<1> DEFINE q == (a + b - 1) \div b
<1>3. q \in Nat /\ a + b - 1 < b * q + b
  BY <1>1, <1>2
<1> HIDE DEF q
<1>4. b * q \in Int /\ b * q = q * b
  BY <1>3
<1>5. QED
  BY <1>3, <1>4 DEF q

SourceType ==
  h \in [kind : {"source"}, mutex : {0, 1}, position : Nat, remaining : Nat, dead : BOOLEAN,
         given : SUBSET [a : Nat, n : Nat, sz : Nat], pc : [Workers -> Stages],
         want : [Workers -> Nat], seen : [Workers -> Nat]]

PagesGiven(g) == g.a .. g.a + g.n - 1

\* One thread is inside; what it read still holds; the pages handed out are those
\* before the position, each once, and what is left comes after it.
SourceInv ==
  /\ SourceType
  /\ \A t, u \in Workers : Inside(t) /\ Inside(u) => t = u
  /\ \A t \in Workers : Inside(t) => h.mutex = 1
  /\ \A t \in Workers : h.pc[t] = "write" =>
       h.seen[t] = h.position /\ PagesFor(h.want[t]) <= h.remaining
  /\ h.position + h.remaining = SourcePages
  /\ \A g \in h.given : g.n * SourcePage >= g.sz
  /\ \A x \in Int : x \in 0 .. h.position - 1 <=> \E g \in h.given : x \in PagesGiven(g)
  /\ \A g, k \in h.given : g # k => PagesGiven(g) \cap PagesGiven(k) = {}

\* A step that hands out nothing
LEMMA SourceStays ==
  ASSUME SourceInv, SourceType', h'.position = h.position, h'.remaining = h.remaining,
         h'.given = h.given,
         \A u, v \in Workers : Inside(u)' /\ Inside(v)' => u = v,
         \A u \in Workers : Inside(u)' => h'.mutex = 1,
         \A u \in Workers : h'.pc[u] = "write" =>
           h'.seen[u] = h.position /\ PagesFor(h'.want[u]) <= h.remaining
  PROVE  SourceInv'
BY DEF SourceInv, PagesGiven, PagesFor

LEMMA PagesCover ==
  ASSUME NEW sz \in Nat
  PROVE  PagesFor(sz) \in Nat /\ PagesFor(sz) * SourcePage >= sz
BY SharedFacts, RoundedUp DEF PagesFor

LEMMA SourceKept ==
  ASSUME SourceInv, SourceNext
  PROVE  SourceInv'
<1>1. SourceType
  BY DEF SourceInv
<1>2. ASSUME NEW t \in Workers, NEW sz \in SourceAsks, SourceMalloc(t, sz)
      PROVE  SourceInv'
  <2> DEFINE new_pc == [h.pc EXCEPT ![t] = "lock"]
             new_want == [h.want EXCEPT ![t] = sz]
  <2>1. h' = [[h EXCEPT !.pc = new_pc] EXCEPT !.want = new_want] /\ h.pc[t] = "idle"
    BY <1>1, <1>2 DEF SourceMalloc, SourceType
  <2>2. new_pc \in [Workers -> Stages] /\ new_want \in [Workers -> Nat]
    BY <1>1, SharedFacts DEF SourceType, Stages
  <2> HIDE DEF new_pc, new_want
  <2>3. SourceType'
    BY <1>1, <2>1, <2>2 DEF SourceType
  <2>4. /\ h'.pc = new_pc /\ h'.want = new_want /\ h'.seen = h.seen /\ h'.mutex = h.mutex
        /\ h'.position = h.position /\ h'.remaining = h.remaining /\ h'.given = h.given
    BY <1>1, <2>1 DEF SourceType
  <2>5. /\ \A u \in Workers : u # t => h'.pc[u] = h.pc[u] /\ h'.want[u] = h.want[u]
        /\ h'.pc[t] = "lock"
    BY <1>1, <2>4 DEF SourceType, new_pc, new_want
  <2>6. \A u \in Workers : Inside(u)' => Inside(u) /\ u # t
    BY <2>5 DEF Inside
  <2>7. QED
    BY <2>3, <2>4, <2>5, <2>6, SourceStays DEF SourceInv
<1>3. ASSUME NEW t \in Workers, SourceLock(t)
      PROVE  SourceInv'
  <2> DEFINE new_pc == [h.pc EXCEPT ![t] = "in"]
  <2>1. h' = [[h EXCEPT !.mutex = 1] EXCEPT !.pc = new_pc] /\ h.pc[t] = "lock" /\ h.mutex = 0
    BY <1>1, <1>3 DEF SourceLock, SourceType
  <2>2. new_pc \in [Workers -> Stages]
    BY <1>1 DEF SourceType, Stages
  <2> HIDE DEF new_pc
  <2>3. SourceType'
    BY <1>1, <2>1, <2>2 DEF SourceType
  <2>4. /\ h'.pc = new_pc /\ h'.want = h.want /\ h'.seen = h.seen /\ h'.mutex = 1
        /\ h'.position = h.position /\ h'.remaining = h.remaining /\ h'.given = h.given
    BY <1>1, <2>1 DEF SourceType
  <2>5. (\A u \in Workers : u # t => h'.pc[u] = h.pc[u]) /\ h'.pc[t] = "in"
    BY <1>1, <2>4 DEF SourceType, new_pc
  <2>6. \A u \in Workers : ~Inside(u)
    BY <2>1 DEF SourceInv
  <2>7. \A u \in Workers : Inside(u)' => u = t
    BY <2>5, <2>6 DEF Inside
  <2>8. QED
    BY <2>3, <2>4, <2>5, <2>7, SourceStays DEF SourceInv
<1>4. ASSUME NEW t \in Workers, SourceRead(t), h.remaining < PagesFor(h.want[t])
      PROVE  SourceInv'
  <2>1. h' = [h EXCEPT !.dead = TRUE]
    BY <1>4 DEF SourceRead
  <2>2. /\ SourceType' /\ h'.pc = h.pc /\ h'.want = h.want /\ h'.seen = h.seen /\ h'.mutex = h.mutex
        /\ h'.position = h.position /\ h'.remaining = h.remaining /\ h'.given = h.given
    BY <1>1, <2>1 DEF SourceType
  <2>3. \A u \in Workers : Inside(u)' => Inside(u)
    BY <2>2 DEF Inside
  <2>4. QED
    BY <2>2, <2>3, SourceStays DEF SourceInv
<1>5. ASSUME NEW t \in Workers, SourceRead(t), ~ (h.remaining < PagesFor(h.want[t]))
      PROVE  SourceInv'
  <2> DEFINE new_pc == [h.pc EXCEPT ![t] = "write"]
             new_seen == [h.seen EXCEPT ![t] = h.position]
  <2>1. h' = [[h EXCEPT !.seen = new_seen] EXCEPT !.pc = new_pc] /\ h.pc[t] = "in"
    BY <1>1, <1>5 DEF SourceRead, SourceType
  <2>2. new_pc \in [Workers -> Stages] /\ new_seen \in [Workers -> Nat]
    BY <1>1 DEF SourceType, Stages
  <2> HIDE DEF new_pc, new_seen
  <2>3. SourceType'
    BY <1>1, <2>1, <2>2 DEF SourceType
  <2>4. /\ h'.pc = new_pc /\ h'.want = h.want /\ h'.seen = new_seen /\ h'.mutex = h.mutex
        /\ h'.position = h.position /\ h'.remaining = h.remaining /\ h'.given = h.given
    BY <1>1, <2>1 DEF SourceType
  <2>5. /\ \A u \in Workers : u # t => h'.pc[u] = h.pc[u] /\ h'.seen[u] = h.seen[u]
        /\ h'.pc[t] = "write" /\ h'.seen[t] = h.position
    BY <1>1, <2>4 DEF SourceType, new_pc, new_seen
  <2>6. \A u \in Workers : Inside(u)' => Inside(u)
    BY <2>1, <2>5 DEF Inside
  <2>7. PagesFor(h.want[t]) <= h.remaining
    BY <1>1, <1>5, PagesCover DEF SourceType
  <2>8. \A u \in Workers : h'.pc[u] = "write" =>
          h'.seen[u] = h.position /\ PagesFor(h'.want[u]) <= h.remaining
    BY <2>4, <2>5, <2>7 DEF SourceInv
  <2>9. QED
    BY <2>3, <2>4, <2>6, <2>8, SourceStays DEF SourceInv
<1>6. ASSUME NEW t \in Workers, SourceBump(t)
      PROVE  SourceInv'
  <2>0. PICK n : n = PagesFor(h.want[t])
    OBVIOUS
  <2>1. PICK new : new = [a |-> h.position, n |-> n, sz |-> h.want[t]]
    OBVIOUS
  <2> DEFINE new_pc == [h.pc EXCEPT ![t] = "out"]
             new_given == h.given \cup {new}
             new_position == h.position + n
             new_remaining == h.remaining - n
  <2>2. /\ h.pc[t] = "write" /\ h.seen[t] = h.position /\ n <= h.remaining
        /\ n \in Nat /\ n * SourcePage >= h.want[t] /\ h.want[t] \in Nat
        /\ h.position \in Nat /\ h.remaining \in Nat
    BY <1>1, <1>6, <2>0, PagesCover DEF SourceBump, SourceInv, SourceType
  <2>3. h' = [[[[h EXCEPT !.remaining = new_remaining] EXCEPT !.position = new_position]
                EXCEPT !.pc = new_pc] EXCEPT !.given = new_given]
    BY <1>1, <1>6, <2>0, <2>1, <2>2 DEF SourceBump, SourceType
  <2>4. /\ new_pc \in [Workers -> Stages] /\ new_given \in SUBSET [a : Nat, n : Nat, sz : Nat]
        /\ new_position \in Nat /\ new_remaining \in Nat
    BY <1>1, <2>1, <2>2 DEF SourceType, Stages
  <2> HIDE DEF new_pc, new_given, new_position, new_remaining
  <2>5. SourceType'
    BY <1>1, <2>3, <2>4 DEF SourceType
  <2>6. /\ h'.pc = new_pc /\ h'.want = h.want /\ h'.seen = h.seen /\ h'.mutex = h.mutex
        /\ h'.position = new_position /\ h'.remaining = new_remaining /\ h'.given = new_given
    BY <1>1, <2>3 DEF SourceType
  <2>7. (\A u \in Workers : u # t => h'.pc[u] = h.pc[u]) /\ h'.pc[t] = "out"
    BY <1>1, <2>6 DEF SourceType, new_pc
  <2>8. Inside(t) /\ \A u \in Workers : Inside(u)' => Inside(u)
    BY <2>2, <2>7 DEF Inside
  <2>9. \A u \in Workers : h'.pc[u] # "write"
    BY <2>7, <2>8 DEF SourceInv, Inside
  <2>10. h'.position + h'.remaining = SourcePages
    BY <2>2, <2>6 DEF SourceInv, new_position, new_remaining
  <2>11. new.a = h.position /\ new.n = n /\ new.sz = h.want[t]
    BY <2>1
  <2>12. PagesGiven(new) = h.position .. h.position + n - 1
    BY <2>11 DEF PagesGiven
  <2>13. h'.given = h.given \cup {new} /\ h'.position = h.position + n
    BY <2>6 DEF new_given, new_position
  <2>14. \A g \in h'.given : g.n * SourcePage >= g.sz
    BY <2>2, <2>11, <2>13 DEF SourceInv
  <2>15. \A g \in h.given : PagesGiven(g) \subseteq 0 .. h.position - 1
    <3> SUFFICES ASSUME NEW g \in h.given, NEW x \in PagesGiven(g) PROVE x \in 0 .. h.position - 1
      OBVIOUS
    <3>1. x \in Int
      BY <1>1 DEF PagesGiven, SourceType
    <3>2. QED
      BY <3>1 DEF SourceInv
  <2>16. \A x \in Int : x \in 0 .. h'.position - 1 <=> \E g \in h'.given : x \in PagesGiven(g)
    <3> SUFFICES ASSUME NEW x \in Int
                 PROVE  x \in 0 .. h'.position - 1 <=> \E g \in h'.given : x \in PagesGiven(g)
      OBVIOUS
    <3>1. x \in 0 .. h'.position - 1 <=> x \in 0 .. h.position - 1 \/ x \in PagesGiven(new)
      BY <2>2, <2>12, <2>13
    <3>2. QED
      BY <2>13, <3>1 DEF SourceInv
  <2>17. \A g \in h.given : PagesGiven(g) \cap PagesGiven(new) = {}
    BY <2>2, <2>12, <2>15
  <2>18. \A g, k \in h'.given : g # k => PagesGiven(g) \cap PagesGiven(k) = {}
    BY <2>13, <2>17 DEF SourceInv
  <2>19. \A u, v \in Workers : Inside(u)' /\ Inside(v)' => u = v
    BY <2>8 DEF SourceInv
  <2>20. \A u \in Workers : Inside(u)' => h'.mutex = 1
    BY <2>6, <2>8 DEF SourceInv
  <2>21. QED
    <3>1. \A g : PagesGiven(g)' = PagesGiven(g)
      BY DEF PagesGiven
    <3>2. QED
      BY <2>5, <2>9, <2>10, <2>14, <2>16, <2>18, <2>19, <2>20 DEF SourceInv, PagesGiven
<1>7. ASSUME NEW t \in Workers, SourceUnlock(t)
      PROVE  SourceInv'
  <2> DEFINE new_pc == [h.pc EXCEPT ![t] = "idle"]
             new_want == [h.want EXCEPT ![t] = 0]
             new_seen == [h.seen EXCEPT ![t] = 0]
  <2>1. /\ h' = [[[[h EXCEPT !.mutex = 0] EXCEPT !.pc = new_pc] EXCEPT !.want = new_want]
                  EXCEPT !.seen = new_seen]
        /\ h.pc[t] = "out"
    BY <1>1, <1>7 DEF SourceUnlock, SourceType
  <2>2. new_pc \in [Workers -> Stages] /\ new_want \in [Workers -> Nat] /\ new_seen \in [Workers -> Nat]
    BY <1>1 DEF SourceType, Stages
  <2> HIDE DEF new_pc, new_want, new_seen
  <2>3. SourceType'
    BY <1>1, <2>1, <2>2 DEF SourceType
  <2>4. /\ h'.pc = new_pc
        /\ h'.position = h.position /\ h'.remaining = h.remaining /\ h'.given = h.given
    BY <1>1, <2>1 DEF SourceType
  <2>5. (\A u \in Workers : u # t => h'.pc[u] = h.pc[u]) /\ h'.pc[t] = "idle"
    BY <1>1, <2>4 DEF SourceType, new_pc
  <2>6. Inside(t) /\ \A u \in Workers : Inside(u)' => Inside(u) /\ u # t
    BY <2>1, <2>5 DEF Inside
  <2>7. \A u \in Workers : ~Inside(u)'
    BY <2>6 DEF SourceInv
  <2>8. QED
    BY <2>3, <2>4, <2>7, SourceStays DEF SourceInv, Inside
<1>8. QED
  BY <1>2, <1>3, <1>4, <1>5, <1>6, <1>7 DEF SourceNext

LEMMA SourceStarts == SourceInit => SourceInv
<1> SUFFICES ASSUME SourceInit PROVE SourceInv
  OBVIOUS
<1>1. SourceType
  BY SharedFacts DEF SourceInit, SourceType, Stages
<1>2. /\ \A t \in Workers : h.pc[t] = "idle"
      /\ h.position = 0 /\ h.remaining = SourcePages /\ h.given = {}
  BY DEF SourceInit
<1>3. 0 .. h.position - 1 = {}
  BY <1>2
<1>4. QED
  BY <1>1, <1>2, <1>3, SharedFacts DEF SourceInv, Inside

LEMMA SourceHolds == SourceInv => SourceWhole
<1> SUFFICES ASSUME SourceInv PROVE SourceWhole
  OBVIOUS
<1>1. SourceType /\ h.position \in Nat /\ h.remaining \in Nat /\ h.position + h.remaining = SourcePages
  BY DEF SourceInv, SourceType
<1>2. \A g \in h.given : PagesGiven(g) \subseteq 0 .. h.position - 1
  <2> SUFFICES ASSUME NEW g \in h.given, NEW x \in PagesGiven(g) PROVE x \in 0 .. h.position - 1
    OBVIOUS
  <2>1. x \in Int
    BY <1>1 DEF PagesGiven, SourceType
  <2>2. QED
    BY <2>1 DEF SourceInv
<1>3. UNION {PagesGiven(g) : g \in h.given} = 0 .. h.position - 1
  BY <1>2 DEF SourceInv
<1>4. Cardinality(0 .. h.position - 1) = h.position
  BY <1>1, FS_Interval
<1>5. h.remaining = SourcePages - Cardinality(UNION {PagesGiven(g) : g \in h.given})
  <2>1. h.remaining = SourcePages - h.position
    BY <1>1, SharedFacts
  <2>2. QED
    BY <1>3, <1>4, <2>1
<1>6. \A g \in h.given : PagesGiven(g) \subseteq 0 .. SourcePages - 1 /\ g.n * SourcePage >= g.sz
  <2>1. \A x \in 0 .. h.position - 1 : x \in 0 .. SourcePages - 1
    BY <1>1
  <2>2. QED
    BY <1>2, <2>1 DEF SourceInv
<1>7. QED
  BY <1>5, <1>6 DEF SourceWhole, SourceInv, PagesGiven

-----------------------------------------------------------------------------
(* What the invariants say *)

\* No list is longer than there are objects.
LEMMA StackBound ==
  ASSUME ThreadHeapsType, NEW n, NEW st, Stacked(n, st), NEW i \in PerThread
  PROVE  n[i] \in Nat /\ n[i] <= NumShared
<1> DEFINE f == [k \in 1 .. n[i] |-> st[i][k]]
<1>1. n[i] \in Nat
  BY DEF Stacked
<1>2. f \in [1 .. n[i] -> Shared]
  BY DEF Stacked
<1>3. \A k, l \in 1 .. n[i] : f[k] = f[l] => k = l
  BY <1>1 DEF Stacked
<1>4. f \in Injection(1 .. n[i], Shared)
  BY <1>2, <1>3 DEF Injection, IsInjective
<1>5. /\ IsFiniteSet(1 .. n[i]) /\ Cardinality(1 .. n[i]) = n[i]
      /\ IsFiniteSet(Shared) /\ Cardinality(Shared) = NumShared
  <2>1. \A m \in Nat : IsFiniteSet(1 .. m) /\ Cardinality(1 .. m) = m
    BY FS_Interval
  <2>2. QED
    BY <1>1, <2>1, SharedFacts DEF Shared
<1> HIDE DEF f
<1>6. QED
  BY <1>1, <1>4, <1>5, FS_Injection

\* The list of a heap, from its head, is its stack from the top.
LEMMA ChainIs ==
  ASSUME ThreadHeapsType, NEW n, NEW st, Stacked(n, st), NEW i \in PerThread
  PROVE  \A k \in 1 .. NumShared + 1 :
           Chain(i)[k] = IF k <= n[i] THEN st[i][n[i] + 1 - k] ELSE None
<1> DEFINE D == 1 .. NumShared + 1
           Body(f, k) == IF k = 1 THEN h.head[i]
                         ELSE IF f[k - 1] = None THEN None ELSE h.next[f[k - 1]]
           g == [k \in D |-> IF k <= n[i] THEN st[i][n[i] + 1 - k] ELSE None]
<1>1. /\ n[i] \in Nat /\ st[i][0] = None /\ h.head[i] = st[i][n[i]]
      /\ \A k \in 1 .. n[i] : st[i][k] \in Shared /\ st[i][k] # None /\ h.next[st[i][k]] = st[i][k - 1]
  BY SharedFacts DEF Stacked
<1> DEFINE Fits(f) == f = [k \in D |-> Body(f, k)]
<1>2. Chain(i) = CHOOSE f : Fits(f)
  BY DEF Chain
<1>3. ASSUME NEW k \in D
      PROVE  g[k] = Body(g, k)
  <2>1. CASE k = 1
    <3>1. n[i] = 0 \/ (k <= n[i] /\ n[i] + 1 - k = n[i])
      BY <1>1, <2>1
    <3>2. QED
      BY <1>1, <2>1, <3>1
  <2>2. CASE k # 1
    <3>1. k - 1 \in D /\ k \in Nat /\ k > 1
      BY <2>2, SharedFacts
    <3>2. g[k - 1] = IF k - 1 <= n[i] THEN st[i][n[i] + 1 - (k - 1)] ELSE None
      BY <3>1
    <3>3. CASE k - 1 > n[i]
      <4>1. g[k - 1] = None /\ ~ (k <= n[i])
        BY <1>1, <3>1, <3>2, <3>3
      <4>2. QED
        BY <2>2, <4>1
    <3>4. CASE k - 1 <= n[i]
      <4> DEFINE j == n[i] + 1 - (k - 1)
      <4>1. j \in 1 .. n[i] /\ j - 1 = n[i] + 1 - k /\ g[k - 1] = st[i][j]
        BY <1>1, <3>1, <3>2, <3>4
      <4>2. Body(g, k) = st[i][n[i] + 1 - k]
        BY <1>1, <2>2, <4>1
      <4>3. k <= n[i] \/ n[i] + 1 - k = 0
        BY <1>1, <3>1, <3>4
      <4>4. QED
        BY <1>1, <4>2, <4>3
    <3>5. QED
      BY <1>1, <3>1, <3>3, <3>4
  <2>3. QED
    BY <2>1, <2>2
<1>4. g = [k \in D |-> Body(g, k)]
  BY <1>3
<1> HIDE DEF g
<1>5. Chain(i) = [k \in D |-> Body(Chain(i), k)]
  <2>1. Fits(g)
    BY <1>4
  <2>2. Fits(Chain(i))
    <3> HIDE DEF Fits
    <3>1. QED
      BY <1>2, <2>1
  <2>3. QED
    BY <2>2
<1> DEFINE S == {m \in Nat : m + 1 \in D => Chain(i)[m + 1] = g[m + 1]}
<1>6. 0 \in S
  <2>1. 1 \in D
    BY SharedFacts
  <2>2. Chain(i)[1] = Body(Chain(i), 1) /\ g[1] = Body(g, 1)
    BY <1>3, <1>5, <2>1
  <2>3. QED
    BY <2>2
<1>7. ASSUME NEW m \in Nat, m \in S
      PROVE  m + 1 \in S
  <2> SUFFICES ASSUME (m + 1) + 1 \in D
               PROVE  Chain(i)[(m + 1) + 1] = g[(m + 1) + 1]
    OBVIOUS
  <2>1. m + 1 \in D /\ (m + 1) + 1 # 1 /\ ((m + 1) + 1) - 1 = m + 1
    BY SharedFacts
  <2>2. Chain(i)[m + 1] = g[m + 1]
    BY <1>7, <2>1
  <2>3. /\ Chain(i)[(m + 1) + 1] = Body(Chain(i), (m + 1) + 1)
        /\ g[(m + 1) + 1] = Body(g, (m + 1) + 1)
    BY <1>3, <1>5
  <2>4. QED
    BY <2>1, <2>2, <2>3
<1>8. \A m \in Nat : m \in S
  <2> HIDE DEF S
  <2>1. QED
    BY <1>6, <1>7, Induction
<1>9. ASSUME NEW k \in D
      PROVE  Chain(i)[k] = g[k]
  <2>1. k - 1 \in Nat /\ (k - 1) + 1 = k
    BY SharedFacts
  <2>2. k - 1 \in S
    BY <1>8, <2>1
  <2>3. QED
    BY <2>1, <2>2
<1>10. QED
  BY <1>9 DEF g

LEMMA OnHeapIs ==
  ASSUME ThreadHeapsType, NEW n, NEW st, Stacked(n, st), NEW i \in PerThread
  PROVE  /\ Chain(i)[NumShared + 1] = None
         /\ \A o \in Shared : o \in OnHeap(i) <=> \E k \in 1 .. n[i] : st[i][k] = o
<1>1. n[i] \in Nat /\ n[i] <= NumShared /\ NumShared \in Nat
  BY StackBound, SharedFacts
<1>2. \A k \in 1 .. NumShared + 1 :
        Chain(i)[k] = IF k <= n[i] THEN st[i][n[i] + 1 - k] ELSE None
  BY ChainIs
<1>3. Chain(i)[NumShared + 1] = None
  BY <1>1, <1>2
<1>4. ASSUME NEW o \in Shared
      PROVE  o \in OnHeap(i) <=> \E k \in 1 .. n[i] : st[i][k] = o
  <2>1. ASSUME o \in OnHeap(i)
        PROVE  \E k \in 1 .. n[i] : st[i][k] = o
    <3>1. PICK k \in 1 .. NumShared : Chain(i)[k] = o
      BY <2>1 DEF OnHeap
    <3>2. o # None
      BY SharedFacts
    <3>3. k \in 1 .. NumShared + 1
      BY <1>1
    <3>4. k <= n[i] /\ o = st[i][n[i] + 1 - k]
      BY <1>2, <3>1, <3>2, <3>3
    <3>5. n[i] + 1 - k \in 1 .. n[i]
      BY <1>1, <3>4
    <3>6. QED
      BY <3>4, <3>5
  <2>2. ASSUME NEW k \in 1 .. n[i], st[i][k] = o
        PROVE  o \in OnHeap(i)
    <3> DEFINE j == n[i] + 1 - k
    <3>1. j \in 1 .. NumShared /\ j \in 1 .. NumShared + 1 /\ j <= n[i] /\ n[i] + 1 - j = k
      BY <1>1
    <3> HIDE DEF j
    <3>2. Chain(i)[j] = o /\ o # None
      BY <1>2, <2>2, <3>1, SharedFacts
    <3>3. QED
      BY <3>1, <3>2 DEF OnHeap
  <2>3. QED
    BY <2>1, <2>2
<1>5. QED
  BY <1>3, <1>4

LEMMA ThreadHeapsHolds == ThreadHeapsInv => ThreadHeapsWhole
<1> SUFFICES ASSUME ThreadHeapsInv PROVE ThreadHeapsWhole
  OBVIOUS
<1>1. ThreadHeapsType /\ LockInv
  BY DEF ThreadHeapsInv
<1>2. PICK n, st : Stacked(n, st)
  BY DEF ThreadHeapsInv, DataInv
<1>3. \A i \in PerThread, t \in Workers : t \in InCritical(i) <=> Within(t, i)
  BY DEF InCritical, Within, Inside
<1>4. \A i \in PerThread : InCritical(i) \subseteq Workers
  BY DEF InCritical
<1>5. ASSUME NEW i \in PerThread
      PROVE  Cardinality(InCritical(i)) <= 1 /\ (h.mutex[i] = 1) = (InCritical(i) # {})
  <2>1. \A x, y \in InCritical(i) : x = y
    BY <1>1, <1>3, <1>4 DEF LockInv
  <2>2. Cardinality(InCritical(i)) = IF InCritical(i) = {} THEN 0 ELSE 1
    BY <2>1, OneAtMost
  <2>3. h.mutex[i] = 1 <=> InCritical(i) # {}
    BY <1>1, <1>3, <1>4 DEF LockInv
  <2>4. QED
    BY <2>2, <2>3
<1>6. h.recursive => \A t \in InCritical(0) :
        h.tid[0] = CPUThreadId(t) /\ h.count[0] = h.held[t] + (IF h.pc[t] \in {"in", "write", "out"} THEN 1 ELSE 0)
  BY <1>1, <1>3, <1>4, SharedFacts DEF LockInv, Inside
<1>7. \A i \in PerThread : Chain(i)[NumShared + 1] = None
  BY <1>1, <1>2, OnHeapIs
<1>8. ASSUME NEW o \in Shared
      PROVE  LET on == {i \in PerThread : o \in OnHeap(i)} IN
             /\ Cardinality(on) + (IF o \in h.super THEN 1 ELSE 0) + (IF h.owner[o] # Nobody THEN 1 ELSE 0) = 1
             /\ h.kind = "pho" => \A i \in on : h.origin[o] = i
  <2> DEFINE on == {i \in PerThread : o \in OnHeap(i)}
  <2>1. \A i \in PerThread : i \in on <=> \E k \in 1 .. n[i] : st[i][k] = o
    BY <1>1, <1>2, OnHeapIs
  <2>2. on \subseteq PerThread
    OBVIOUS
  <2> HIDE DEF on
  <2>3. \A i, j \in on : i = j
    BY <1>2, <2>1, <2>2 DEF Stacked
  <2>4. Cardinality(on) = IF on = {} THEN 0 ELSE 1
    BY <2>3, OneAtMost
  <2>5. \A i \in on : h.owner[o] = Nobody /\ o \notin h.super /\ (h.kind = "pho" => h.origin[o] = i)
    BY <1>2, <2>1, <2>2 DEF Stacked
  <2>6. o \in h.super => h.owner[o] = Nobody
    BY <1>2 DEF Stacked
  <2>7. h.owner[o] = Nobody /\ o \notin h.super => on # {}
    <3> SUFFICES ASSUME h.owner[o] = Nobody, o \notin h.super PROVE on # {}
      OBVIOUS
    <3>1. PICK i \in PerThread : \E k \in 1 .. n[i] : st[i][k] = o
      BY <1>2 DEF Stacked
    <3>2. QED
      BY <2>1, <3>1
  <2>8. Cardinality(on) + (IF o \in h.super THEN 1 ELSE 0) + (IF h.owner[o] # Nobody THEN 1 ELSE 0) = 1
    <3>1. CASE on # {}
      <4>1. Cardinality(on) = 1 /\ o \notin h.super /\ h.owner[o] = Nobody
        BY <2>4, <2>5, <3>1
      <4>2. QED
        BY <4>1
    <3>2. CASE on = {} /\ o \in h.super
      <4>1. Cardinality(on) = 0 /\ h.owner[o] = Nobody
        BY <2>4, <2>6, <3>2
      <4>2. QED
        BY <3>2, <4>1
    <3>3. CASE on = {} /\ o \notin h.super
      <4>1. Cardinality(on) = 0 /\ h.owner[o] # Nobody
        BY <2>4, <2>7, <3>3
      <4>2. QED
        BY <3>3, <4>1
    <3>4. QED
      BY <3>1, <3>2, <3>3
  <2>9. QED
    BY <2>5, <2>8 DEF on
<1>9. QED
  BY <1>5, <1>6, <1>7, <1>8 DEF ThreadHeapsWhole

SharedHeapsInv ==
  \/ h.kind # "source" /\ h.kind \in ThreadKinds /\ ThreadHeapsInv
  \/ h.kind = "source" /\ SourceInv

\* However the threads' steps are interleaved, the locks of the heaps they share
\* exclude (spinlock.h:80, recursivelock.h:51), no object of a shared free list is
\* lost or given to two, free of PHOThreadHeap goes back to the heap of the object
\* (threadheap.h:100), and no page of SourceInternalHeap is handed out twice, for
\* any threads, handles, heaps, objects and pages.
THEOREM SharedHeapsSafe == SharedHeapsSpec => []ThreadHeapsSafe
<1>1. SharedHeapsInit => SharedHeapsInv
  <2>1. ThreadHeapsInv => h.kind # "source" /\ h.kind \in ThreadKinds
    BY DEF ThreadHeapsInv, ThreadHeapsType, ThreadKinds
  <2>2. SourceInv => h.kind = "source"
    BY DEF SourceInv, SourceType
  <2>3. QED
    BY <2>1, <2>2, ThreadHeapsStarts, SourceStarts DEF SharedHeapsInit, SharedHeapsInv
<1>2. SharedHeapsInv /\ [SharedHeapsNext]_h => SharedHeapsInv'
  <2> SUFFICES ASSUME SharedHeapsInv, [SharedHeapsNext]_h PROVE SharedHeapsInv'
    OBVIOUS
  <2>1. ThreadHeapsInv' => h'.kind # "source" /\ h'.kind \in ThreadKinds
    BY DEF ThreadHeapsInv, ThreadHeapsType, ThreadKinds
  <2>2. SourceInv' => h'.kind = "source"
    BY DEF SourceInv, SourceType
  <2>3. CASE h.kind # "source" /\ ThreadHeapsNext
    BY <2>1, <2>3, ThreadHeapsKept DEF SharedHeapsInv
  <2>4. CASE h.kind = "source" /\ SourceNext
    BY <2>2, <2>4, SourceKept DEF SharedHeapsInv
  <2>5. CASE h' = h
    <3>1. CASE ThreadHeapsInv /\ h.kind # "source"
      <4>1. ThreadHeapsType' /\ LockInv' /\ HandInv'
        BY <2>5, <3>1 DEF ThreadHeapsInv, ThreadHeapsType, LockInv, HandInv,
           Within, Inside, Freeing, HeapNumber, CPUThreadId
      <4>2. DataInv'
        BY <2>5, <3>1, DataStays DEF ThreadHeapsInv, SameData
      <4>3. QED
        BY <2>1, <4>1, <4>2 DEF SharedHeapsInv, ThreadHeapsInv
    <3>2. CASE SourceInv
      <4>1. SourceInv'
        BY <2>5, <3>2 DEF SourceInv, SourceType, Inside, PagesGiven, PagesFor
      <4>2. QED
        BY <2>2, <4>1 DEF SharedHeapsInv
    <3>3. QED
      BY <3>1, <3>2 DEF SharedHeapsInv
  <2>6. QED
    BY <2>3, <2>4, <2>5 DEF SharedHeapsNext
<1>3. SharedHeapsInv => ThreadHeapsSafe
  BY ThreadHeapsHolds, SourceHolds DEF SharedHeapsInv, ThreadHeapsSafe, ThreadKinds
<1>4. QED
  BY <1>1, <1>2, <1>3, PTL DEF SharedHeapsSpec

-----------------------------------------------------------------------------
(* Interposition: DoubleTake *)

Targets ==
  {"none", "nothing", "real", "null", "abort", "recorder", "xthread", "xmemory", "tempmalloc"}

Calls ==
  {"none", "dlsym", "pthread_mutex_init", "pthread_cond_timedwait", "write", "xxmalloc",
   "xxrealloc", "xxfree", "xxmalloc_usable_size"}
    \cup SyncGuarded \cup ThreadAlways \cup FileGuarded \cup StreamClosing \cup PlaceGuarded
    \cup StreamGuarded \cup MapGuarded \cup SignalGuarded \cup ExecGuarded \cup Recorded
    \cup Aborting \cup Ignored

DoubleTakeStates ==
  [kind : {"doubletake"}, phase : {"loading", "loaded", "main", "leaving", "over", "dead"},
   funcInitialized : BOOLEAN, initialized : BOOLEAN, resolved : BOOLEAN, inits : Nat,
   epoch : BOOLEAN, unchecked : BOOLEAN, temp : Nat, call : Calls, to : Targets]

DoubleTakeType == h \in DoubleTakeStates

\* Interposed is not inductive: a stream that is opened before the constructor goes
\* to a real function, which is there because whoever sets funcInitialized has
\* resolved the functions.
DoubleTakeInv == DoubleTakeType /\ Interposed /\ (h.funcInitialized => h.resolved)

\* A call changes nothing but what Done writes down and what was set up for it.
LEMMA DoneShape ==
  ASSUME NEW s, NEW name \in Calls, NEW target \in Targets, Done(s, name, target),
         s \in DoubleTakeStates
  PROVE  /\ DoubleTakeType'
         /\ h'.call = name /\ h'.to = target
         /\ h'.funcInitialized = s.funcInitialized /\ h'.initialized = s.initialized
         /\ h'.resolved = s.resolved /\ h'.inits = s.inits
         /\ h'.epoch = s.epoch /\ h'.unchecked = s.unchecked
<1> DEFINE new_phase == IF target \in {"abort", "null"} THEN "dead" ELSE s.phase
<1>1. h' = [[[s EXCEPT !.call = name] EXCEPT !.to = target] EXCEPT !.phase = new_phase]
  BY DEF Done
<1>2. new_phase \in {"loading", "loaded", "main", "leaving", "over", "dead"}
  BY DEF DoubleTakeStates
<1> HIDE DEF new_phase
<1>3. DoubleTakeType'
  BY <1>1, <1>2 DEF DoubleTakeType, DoubleTakeStates
<1>4. QED
  BY <1>1, <1>3 DEF DoubleTakeType, DoubleTakeStates

\* A call that neither sets anything up nor opens a stream
LEMMA CallKeeps ==
  ASSUME DoubleTakeInv, NEW name \in Calls, NEW target \in Targets, Done(h, name, target),
         name \notin StreamGuarded,
         h.epoch /\ target = "real" => name = "write" \/ h.unchecked
  PROVE  DoubleTakeInv'
<1>1. /\ DoubleTakeType'
      /\ h'.call = name /\ h'.to = target
      /\ h'.funcInitialized = h.funcInitialized /\ h'.initialized = h.initialized
      /\ h'.resolved = h.resolved /\ h'.inits = h.inits
      /\ h'.epoch = h.epoch /\ h'.unchecked = h.unchecked
  BY DoneShape DEF DoubleTakeInv, DoubleTakeType
<1>2. QED
  BY <1>1 DEF DoubleTakeInv, Interposed

\* What setting up gives
LEMMA SetUpShape ==
  ASSUME DoubleTakeInv
  PROVE  /\ Initializer(h) \in DoubleTakeStates
         /\ Initializer(h).initialized /\ Initializer(h).inits = 1
         /\ Initializer(h).epoch = h.epoch /\ Initializer(h).unchecked = h.unchecked
         /\ Initializer(h).funcInitialized /\ Initializer(h).resolved
<1> DEFINE s == IF h.funcInitialized THEN h ELSE InitRealFunctions(h)
<1>1. /\ s \in DoubleTakeStates /\ s.initialized = h.initialized /\ s.inits = h.inits /\ s.epoch = h.epoch
      /\ s.unchecked = h.unchecked /\ s.funcInitialized /\ s.resolved
  BY DEF InitRealFunctions, DoubleTakeInv, DoubleTakeType, DoubleTakeStates
<1>2. h.inits = IF h.initialized THEN 1 ELSE 0
  BY DEF DoubleTakeInv, Interposed
<1>3. Initializer(h) = SetUp(s)
  BY DEF Initializer
<1> HIDE DEF s
<1>4. /\ SetUp(s) \in DoubleTakeStates /\ SetUp(s).initialized /\ SetUp(s).inits = 1 /\ SetUp(s).epoch = s.epoch
      /\ SetUp(s).unchecked = s.unchecked /\ SetUp(s).funcInitialized /\ SetUp(s).resolved
  <2>1. CASE s.initialized
    <3>1. SetUp(s) = s
      BY <2>1 DEF SetUp
    <3>2. QED
      BY <1>1, <1>2, <2>1, <3>1
  <2>2. CASE ~ s.initialized
    <3>1. SetUp(s) = [[s EXCEPT !.initialized = TRUE] EXCEPT !.inits = s.inits + 1]
      BY <2>2 DEF SetUp
    <3>2. s.inits = 0
      BY <1>1, <1>2, <2>2
    <3>3. SetUp(s) = [[s EXCEPT !.initialized = TRUE] EXCEPT !.inits = 1]
      BY <3>1, <3>2
    <3> DEFINE t == SetUp(s)
    <3>4. t = [[s EXCEPT !.initialized = TRUE] EXCEPT !.inits = 1]
      BY <3>3
    <3> HIDE DEF t
    <3>5. t \in DoubleTakeStates
      BY <1>1, <3>4 DEF DoubleTakeStates
    <3>6. /\ t.initialized /\ t.inits = 1 /\ t.epoch = s.epoch
          /\ t.unchecked = s.unchecked /\ t.funcInitialized /\ t.resolved
      BY <1>1, <3>4 DEF DoubleTakeStates
    <3>7. QED
      BY <3>5, <3>6 DEF t
  <2>3. QED
    BY <2>1, <2>2
<1>5. QED
  BY <1>1, <1>3, <1>4

LEMMA DoubleTakeKept ==
  ASSUME DoubleTakeInv, DTNext
  PROVE  DoubleTakeInv'
<1>1. h \in DoubleTakeStates /\ Interposed /\ (h.funcInitialized => h.resolved)
  BY DEF DoubleTakeInv, DoubleTakeType
<1>2. Real(h) \in {"real", "null"}
  BY DEF Real
<1>3. \A n \in StreamGuarded : n \in {"fopen", "fopen64"}
  BY DEF StreamGuarded
<1>4. "none" \in Calls /\ "dlsym" \in Calls
  BY DEF Calls
<1>5. CASE Constructor
  <2> DEFINE s == Initializer(h)
  <2>1. /\ s \in DoubleTakeStates /\ s.initialized /\ s.inits = 1 /\ s.epoch = h.epoch
        /\ s.unchecked = h.unchecked /\ s.funcInitialized /\ s.resolved
    BY SetUpShape
  <2>2. h' = [[[s EXCEPT !.phase = "loaded"] EXCEPT !.call = "none"] EXCEPT !.to = "none"]
    BY <1>5 DEF Constructor
  <2> HIDE DEF s
  <2>3. /\ h' \in DoubleTakeStates /\ h'.initialized /\ h'.inits = 1 /\ h'.funcInitialized /\ h'.resolved
        /\ h'.call = "none" /\ h'.to = "none"
    BY <2>1, <2>2, <1>4 DEF DoubleTakeStates, Targets
  <2>4. QED
    BY <1>3, <2>3 DEF DoubleTakeInv, DoubleTakeType, Interposed
<1>6. CASE DoubleTakeMain
  <2> DEFINE s == Initializer(h)
  <2>1. /\ s \in DoubleTakeStates /\ s.initialized /\ s.inits = 1 /\ s.epoch = h.epoch
        /\ s.unchecked = h.unchecked /\ s.funcInitialized /\ s.resolved
    BY SetUpShape
  <2>2. h' = [[[[s EXCEPT !.phase = "main"] EXCEPT !.epoch = TRUE] EXCEPT !.call = "none"] EXCEPT !.to = "none"]
    BY <1>6 DEF DoubleTakeMain
  <2> HIDE DEF s
  <2>3. /\ h' \in DoubleTakeStates /\ h'.initialized /\ h'.inits = 1 /\ h'.funcInitialized /\ h'.resolved
        /\ h'.call = "none" /\ h'.to = "none"
    BY <2>1, <2>2, <1>4 DEF DoubleTakeStates, Targets
  <2>4. QED
    BY <1>3, <2>3 DEF DoubleTakeInv, DoubleTakeType, Interposed
<1>7. CASE Finalizer
  <2>1. /\ h' \in DoubleTakeStates /\ h'.initialized = h.initialized /\ h'.inits = h.inits /\ h'.epoch = h.epoch
        /\ ~h'.funcInitialized /\ h'.call = "none" /\ h'.to = "none"
    BY <1>1, <1>7, <1>4 DEF Finalizer, Targets, DoubleTakeStates
  <2>2. QED
    BY <1>1, <1>3, <2>1 DEF DoubleTakeInv, DoubleTakeType, Interposed
<1>8. CASE Exit
  <2>1. /\ h' \in DoubleTakeStates /\ h'.initialized = h.initialized /\ h'.inits = h.inits /\ h'.epoch = h.epoch
        /\ h'.funcInitialized = h.funcInitialized /\ h'.resolved = h.resolved
        /\ h'.unchecked = h.unchecked /\ h'.call = h.call /\ h'.to = h.to
    BY <1>1, <1>8 DEF Exit, DoubleTakeStates
  <2>2. QED
    BY <1>1, <2>1 DEF DoubleTakeInv, DoubleTakeType, Interposed
<1>9. CASE CallDlsym
  <2>1. /\ h' \in DoubleTakeStates /\ h'.initialized = h.initialized /\ h'.inits = h.inits /\ h'.epoch = h.epoch
        /\ h'.funcInitialized = h.funcInitialized /\ h'.resolved = h.resolved
        /\ h'.call \in {"none", "dlsym"} /\ h'.to = "none"
    BY <1>1, <1>9, <1>4 DEF CallDlsym, Targets, DoubleTakeStates
  <2>2. QED
    BY <1>1, <1>3, <2>1 DEF DoubleTakeInv, DoubleTakeType, Interposed
<1>10. CASE MutexInit
  <2> DEFINE s == IF h.funcInitialized THEN h ELSE Initializer(h)
             target == IF s.initialized THEN "xthread" ELSE "nothing"
  <2>1. /\ s \in DoubleTakeStates /\ s.inits = (IF s.initialized THEN 1 ELSE 0) /\ s.epoch = h.epoch
        /\ s.funcInitialized /\ s.resolved /\ (s.epoch => s.initialized)
    BY <1>1, SetUpShape DEF Interposed
  <2>2. Done(s, "pthread_mutex_init", target)
    BY <1>10 DEF MutexInit
  <2>3. target \in Targets /\ target # "real" /\ target # "null" /\ "pthread_mutex_init" \in Calls
    BY DEF Targets, Calls
  <2> HIDE DEF s, target
  <2>4. /\ DoubleTakeType' /\ h'.to = target
        /\ h'.funcInitialized = s.funcInitialized /\ h'.initialized = s.initialized
        /\ h'.resolved = s.resolved /\ h'.inits = s.inits /\ h'.epoch = s.epoch
    BY <2>1, <2>2, <2>3, DoneShape
  <2>5. QED
    BY <2>1, <2>3, <2>4 DEF DoubleTakeInv, Interposed
<1>11. CASE CallTimedWait
  <2>1. PICK target \in {"xthread", "abort"} : Done(h, "pthread_cond_timedwait", target)
    BY <1>11 DEF CallTimedWait
  <2>2. /\ target \in Targets /\ "pthread_cond_timedwait" \notin StreamGuarded
        /\ "pthread_cond_timedwait" \in Calls /\ target # "real"
    BY <1>3 DEF Targets, Calls
  <2>3. QED
    BY <2>1, <2>2, CallKeeps
<1>12. ASSUME NEW n \in {"xxmalloc", "xxrealloc"}, XXMalloc(n)
       PROVE  DoubleTakeInv'
  <2>1. n \notin StreamGuarded /\ n \in Calls
    BY <1>3 DEF Calls
  <2>2. CASE h.initialized \/ h.temp = TempUnits
    <3>1. PICK target \in {"xmemory", "abort"} : Done(h, n, target)
      BY <1>12, <2>2 DEF XXMalloc
    <3>2. target \in Targets /\ target # "real"
      BY DEF Targets
    <3>3. QED
      BY <2>1, <3>1, <3>2, CallKeeps
  <2>3. CASE ~ (h.initialized \/ h.temp = TempUnits)
    <3> DEFINE s == [h EXCEPT !.temp = h.temp + 1]
    <3>1. Done(s, n, "tempmalloc")
      BY <1>12, <2>3 DEF XXMalloc
    <3>2. /\ s \in DoubleTakeStates /\ s.inits = h.inits /\ s.initialized = h.initialized /\ s.epoch = h.epoch
          /\ s.funcInitialized = h.funcInitialized /\ s.resolved = h.resolved
          /\ "tempmalloc" \in Targets
      BY <1>1 DEF Targets, DoubleTakeStates
    <3> HIDE DEF s
    <3>3. /\ DoubleTakeType' /\ h'.to = "tempmalloc"
          /\ h'.funcInitialized = s.funcInitialized /\ h'.initialized = s.initialized
          /\ h'.resolved = s.resolved /\ h'.inits = s.inits /\ h'.epoch = s.epoch
      BY <2>1, <3>1, <3>2, DoneShape
    <3>4. QED
      BY <1>1, <3>2, <3>3 DEF DoubleTakeInv, Interposed
  <2>4. QED
    BY <2>2, <2>3
<1>13. ASSUME NEW n \in StreamGuarded, CallStream(n)
       PROVE  DoubleTakeInv'
  <2> DEFINE s == IF h.initialized \/ h.funcInitialized THEN h ELSE InitRealFunctions(h)
             target == IF s.initialized THEN "recorder" ELSE Real(s)
  <2>1. /\ s \in DoubleTakeStates /\ s.initialized = h.initialized /\ s.inits = h.inits /\ s.epoch = h.epoch
        /\ s.unchecked = h.unchecked /\ (s.funcInitialized => s.resolved)
        /\ (~s.initialized => s.resolved)
    BY <1>1 DEF InitRealFunctions, DoubleTakeStates
  <2>2. Done(s, n, target)
    BY <1>13 DEF CallStream
  <2>3. target \in {"recorder", "real"} /\ (s.initialized => target = "recorder")
    BY <2>1 DEF Real
  <2> HIDE DEF s, target
  <2>4. target \in Targets /\ target # "null" /\ n \in Calls
    BY <2>3 DEF Targets, Calls
  <2>5. /\ DoubleTakeType' /\ h'.to = target
        /\ h'.funcInitialized = s.funcInitialized /\ h'.initialized = s.initialized
        /\ h'.resolved = s.resolved /\ h'.inits = s.inits /\ h'.epoch = s.epoch
    BY <2>1, <2>2, <2>4, DoneShape
  <2>6. QED
    BY <1>1, <2>1, <2>3, <2>4, <2>5 DEF DoubleTakeInv, Interposed
<1>14. ASSUME NEW n \in UNION {FileGuarded, StreamClosing, PlaceGuarded}, CallFile(n)
       PROVE  DoubleTakeInv'
  <2>1. n \in {"read", "open", "close", "fclose", "lseek", "munmap"}
    BY DEF FileGuarded, StreamClosing, PlaceGuarded
  <2>2. PICK target : /\ target = IF h.initialized THEN "recorder" ELSE Real(h)
                      /\ Done(h, n, target)
    BY <1>14 DEF CallFile
  <2>3. target \in Targets /\ (h.epoch => target = "recorder")
    BY <1>1, <1>2, <2>2 DEF Targets, Interposed
  <2>4. n \notin StreamGuarded /\ n \in Calls
    BY <1>3, <2>1 DEF Calls
  <2>5. QED
    BY <2>2, <2>3, <2>4, CallKeeps
<1>15. ASSUME NEW fd \in 0 .. 3, CallWrite(fd)
       PROVE  DoubleTakeInv'
  <2>1. PICK target \in {"recorder", "real", "null"} : Done(h, "write", target)
    BY <1>2, <1>15 DEF CallWrite
  <2>2. target \in Targets /\ "write" \notin StreamGuarded /\ "write" \in Calls
    BY <1>3 DEF Targets, Calls
  <2>3. QED
    BY <2>1, <2>2, CallKeeps
<1>16. ASSUME NEW n \in MapGuarded, CallMap(n)
       PROVE  DoubleTakeInv'
  <2>1. n \in {"mprotect", "mmap"}
    BY DEF MapGuarded
  <2>2. PICK target : /\ target = IF h.initialized /\ ~h.unchecked THEN "recorder" ELSE Real(h)
                      /\ Done(h, n, target)
    BY <1>16 DEF CallMap
  <2>3. target \in Targets /\ (h.epoch /\ target = "real" => h.unchecked)
    BY <1>1, <1>2, <2>2 DEF Targets, Interposed
  <2>4. n \notin StreamGuarded /\ n \in Calls
    BY <1>3, <2>1 DEF Calls
  <2>5. QED
    BY <2>2, <2>3, <2>4, CallKeeps
<1>17. ASSUME NEW n \in SignalGuarded \cup ExecGuarded, CallSignal(n)
       PROVE  DoubleTakeInv'
  <2>1. n \in {"sigaction", "sigprocmask", "execve"}
    BY DEF SignalGuarded, ExecGuarded
  <2>2. PICK target : /\ target = IF h.inits = 0 THEN "null"
                                  ELSE IF h.unchecked THEN Real(h) ELSE "recorder"
                      /\ Done(h, n, target)
    BY <1>17 DEF CallSignal
  <2>3. target \in Targets /\ (target = "real" => h.unchecked)
    BY <1>2, <2>2 DEF Targets
  <2>4. n \notin StreamGuarded /\ n \in Calls
    BY <1>3, <2>1 DEF Calls
  <2>5. QED
    BY <2>2, <2>3, <2>4, CallKeeps
<1>18. ASSUME NEW n, NEW target \in {"nothing", "xmemory", "xthread", "recorder", "abort"},
              n \in Calls, n \notin StreamGuarded, Done(h, n, target)
       PROVE  DoubleTakeInv'
  <2>1. target \in Targets /\ target # "real"
    BY DEF Targets
  <2>2. QED
    BY <1>18, <2>1, CallKeeps
<1>19. ASSUME NEW n \in {"xxfree", "xxmalloc_usable_size"}, XXFree(n)
       PROVE  DoubleTakeInv'
  <2>1. n \in Calls /\ n \notin StreamGuarded
    BY <1>3 DEF Calls
  <2>2. PICK target \in {"nothing", "xmemory", "xthread", "recorder", "abort"} : Done(h, n, target)
    BY <1>19 DEF XXFree
  <2>3. QED
    BY <1>18, <2>1, <2>2
<1>20. ASSUME NEW n \in SyncGuarded, CallSync(n)
       PROVE  DoubleTakeInv'
  <2>1. n \in Calls /\ n \notin StreamGuarded
    <3>1. n \in Calls
      BY DEF Calls
    <3>2. n # "fopen" /\ n # "fopen64"
      BY DEF SyncGuarded
    <3>3. QED
      BY <1>3, <3>1, <3>2
  <2>2. PICK target \in {"nothing", "xmemory", "xthread", "recorder", "abort"} : Done(h, n, target)
    BY <1>20 DEF CallSync
  <2>3. QED
    BY <1>18, <2>1, <2>2
<1>21. ASSUME NEW n \in ThreadAlways, CallThread(n)
       PROVE  DoubleTakeInv'
  <2>1. n \in Calls /\ n \notin StreamGuarded
    <3>1. n \in Calls
      BY DEF Calls
    <3>2. n # "fopen" /\ n # "fopen64"
      BY DEF ThreadAlways
    <3>3. QED
      BY <1>3, <3>1, <3>2
  <2>2. PICK target \in {"nothing", "xmemory", "xthread", "recorder", "abort"} : Done(h, n, target)
    BY <1>21 DEF CallThread
  <2>3. QED
    BY <1>18, <2>1, <2>2
<1>22. ASSUME NEW n \in Recorded, CallRecorded(n)
       PROVE  DoubleTakeInv'
  <2>1. n \in Calls /\ n \notin StreamGuarded
    <3>1. n \in Calls
      BY DEF Calls
    <3>2. n # "fopen" /\ n # "fopen64"
      BY DEF Recorded, RecordedDirs, RecordedClosing, RecordedMemory, RecordedSockets,
         RecordedSync, RecordedFiles, RecordedIds, RecordedSignals, RecordedSched,
         RecordedAdmin, RecordedAttrs, RecordedTimers, RecordedWatches, RecordedAt
    <3>3. QED
      BY <1>3, <3>1, <3>2
  <2>2. PICK target \in {"nothing", "xmemory", "xthread", "recorder", "abort"} : Done(h, n, target)
    BY <1>22 DEF CallRecorded
  <2>3. QED
    BY <1>18, <2>1, <2>2
<1>23. ASSUME NEW n \in Aborting, CallAborting(n)
       PROVE  DoubleTakeInv'
  <2>1. n \in Calls /\ n \notin StreamGuarded
    <3>1. n \in Calls
      BY DEF Calls
    <3>2. n # "fopen" /\ n # "fopen64"
      BY DEF Aborting
    <3>3. QED
      BY <1>3, <3>1, <3>2
  <2>2. PICK target \in {"nothing", "xmemory", "xthread", "recorder", "abort"} : Done(h, n, target)
    BY <1>23 DEF CallAborting
  <2>3. QED
    BY <1>18, <2>1, <2>2
<1>24. ASSUME NEW n \in Ignored, CallIgnored(n)
       PROVE  DoubleTakeInv'
  <2>1. n \in Calls /\ n \notin StreamGuarded
    <3>1. n \in Calls
      BY DEF Calls
    <3>2. n # "fopen" /\ n # "fopen64"
      BY DEF Ignored
    <3>3. QED
      BY <1>3, <3>1, <3>2
  <2>2. PICK target \in {"nothing", "xmemory", "xthread", "recorder", "abort"} : Done(h, n, target)
    BY <1>24 DEF CallIgnored
  <2>3. QED
    BY <1>18, <2>1, <2>2
<1>25. QED
  BY <1>5, <1>6, <1>7, <1>8, <1>9, <1>10, <1>11, <1>12, <1>13, <1>14, <1>15, <1>16, <1>17,
     <1>19, <1>20, <1>21, <1>22, <1>23, <1>24 DEF DTNext

\* In whatever order the constructor, main, the destructor and calls of the program
\* come, the runtime is set up once and before the first epoch, and from then on only
\* write and unchecked threads reach the real functions (initializer, libdoubletake.cpp:57).
THEOREM CallsInterposed == DoubleTakeSpec => []DoubleTakeInterposed
<1>1. DTInit => DoubleTakeInv
  <2> SUFFICES ASSUME DTInit PROVE DoubleTakeInv
    OBVIOUS
  <2>1. DoubleTakeType /\ h.inits = 0 /\ ~h.initialized /\ ~h.epoch /\ h.call = "none" /\ ~h.funcInitialized
    BY DEF DTInit, DoubleTakeType, DoubleTakeStates, Targets, Calls
  <2>2. QED
    BY <2>1 DEF DoubleTakeInv, Interposed, StreamGuarded
<1>2. DoubleTakeInv /\ [DTNext]_h => DoubleTakeInv'
  <2> SUFFICES ASSUME DoubleTakeInv, [DTNext]_h PROVE DoubleTakeInv'
    OBVIOUS
  <2>1. CASE DTNext
    BY <2>1, DoubleTakeKept
  <2>2. CASE h' = h
    BY <2>2 DEF DoubleTakeInv, DoubleTakeType, Interposed
  <2>3. QED
    BY <2>1, <2>2
<1>3. DoubleTakeInv => DoubleTakeInterposed
  BY DEF DoubleTakeInv, DoubleTakeInterposed
<1>4. QED
  BY <1>1, <1>2, <1>3, PTL DEF DoubleTakeSpec

-----------------------------------------------------------------------------
(* The malloc wrappers: wrapper.cpp in Shims *)

\* The same as RoundedUp, and how much is added
LEMMA RoundedTo ==
  ASSUME NEW n \in Nat, NEW a \in Nat \ {0}
  PROVE  /\ (n + a - 1) \div a \in Nat
         /\ a * ((n + a - 1) \div a) \in Nat
         /\ n <= a * ((n + a - 1) \div a) /\ a * ((n + a - 1) \div a) <= n + a - 1
         /\ (a * ((n + a - 1) \div a)) % a = 0
<1> DEFINE x == n + a - 1
<1>1. x \in Nat
  OBVIOUS
<1>2. /\ x \div a \in Int /\ 0 <= x \div a
      /\ a * (x \div a) \in Int /\ a * (x \div a) <= x /\ x < a * (x \div a) + a
  BY <1>1
<1>3. (a * (x \div a)) % a = 0
  BY <1>2
<1> HIDE DEF x
<1>4. x \div a \in Nat /\ a * (x \div a) \in Nat
  BY <1>2
<1>5. QED
  BY <1>2, <1>3, <1>4 DEF x

Objects ==
  [p : Nat, base : Nat, cap : Nat, ask : Nat, align : Nat \ {0}, mark : Nat]
WrapperType == h \in [kind : {"wrapper"}, objs : SUBSET Objects, mem : [Cells -> Int]]

\* What WrapperKeeps says of the objects objs in the memory mem, and that they lie in it
Fit(objs, mem) ==
  \A o \in objs :
    /\ Block(o) \subseteq Cells
    /\ o.p .. o.p + o.ask - 1 \subseteq Block(o) /\ o.p % o.align = 0
    /\ \A q \in objs : o # q => Block(o) \cap Block(q) = {}
    /\ \A c \in o.p .. o.p + o.ask - 1 : mem[c] = o.mark

WrapperInv == WrapperType /\ Fit(h.objs, h.mem)

\* What the program has and what it wrote is the state after an operation.
LEMMA HaveKeeps ==
  ASSUME WrapperType, NEW objs \in SUBSET Objects, NEW mem \in [Cells -> Int],
         Fit(objs, mem), Have(objs, mem)
  PROVE  WrapperInv'
<1> DEFINE new_mem == [c \in Cells |-> IF \E o \in objs : c \in o.p .. o.p + o.ask - 1
                                       THEN mem[c] ELSE Dirty]
<1>1. h' = [[h EXCEPT !.objs = objs] EXCEPT !.mem = new_mem]
  BY DEF Have, WrapperType
<1>2. new_mem \in [Cells -> Int]
  BY DEF Dirty
<1>3. \A o \in objs : \A c \in o.p .. o.p + o.ask - 1 : new_mem[c] = mem[c]
  BY DEF Fit
<1> HIDE DEF new_mem
<1>4. WrapperType' /\ h'.objs = objs /\ h'.mem = new_mem
  BY <1>1, <1>2 DEF WrapperType
<1>5. Fit(objs, new_mem)
  BY <1>3 DEF Fit
<1>6. QED
  BY <1>4, <1>5 DEF WrapperInv, Fit, Block, Cells

LEMMA FitFewer ==
  ASSUME NEW objs, NEW fewer \in SUBSET objs, NEW mem, Fit(objs, mem)
  PROVE  Fit(fewer, mem)
BY DEF Fit

\* A block that the heap may return for a request of sz bytes
LEMMA BlockFree ==
  ASSUME NEW objs, NEW sz \in Nat, NEW b \in BlocksIn(Cells \ TakenBy(objs), sz)
  PROVE  /\ b.base \in Nat /\ b.base % ShimDouble = 0
         /\ b.cap \in Nat /\ b.cap = Class(sz) /\ sz <= b.cap
         /\ Block(b) \subseteq Cells /\ \A o \in objs : Block(b) \cap Block(o) = {}
<1>1. /\ b.base \in Cells /\ b.base % ShimDouble = 0 /\ b.cap = Class(sz)
      /\ Block(b) \subseteq Cells \ TakenBy(objs)
  BY DEF BlocksIn
<1>2. Cells \subseteq Nat
  BY ShimsAssumption DEF Cells
<1>3. Class(sz) \in Nat /\ sz <= Class(sz)
  BY RoundedTo, ShimsAssumption DEF Class
<1>4. QED
  BY <1>1, <1>2, <1>3 DEF TakenBy

\* An object in a block of its own is one more.
LEMMA FitMore ==
  ASSUME NEW objs, NEW mem, Fit(objs, mem), NEW o, NEW more,
         Block(o) \subseteq Cells, \A q \in objs : Block(o) \cap Block(q) = {},
         o.p .. o.p + o.ask - 1 \subseteq Block(o), o.p % o.align = 0,
         \A c \in o.p .. o.p + o.ask - 1 : more[c] = o.mark,
         \A c \in Cells \ Block(o) : more[c] = mem[c]
  PROVE  Fit(objs \cup {o}, more)
<1>1. \A q \in objs : \A c \in q.p .. q.p + q.ask - 1 : c \in Cells \ Block(o)
  BY DEF Fit
<1>2. \A q \in objs : \A c \in q.p .. q.p + q.ask - 1 : more[c] = q.mark
  BY <1>1 DEF Fit
<1>3. QED
  BY <1>2 DEF Fit

LEMMA AlignedToOne == \A x \in Nat : x % 1 = 0
OBVIOUS

\* A new object, filled with its mark, in a block that is free beside objs
LEMMA MadeKeeps ==
  ASSUME WrapperInv, NEW objs \in SUBSET h.objs, NEW sz \in Nat, NEW room \in Nat,
         NEW b \in BlocksIn(Cells \ TakenBy(objs), room), NEW p \in Nat, NEW align \in Nat \ {0},
         NEW m \in Nat, b.base <= p, p + sz <= b.base + b.cap, p % align = 0,
         Have(objs \cup {Made(b, p, sz, align, m)}, Fill(h.mem, p, sz, m))
  PROVE  WrapperInv'
<1> DEFINE o == Made(b, p, sz, align, m)
<1>1. /\ b.base \in Nat /\ b.cap \in Nat
      /\ Block(b) \subseteq Cells /\ \A q \in objs : Block(b) \cap Block(q) = {}
  BY BlockFree
<1>2. /\ o.p = p /\ o.base = b.base /\ o.cap = b.cap /\ o.ask = sz /\ o.align = align /\ o.mark = m
      /\ o \in Objects
  BY <1>1 DEF Made, Objects
<1> HIDE DEF o
<1>3. Block(o) = Block(b) /\ p .. p + sz - 1 \subseteq Block(o)
  BY <1>1, <1>2 DEF Block
<1>4. h.mem \in [Cells -> Int] /\ h.objs \in SUBSET Objects
  BY DEF WrapperInv, WrapperType
<1>5. /\ Fill(h.mem, p, sz, m) \in [Cells -> Int]
      /\ \A c \in p .. p + sz - 1 : Fill(h.mem, p, sz, m)[c] = m
      /\ \A c \in Cells \ Block(o) : Fill(h.mem, p, sz, m)[c] = h.mem[c]
  <2>1. p .. p + sz - 1 \subseteq Cells /\ m \in Int
    BY <1>1, <1>3
  <2>2. /\ Fill(h.mem, p, sz, m) \in [Cells -> Int]
        /\ \A c \in Cells : Fill(h.mem, p, sz, m)[c] =
             IF c \in p .. p + sz - 1 THEN m ELSE h.mem[c]
    BY <1>4, <2>1 DEF Fill
  <2>3. QED
    BY <1>3, <2>1, <2>2
<1>6. Fit(objs, h.mem)
  BY FitFewer DEF WrapperInv
<1>7. Fit(objs \cup {o}, Fill(h.mem, p, sz, m))
  BY <1>1, <1>2, <1>3, <1>5, <1>6, FitMore
<1>8. objs \cup {o} \in SUBSET Objects
  BY <1>2, <1>4
<1>9. QED
  BY <1>5, <1>7, <1>8, HaveKeeps DEF WrapperInv, o

\* Objects of any alignment
LEMMA MallocKeeps ==
  ASSUME WrapperInv, FreeMarks # {}, NEW sz \in Nat, WMalloc(sz)
  PROVE  WrapperInv'
<1>1. PICK b \in internalMalloc(sz), m \in {Min(FreeMarks)} :
        Have(h.objs \cup {Made(b, b.base, sz, 1, m)}, Fill(h.mem, b.base, sz, m))
  BY DEF WMalloc
<1>2. m \in Nat
  <2>1. FreeMarks \subseteq Nat
    BY ShimsAssumption DEF FreeMarks
  <2>2. Min(FreeMarks) \in FreeMarks
    BY <2>1, MinIn
  <2>3. QED
    BY <2>1, <2>2
<1>3. b \in BlocksIn(Cells \ TakenBy(h.objs), sz)
  BY DEF internalMalloc
<1>4. b.base \in Nat /\ b.cap \in Nat /\ sz <= b.cap /\ b.base % 1 = 0
  BY <1>3, BlockFree, AlignedToOne
<1>5. /\ b.base <= b.base /\ b.base + sz <= b.base + b.cap /\ 1 \in Nat \ {0}
      /\ h.objs \in SUBSET h.objs
  BY <1>4
<1>6. Have(h.objs \cup {Made(b, b.base, sz, 1, m)}, Fill(h.mem, b.base, sz, m))
  BY <1>1
<1>7. QED
  BY <1>2, <1>3, <1>4, <1>5, <1>6, MadeKeeps

LEMMA CallocKeeps ==
  ASSUME WrapperInv, NEW n \in Nat, NEW e \in Nat, WCalloc(n, e)
  PROVE  WrapperInv'
<1>1. PICK b \in internalMalloc(n * e) :
        Have(h.objs \cup {Made(b, b.base, n * e, 1, 0)}, Fill(h.mem, b.base, n * e, 0))
  BY DEF WCalloc, callocClears
<1>2. b \in BlocksIn(Cells \ TakenBy(h.objs), n * e) /\ n * e \in Nat
  BY DEF internalMalloc
<1>3. b.base \in Nat /\ b.cap \in Nat /\ n * e <= b.cap /\ b.base % 1 = 0
  BY <1>2, BlockFree, AlignedToOne
<1>4. b.base <= b.base /\ b.base + n * e <= b.base + b.cap /\ 1 \in Nat \ {0} /\ 0 \in Nat
  BY <1>2, <1>3
<1>5. QED
  BY <1>1, <1>2, <1>3, <1>4, MadeKeeps

LEMMA MemalignKeeps ==
  ASSUME WrapperInv, FreeMarks # {}, NEW a \in Nat \ {0}, NEW sz \in Nat, WMemalign(a, sz)
  PROVE  WrapperInv'
<1> DEFINE room == memalignAsks(a, sz)
<1>1. PICK b \in internalMalloc(room), m \in {Min(FreeMarks)} :
        Have(h.objs \cup {Made(b, memalignAt(a, b.base), sz, a, m)},
             Fill(h.mem, memalignAt(a, b.base), sz, m))
  BY DEF WMemalign
<1>2. m \in Nat
  <2>1. FreeMarks \subseteq Nat
    BY ShimsAssumption DEF FreeMarks
  <2>2. Min(FreeMarks) \in FreeMarks
    BY <2>1, MinIn
  <2>3. QED
    BY <2>1, <2>2
<1>3. room \in Nat /\ (a # ShimDouble => room = sz + 2 * a) /\ (a = ShimDouble => room = sz)
  BY DEF memalignAsks
<1>4. b \in BlocksIn(Cells \ TakenBy(h.objs), room)
  BY DEF internalMalloc
<1>5. b.base \in Nat /\ b.base % ShimDouble = 0 /\ b.cap \in Nat /\ room <= b.cap
  BY <1>3, <1>4, BlockFree
<1> DEFINE p == memalignAt(a, b.base)
<1>6. p \in Nat /\ b.base <= p /\ p + sz <= b.base + b.cap /\ p % a = 0
  <2>1. CASE a = ShimDouble
    BY <1>3, <1>5, <2>1 DEF memalignAt
  <2>2. CASE a # ShimDouble
    <3>1. /\ RoundUp(b.base, a) \in Nat /\ b.base <= RoundUp(b.base, a)
          /\ RoundUp(b.base, a) <= b.base + a - 1 /\ RoundUp(b.base, a) % a = 0
      BY <1>5, RoundedTo DEF RoundUp
    <3>2. p = RoundUp(b.base, a)
      BY <2>2 DEF memalignAt
    <3>3. QED
      BY <1>3, <1>5, <2>2, <3>1, <3>2
  <2>3. QED
    BY <2>1, <2>2
<1> HIDE DEF p, room
<1>7. Have(h.objs \cup {Made(b, p, sz, a, m)}, Fill(h.mem, p, sz, m))
  BY <1>1 DEF p
<1>8. QED
  BY <1>2, <1>3, <1>4, <1>6, <1>7, MadeKeeps

LEMMA PageFacts == ShimPage \in Nat \ {0}
<1>1. PICK a \in ShimAligns : \A b \in ShimAligns : b <= a
  BY ShimsAssumption
<1>2. \A b \in ShimAligns : a >= b
  BY <1>1, ShimsAssumption
<1>3. ShimPage \in ShimAligns
  BY <1>2 DEF ShimPage, Max
<1>4. QED
  BY <1>3, ShimsAssumption

LEMMA FreeKeeps ==
  ASSUME WrapperInv, NEW o \in h.objs, WFree(o)
  PROVE  WrapperInv'
<1>1. h.objs \ {o} \in SUBSET Objects /\ h.mem \in [Cells -> Int]
  BY DEF WrapperInv, WrapperType
<1>2. Fit(h.objs \ {o}, h.mem)
  BY FitFewer DEF WrapperInv
<1>3. QED
  BY <1>1, <1>2, HaveKeeps DEF WrapperInv, WFree

LEMMA ReallocKeeps ==
  ASSUME WrapperInv, NEW o \in Freeable, NEW sz \in Nat, WRealloc(o, sz)
  PROVE  WrapperInv'
<1> DEFINE bufs == internalMalloc(sz)
           kept == IF o.cap < sz THEN o.cap ELSE sz
           old == IF o.ask < sz THEN o.ask ELSE sz
           rest == h.objs \ {o}
<1>1. /\ o \in h.objs /\ o \in Objects /\ o.p = o.base
      /\ o.base \in Nat /\ o.cap \in Nat /\ o.ask \in Nat /\ o.mark \in Nat /\ o.align \in Nat \ {0}
  BY DEF Freeable, WrapperInv, WrapperType, Objects
<1>2. h.mem \in [Cells -> Int] /\ rest \in SUBSET Objects /\ Fit(h.objs, h.mem) /\ Fit(rest, h.mem)
  BY FitFewer DEF WrapperInv, WrapperType
<1>3. /\ Block(o) = o.base .. o.base + o.cap - 1 /\ Block(o) \subseteq Cells
      /\ o.base .. o.base + o.ask - 1 \subseteq Block(o) /\ o.base % o.align = 0
      /\ \A q \in rest : Block(o) \cap Block(q) = {}
      /\ \A c \in o.base .. o.base + o.ask - 1 : h.mem[c] = o.mark
  BY <1>1, <1>2 DEF Fit, Block
<1>4. old \in Nat /\ old <= sz /\ old <= o.ask /\ sz - old \in Nat /\ (old < sz => old = o.ask)
  BY <1>1
<1>5. CASE WFree(o)
  BY <1>1, <1>5, FreeKeeps
<1>6. CASE /\ Class(sz) = o.cap
           /\ Have(rest \cup {[o EXCEPT !.ask = sz]}, Fill(h.mem, o.p + old, sz - old, o.mark))
  <2> DEFINE new == [o EXCEPT !.ask = sz]
             more == Fill(h.mem, o.p + old, sz - old, o.mark)
  <2>1. sz <= o.cap
    BY <1>6, RoundedTo, ShimsAssumption DEF Class
  <2>2. /\ new \in Objects /\ new.p = o.base /\ new.base = o.base /\ new.cap = o.cap
        /\ new.ask = sz /\ new.align = o.align /\ new.mark = o.mark
    BY <1>1 DEF Objects
  <2> HIDE DEF new
  <2>3. Block(new) = Block(o) /\ o.base .. o.base + sz - 1 \subseteq Block(new)
    BY <1>1, <1>3, <2>1, <2>2 DEF Block
  <2>4. /\ more \in [Cells -> Int]
        /\ \A c \in Cells : more[c] =
             IF c \in o.base + old .. o.base + old + (sz - old) - 1 THEN o.mark ELSE h.mem[c]
    BY <1>1, <1>2, <1>4 DEF Fill
  <2> HIDE DEF more, old
  <2>5. \A c \in o.base .. o.base + sz - 1 : more[c] = o.mark
    <3> SUFFICES ASSUME NEW c \in o.base .. o.base + sz - 1 PROVE more[c] = o.mark
      OBVIOUS
    <3>1. c \in Cells
      BY <1>3, <2>3
    <3>2. c \in o.base + old .. o.base + old + (sz - old) - 1 \/ c \in o.base .. o.base + o.ask - 1
      BY <1>1, <1>4
    <3>3. QED
      BY <1>3, <2>4, <3>1, <3>2
  <2>6. \A c \in Cells \ Block(new) : more[c] = h.mem[c]
    BY <1>1, <1>3, <1>4, <2>3, <2>4
  <2>7. Fit(rest \cup {new}, more)
    <3>1. /\ Block(new) \subseteq Cells /\ new.p % new.align = 0
          /\ \A q \in rest : Block(new) \cap Block(q) = {}
          /\ new.p .. new.p + new.ask - 1 \subseteq Block(new)
          /\ \A c \in new.p .. new.p + new.ask - 1 : more[c] = new.mark
      BY <1>3, <2>2, <2>3, <2>5
    <3>2. QED
      BY <1>2, <2>6, <3>1, FitMore
  <2>8. rest \cup {new} \in SUBSET Objects
    BY <1>2, <2>2
  <2>9. QED
    BY <1>6, <2>4, <2>7, <2>8, HaveKeeps DEF WrapperInv, new, more, old
<1>7. ASSUME NEW b \in bufs
      PROVE  LET copied == [c \in Cells |-> IF c \in b.base .. b.base + kept - 1
                                             THEN h.mem[o.p + c - b.base] ELSE h.mem[c]]
             IN  Have(rest \cup {Made(b, b.base, sz, 1, o.mark)},
                      Fill(copied, b.base + old, sz - old, o.mark))
                   => WrapperInv'
  <2> DEFINE copied == [c \in Cells |-> IF c \in b.base .. b.base + kept - 1
                                         THEN h.mem[o.p + c - b.base] ELSE h.mem[c]]
             new == Made(b, b.base, sz, 1, o.mark)
             more == Fill(copied, b.base + old, sz - old, o.mark)
  <2>1. /\ b.base \in Nat /\ b.cap \in Nat /\ sz <= b.cap
        /\ Block(b) \subseteq Cells /\ \A q \in h.objs : Block(b) \cap Block(q) = {}
    BY <1>7, BlockFree DEF internalMalloc
  <2>2. /\ new \in Objects /\ new.p = b.base /\ new.base = b.base /\ new.cap = b.cap
        /\ new.ask = sz /\ new.align = 1 /\ new.mark = o.mark
    BY <1>1, <2>1 DEF Objects, Made
  <2> HIDE DEF new
  <2>3. /\ Block(new) = Block(b) /\ Block(b) = b.base .. b.base + b.cap - 1
        /\ b.base .. b.base + sz - 1 \subseteq Block(new)
    BY <2>1, <2>2 DEF Block
  <2>4. kept \in Nat /\ kept <= sz /\ kept <= o.cap /\ old <= kept
    <3>1. o.ask <= o.cap
      <4>1. o.ask = 0 \/ o.base + o.ask - 1 \in o.base .. o.base + o.ask - 1
        BY <1>1
      <4>2. o.ask = 0 \/ o.base + o.ask - 1 \in o.base .. o.base + o.cap - 1
        BY <1>3, <4>1
      <4>3. QED
        BY <1>1, <4>2
    <3>2. QED
      BY <1>1, <3>1
  <2> HIDE DEF kept, old
  <2>5. \A c \in b.base .. b.base + kept - 1 : o.p + c - b.base \in Block(o)
    <3> SUFFICES ASSUME NEW c \in b.base .. b.base + kept - 1 PROVE o.p + c - b.base \in Block(o)
      OBVIOUS
    <3>1. c \in Int /\ b.base <= c /\ c <= b.base + kept - 1
      BY <2>1, <2>4
    <3>2. o.p + c - b.base \in o.base .. o.base + o.cap - 1
      BY <1>1, <2>1, <2>4, <3>1
    <3>3. QED
      BY <1>3, <3>2
  <2>6. copied \in [Cells -> Int]
    BY <1>2, <1>3, <2>5
  <2>7. \A c \in Cells \ Block(b) : copied[c] = h.mem[c]
    BY <2>1, <2>3, <2>4
  <2>8. \A c \in b.base .. b.base + old - 1 : c \in Cells /\ copied[c] = o.mark
    <3> SUFFICES ASSUME NEW c \in b.base .. b.base + old - 1 PROVE c \in Cells /\ copied[c] = o.mark
      OBVIOUS
    <3>1. c \in Cells /\ c \in b.base .. b.base + kept - 1
      <4>1. c \in b.base .. b.base + sz - 1 /\ c \in b.base .. b.base + kept - 1
        BY <1>4, <2>1, <2>4
      <4>2. QED
        BY <2>1, <2>3, <4>1
    <3>2. o.p + c - b.base \in o.base .. o.base + o.ask - 1
      BY <1>1, <1>4, <2>1
    <3>3. QED
      BY <1>3, <3>1, <3>2
  <2> HIDE DEF copied
  <2>9. /\ more \in [Cells -> Int]
        /\ \A c \in Cells : more[c] =
             IF c \in b.base + old .. b.base + old + (sz - old) - 1 THEN o.mark ELSE copied[c]
    BY <1>1, <1>4, <2>1, <2>6 DEF Fill
  <2> HIDE DEF more
  <2>10. \A c \in b.base .. b.base + sz - 1 : more[c] = o.mark
    <3> SUFFICES ASSUME NEW c \in b.base .. b.base + sz - 1 PROVE more[c] = o.mark
      OBVIOUS
    <3>1. c \in Cells
      BY <2>1, <2>3
    <3>2. c \in b.base + old .. b.base + old + (sz - old) - 1 \/ c \in b.base .. b.base + old - 1
      BY <1>4, <2>1
    <3>3. QED
      BY <2>8, <2>9, <3>1, <3>2
  <2>11. \A c \in Cells \ Block(new) : more[c] = h.mem[c]
    BY <1>4, <2>1, <2>3, <2>7, <2>9
  <2>12. new.p % new.align = 0
    BY <2>1, <2>2
  <2>13. Fit(rest \cup {new}, more)
    BY <1>2, <2>1, <2>2, <2>3, <2>10, <2>11, <2>12, FitMore
  <2>14. rest \cup {new} \in SUBSET Objects
    BY <1>2, <2>2
  <2>15. Have(rest \cup {new}, more) => WrapperInv'
    BY <2>9, <2>13, <2>14, HaveKeeps DEF WrapperInv
  <2>16. QED
    BY <2>15 DEF new, more, old, copied, kept
<1>8. QED
  BY <1>5, <1>6, <1>7 DEF WRealloc

LEMMA RecallocKeeps ==
  ASSUME WrapperInv, NEW o \in h.objs, NEW n \in Nat, NEW e \in Nat, WRecalloc(o, n, e)
  PROVE  WrapperInv'
<1>1. CASE WFree(o)
  BY <1>1, FreeKeeps
<1>2. ASSUME NEW b \in BlocksIn(Cells \ TakenBy(h.objs \ {o}), n * e),
             Have((h.objs \ {o}) \cup {Made(b, b.base, n * e, 1, 0)}, Fill(h.mem, b.base, n * e, 0))
      PROVE  WrapperInv'
  <2>1. n * e \in Nat
    OBVIOUS
  <2>2. b.base \in Nat /\ b.cap \in Nat /\ n * e <= b.cap /\ b.base % 1 = 0
    BY <2>1, BlockFree, AlignedToOne
  <2>3. QED
    BY <1>2, <2>1, <2>2, MadeKeeps
<1>3. QED
  BY <1>1, <1>2 DEF WRecalloc, callocClears

LEMMA WrapperKept ==
  ASSUME WrapperInv, WrapperNext
  PROVE  WrapperInv'
<1>1. ShimAsks \subseteq Nat \ {0} /\ ShimAligns \subseteq Nat \ {0}
  BY ShimsAssumption
<1>2. ASSUME FreeMarks # {}, NEW sz \in ShimAsks,
             WMalloc(sz) \/ WStrdup(sz - 1) \/ WGetcwd(sz) \/ WNew(sz)
      PROVE  WrapperInv'
  <2>1. sz \in Nat /\ sz - 1 + 1 = sz
    BY <1>1
  <2>2. WMalloc(sz)
    BY <1>2, <2>1 DEF WStrdup, WGetcwd, WNew
  <2>3. QED
    BY <1>2, <2>1, <2>2, MallocKeeps
<1>3. ASSUME NEW sz \in ShimAsks, WCalloc(2, sz) PROVE WrapperInv'
  BY <1>1, <1>3, CallocKeeps
<1>4. ASSUME FreeMarks # {}, NEW sz \in ShimAsks, NEW a \in ShimAligns, posix_memalign(a, sz)
      PROVE  WrapperInv'
  BY <1>1, <1>4, MemalignKeeps DEF posix_memalign
<1>5. ASSUME FreeMarks # {}, NEW sz \in ShimAsks, WValloc(sz) PROVE WrapperInv'
  BY <1>1, <1>5, PageFacts, MemalignKeeps DEF WValloc
<1>6. ASSUME FreeMarks # {}, NEW sz \in ShimAsks, WPvalloc(sz) PROVE WrapperInv'
  <2>1. RoundUp(sz, ShimPage) \in Nat
    BY <1>1, PageFacts, RoundedTo DEF RoundUp
  <2>2. QED
    BY <1>6, <2>1, PageFacts, MemalignKeeps DEF WPvalloc, WValloc
<1>7. ASSUME NEW o \in Freeable, WFree(o) \/ WDelete(o) PROVE WrapperInv'
  BY <1>7, FreeKeeps DEF WDelete, Freeable
<1>8. ASSUME NEW o \in Freeable, NEW sz \in ShimAsks, WRealloc(o, sz) PROVE WrapperInv'
  BY <1>1, <1>8, ReallocKeeps
<1>9. ASSUME NEW o \in Freeable, NEW sz \in ShimAsks, WRecalloc(o, 2, sz) PROVE WrapperInv'
  BY <1>1, <1>9, RecallocKeeps DEF Freeable
<1>10. QED
  BY <1>2, <1>3, <1>4, <1>5, <1>6, <1>7, <1>8, <1>9 DEF WrapperNext

LEMMA WrapperStarts == WrapperInit => WrapperInv
BY DEF WrapperInit, WrapperInv, WrapperType, Fit, Dirty

LEMMA WrapperHolds == WrapperInv => WrapperKeeps
BY DEF WrapperInv, WrapperKeeps, Fit

-----------------------------------------------------------------------------
(* LocalMallocHeap and SanityCheckHeap in Shims *)

LocalObjects == [from : {"libc", "local"}, at : Nat, size : Nat]
LocalInv ==
  /\ h \in [kind : {"localmalloc"}, firsttime : BOOLEAN, step : Nat, next : Nat,
            objs : SUBSET LocalObjects, dead : BOOLEAN]
  /\ LocalWhole

LEMMA LocalStarts == LocalInit => LocalInv
BY ShimsAssumption DEF LocalInit, LocalInv, LocalWhole

LEMMA LocalKept ==
  ASSUME LocalInv, LocalNext
  PROVE  LocalInv'
<1> DEFINE Type == h \in [kind : {"localmalloc"}, firsttime : BOOLEAN, step : Nat, next : Nat,
                          objs : SUBSET LocalObjects, dead : BOOLEAN]
<1>1. Type /\ LocalWhole /\ LocalUnits \in Nat /\ ~h.dead
  BY ShimsAssumption DEF LocalInv, LocalNext
<1>2. CASE LFirst
  BY <1>1, <1>2 DEF LFirst, LocalInv, LocalWhole
<1>3. CASE LDlsym
  <2> DEFINE new_objs == IF h.step = 3 THEN h.objs \cup {LocalObject("libc", 1)} ELSE h.objs
             new_step == h.step + 1
  <2>1. h' = [[h EXCEPT !.step = new_step] EXCEPT !.objs = new_objs]
    BY <1>1, <1>3 DEF LDlsym
  <2>2. new_objs \in SUBSET LocalObjects /\ \A o \in new_objs : o.from = "local" => o \in h.objs
    BY <1>1 DEF LocalObjects, LocalObject
  <2>3. new_step \in Nat
    BY <1>1
  <2> HIDE DEF new_objs, new_step
  <2>4. /\ Type' /\ h'.objs = new_objs /\ h'.next = h.next /\ ~h'.dead
    BY <1>1, <2>1, <2>2, <2>3
  <2>5. QED
    BY <1>1, <2>2, <2>4 DEF LocalInv, LocalWhole
<1>4. ASSUME NEW sz \in 1 .. 2, LMalloc(sz) PROVE LocalInv'
  <2> DEFINE o == LocalObject(IF mallocfn THEN "libc" ELSE "local", sz)
             new_objs == h.objs \cup {o}
  <2>1. o \in LocalObjects /\ o.at = h.next /\ o.size = sz
    BY <1>1 DEF LocalObject, LocalObjects
  <2>2. CASE mallocfn
    <3>1. h' = [h EXCEPT !.objs = new_objs] /\ o.from = "libc"
      BY <1>1, <1>4, <2>2 DEF LMalloc, LocalObject
    <3>2. new_objs \in SUBSET LocalObjects
      BY <1>1, <2>1
    <3> HIDE DEF o
    <3>3. Type' /\ h'.objs = new_objs /\ h'.next = h.next /\ ~h'.dead
      BY <1>1, <3>1, <3>2
    <3>4. QED
      BY <1>1, <3>1, <3>3 DEF LocalInv, LocalWhole
  <2>3. CASE ~mallocfn /\ h.next + sz + 1 > LocalUnits
    <3>1. h' = [h EXCEPT !.dead = TRUE]
      BY <1>4, <2>3 DEF LMalloc
    <3>2. h.next + 3 > LocalUnits
      BY <1>1, <2>3
    <3>3. QED
      BY <1>1, <2>3, <3>1, <3>2 DEF LocalInv, LocalWhole, mallocfn
  <2>4. CASE ~mallocfn /\ ~ (h.next + sz + 1 > LocalUnits)
    <3> DEFINE new_next == h.next + sz + 1
    <3>1. h' = [[h EXCEPT !.objs = new_objs] EXCEPT !.next = new_next] /\ o.from = "local"
      BY <1>1, <1>4, <2>4 DEF LMalloc, LocalObject
    <3>2. new_objs \in SUBSET LocalObjects /\ new_next \in Nat /\ new_next <= LocalUnits
      BY <1>1, <2>1, <2>4
    <3> HIDE DEF o, new_next
    <3>3. Type' /\ h'.objs = new_objs /\ h'.next = new_next /\ ~h'.dead
      BY <1>1, <3>1, <3>2
    <3>4. \A q \in h.objs : q.from = "local" =>
            /\ q.at \in Nat /\ q.size \in Nat /\ q.at + q.size < h.next
            /\ q.at + q.size < new_next /\ q.at + q.size < o.at
      BY <1>1, <2>1 DEF LocalWhole, LocalObjects, new_next
    <3>5. o.at + o.size < new_next
      BY <1>1, <2>1 DEF new_next
    <3>6. \A q \in {x \in new_objs : x.from = "local"} : q = o \/ q \in {x \in h.objs : x.from = "local"}
      OBVIOUS
    <3>7. QED
      BY <1>1, <3>2, <3>3, <3>4, <3>5, <3>6 DEF LocalInv, LocalWhole
  <2>5. QED
    BY <2>2, <2>3, <2>4
<1>5. ASSUME NEW o \in h.objs, LFree(o) PROVE LocalInv'
  <2>1. CASE mallocfn /\ ~InBuffer(o) /\ o.from # "libc"
    <3>1. h' = [h EXCEPT !.dead = TRUE] /\ o.from = "local"
      BY <1>1, <1>5, <2>1 DEF LFree, LocalObjects
    <3>2. QED
      BY <1>1, <1>5, <2>1, <3>1 DEF LocalInv, LocalWhole, mallocfn
  <2>2. CASE ~(mallocfn /\ ~InBuffer(o) /\ o.from # "libc")
    <3> DEFINE new_objs == h.objs \ {o}
    <3>1. h' = [h EXCEPT !.objs = new_objs]
      BY <1>1, <1>5, <2>2 DEF LFree
    <3>2. Type' /\ h'.objs = new_objs /\ h'.next = h.next /\ ~h'.dead
      BY <1>1, <3>1
    <3>3. QED
      BY <1>1, <3>2 DEF LocalInv, LocalWhole
  <2>3. QED
    BY <2>1, <2>2
<1>6. QED
  BY <1>2, <1>3, <1>4, <1>5 DEF LocalNext

\* Partial functions from addresses to sizes
SizeMaps == UNION {[D -> Int] : D \in SUBSET Int}
SanityType ==
  h \in [kind : {"sanity"}, allocatedObjects : SizeMaps, below : SUBSET Int,
         failed : {"no", "allocated", "never", "twice"}, wrong : {"no", "never", "twice"}]
SanityInv == SanityType /\ SanityWhole

LEMMA SanityStarts == SanityInit => SanityInv
<1> SUFFICES ASSUME SanityInit PROVE SanityInv
  OBVIOUS
<1>1. << >> \in [{} -> Int]
  OBVIOUS
<1>2. << >> \in SizeMaps /\ DOMAIN << >> = {}
  BY <1>1 DEF SizeMaps
<1>3. QED
  BY <1>2 DEF SanityInit, SanityInv, SanityType, SanityWhole

LEMMA SanityKept ==
  ASSUME SanityInv, SanityNext
  PROVE  SanityInv'
<1> DEFINE all == h.allocatedObjects
           Live(f) == {a \in DOMAIN f : f[a] # FREED}
<1>1. SanityType /\ h.failed = "no" /\ h.wrong = "no" /\ h.below = Live(all)
  BY DEF SanityInv, SanityWhole, SanityNext
<1>2. all \in [DOMAIN all -> Int] /\ DOMAIN all \in SUBSET Int
  BY <1>1 DEF SanityType, SizeMaps
<1>3. ASSUME NEW f, SanityType', h'.allocatedObjects = f, h'.failed = h'.wrong,
             h'.failed = "no" => h'.below = Live(f)
      PROVE  SanityInv'
  BY <1>3 DEF SanityInv, SanityWhole
<1>4. ASSUME NEW a \in 1 .. 3, NEW sz \in 1 .. 2, SMalloc(a, sz) PROVE SanityInv'
  <2> DEFINE new_below == h.below \cup {a}
             new_all == [x \in DOMAIN all \cup {a} |-> IF x = a THEN sz ELSE all[x]]
  <2>1. a \notin DOMAIN all \/ all[a] = FREED
    BY <1>1, <1>4 DEF SMalloc
  <2>2. h' = [[h EXCEPT !.below = new_below] EXCEPT !.allocatedObjects = new_all]
    BY <1>1, <1>4, <2>1 DEF SMalloc, SanityType
  <2>3. new_all \in [DOMAIN all \cup {a} -> Int] /\ new_below \in SUBSET Int
    BY <1>1, <1>2 DEF SanityType
  <2>4. new_all \in SizeMaps
    BY <1>2, <2>3 DEF SizeMaps
  <2>5. Live(new_all) = new_below
    <3>1. /\ DOMAIN new_all = DOMAIN all \cup {a} /\ new_all[a] = sz /\ sz # FREED
          /\ \A x \in DOMAIN all : x # a => new_all[x] = all[x]
      <4>1. sz # FREED
        BY DEF FREED
      <4> HIDE DEF all
      <4>2. QED
        BY <4>1
    <3> HIDE DEF new_all
    <3>2. QED
      BY <1>1, <3>1
  <2> HIDE DEF new_all, new_below
  <2>6. /\ SanityType' /\ h'.allocatedObjects = new_all /\ h'.below = new_below
        /\ h'.failed = h.failed /\ h'.wrong = h.wrong
    BY <1>1, <2>2, <2>3, <2>4 DEF SanityType
  <2>7. QED
    BY <1>1, <1>3, <2>5, <2>6
<1>5. ASSUME NEW a \in 1 .. 3, SFree(a) PROVE SanityInv'
  <2>1. CASE a \notin DOMAIN all
    <3>1. h' = [[h EXCEPT !.failed = "never"] EXCEPT !.wrong = "never"]
      BY <1>1, <1>5, <2>1 DEF SFree, SanityType
    <3>2. SanityType' /\ h'.failed = "never" /\ h'.wrong = "never"
      BY <1>1, <3>1 DEF SanityType
    <3>3. QED
      BY <1>3, <3>2
  <2>2. CASE a \in DOMAIN all /\ all[a] = FREED
    <3>1. h' = [[h EXCEPT !.failed = "twice"] EXCEPT !.wrong = "twice"]
      BY <1>1, <1>5, <2>2 DEF SFree, SanityType
    <3>2. SanityType' /\ h'.failed = "twice" /\ h'.wrong = "twice"
      BY <1>1, <3>1 DEF SanityType
    <3>3. QED
      BY <1>3, <3>2
  <2>3. CASE a \in DOMAIN all /\ all[a] # FREED
    <3> DEFINE new_below == h.below \ {a}
               new_all == [all EXCEPT ![a] = FREED]
    <3>1. h' = [[h EXCEPT !.below = new_below] EXCEPT !.allocatedObjects = new_all]
      BY <1>1, <1>5, <2>3 DEF SFree, SanityType
    <3>2. new_all \in [DOMAIN all -> Int] /\ new_below \in SUBSET Int
      <4>1. FREED \in Int
        BY DEF FREED
      <4>2. QED
        BY <1>1, <1>2, <4>1 DEF SanityType
    <3>3. new_all \in SizeMaps
      BY <1>2, <3>2 DEF SizeMaps
    <3>4. Live(new_all) = new_below
      BY <1>1, <1>2, <2>3
    <3> HIDE DEF new_all, new_below
    <3>5. /\ SanityType' /\ h'.allocatedObjects = new_all /\ h'.below = new_below
          /\ h'.failed = h.failed /\ h'.wrong = h.wrong
      BY <1>1, <3>1, <3>2, <3>3 DEF SanityType
    <3>6. QED
      BY <1>1, <1>3, <3>4, <3>5
  <2>4. QED
    BY <2>1, <2>2, <2>3
<1>6. QED
  BY <1>4, <1>5 DEF SanityNext

-----------------------------------------------------------------------------
(* Allocation without threads: LibMem *)

\* A sequence without its i-th element
LEMMA RemovedAt ==
  ASSUME NEW T, NEW s \in Seq(T), NEW i \in DOMAIN s
  PROVE  /\ RemoveAt(s, i) \in Seq(T) /\ Len(RemoveAt(s, i)) = Len(s) - 1
         /\ DOMAIN RemoveAt(s, i) = 1 .. Len(s) - 1 /\ Len(s) \in Nat
         /\ \A j \in 1 .. Len(s) - 1 : RemoveAt(s, i)[j] = IF j < i THEN s[j] ELSE s[j + 1]
<1> DEFINE before == SubSeq(s, 1, i - 1)
           after == SubSeq(s, i + 1, Len(s))
<1>1. Len(s) \in Nat /\ DOMAIN s = 1 .. Len(s) /\ i \in 1 .. Len(s)
  BY LenProperties
<1>2. /\ before \in Seq(T) /\ Len(before) = i - 1
      /\ \A j \in 1 .. i - 1 : before[j] = s[j]
  BY <1>1
<1>3. /\ after \in Seq(T) /\ Len(after) = Len(s) - i
      /\ \A j \in 1 .. Len(s) - i : after[j] = s[i + j]
  BY <1>1
<1> HIDE DEF before, after
<1>4. /\ before \o after \in Seq(T) /\ Len(before \o after) = Len(before) + Len(after)
      /\ \A j \in 1 .. Len(before) + Len(after) :
           (before \o after)[j] = IF j <= Len(before) THEN before[j] ELSE after[j - Len(before)]
  BY <1>2, <1>3, ConcatProperties
<1>5. RemoveAt(s, i) = before \o after
  BY DEF RemoveAt, before, after
<1>6. ASSUME NEW j \in 1 .. Len(s) - 1
      PROVE  (before \o after)[j] = IF j < i THEN s[j] ELSE s[j + 1]
  <2>1. CASE j < i
    BY <1>1, <1>2, <1>3, <1>4, <2>1
  <2>2. CASE ~ (j < i)
    <3>1. j - Len(before) \in 1 .. Len(s) - i /\ i + (j - Len(before)) = j + 1
      BY <1>1, <1>2, <2>2
    <3>2. j \in 1 .. Len(before) + Len(after) /\ ~ (j <= Len(before))
      BY <1>1, <1>2, <1>3, <2>2
    <3>3. (before \o after)[j] = after[j - Len(before)]
      BY <1>4, <3>2
    <3>4. after[j - Len(before)] = s[i + (j - Len(before))]
      BY <1>3, <3>1
    <3>5. QED
      BY <2>2, <3>1, <3>3, <3>4
  <2>3. QED
    BY <2>1, <2>2
<1>7. Len(before \o after) = Len(s) - 1
  BY <1>1, <1>2, <1>3, <1>4
<1>8. QED
  BY <1>1, <1>4, <1>5, <1>6, <1>7, LenProperties

\* A sequence with one more in front
LEMMA Prefixed ==
  ASSUME NEW T, NEW s \in Seq(T), NEW e \in T
  PROVE  /\ <<e>> \o s \in Seq(T) /\ Len(<<e>> \o s) = Len(s) + 1
         /\ DOMAIN (<<e>> \o s) = 1 .. Len(s) + 1 /\ Len(s) \in Nat
         /\ (<<e>> \o s)[1] = e
         /\ \A j \in 2 .. Len(s) + 1 : (<<e>> \o s)[j] = s[j - 1] /\ j - 1 \in DOMAIN s
<1>1. <<e>> \in Seq(T) /\ Len(<<e>>) = 1 /\ <<e>>[1] = e
  OBVIOUS
<1>2. Len(s) \in Nat /\ DOMAIN s = 1 .. Len(s)
  BY LenProperties
<1>3. /\ <<e>> \o s \in Seq(T) /\ Len(<<e>> \o s) = 1 + Len(s)
      /\ \A j \in 1 .. 1 + Len(s) : (<<e>> \o s)[j] = IF j <= 1 THEN <<e>>[j] ELSE s[j - 1]
  BY <1>1, ConcatProperties
<1>4. QED
  BY <1>1, <1>2, <1>3, LenProperties

\* Two objects that share no byte
Beside(a, b) == a.at + a.size <= b.at \/ b.at + b.size <= a.at

LEMMA BesideUnits ==
  ASSUME NEW a, NEW b, a.at \in Nat, b.at \in Nat, a.size \in Nat \ {0}, b.size \in Nat \ {0}
  PROVE  Beside(a, b) <=> LMUnits(a) \cap LMUnits(b) = {}
<1> DEFINE x == a.at
           y == b.at
           m == a.size
           n == b.size
<1>1. LMUnits(a) = x .. x + m - 1 /\ LMUnits(b) = y .. y + n - 1
  BY DEF LMUnits
<1>2. x \in Nat /\ y \in Nat /\ m \in Nat \ {0} /\ n \in Nat \ {0}
  OBVIOUS
<1> HIDE DEF x, y, m, n
<1>3. x + m <= y \/ y + n <= x \/ x \in y .. y + n - 1 \/ y \in x .. x + m - 1
  BY <1>2
<1>4. x \in x .. x + m - 1 /\ y \in y .. y + n - 1
  BY <1>2
<1>5. x + m <= y \/ y + n <= x <=> (x .. x + m - 1) \cap (y .. y + n - 1) = {}
  BY <1>2, <1>3, <1>4
<1>6. QED
  BY <1>1, <1>5 DEF Beside, x, y, m, n

LEMMA EvenIs ==
  ASSUME NEW n \in Nat \ {0}
  PROVE  LMEven(n) \in Nat \ {0} /\ LMEven(n) % 2 = 0 /\ n <= LMEven(n)
BY DEF LMEven

LMObject == [from : {"temp", "heap"}, at : Nat, size : Nat \ {0}, gen : Nat, kept : BOOLEAN]
LMBlock == [at : Nat, size : Nat \ {0}]
LMStates ==
  [kind : {"libmem"}, phase : {"loading", "running", "ending"}, initialized : BOOLEAN,
   gen : Nat, temp : Nat, top : Nat, list : Seq(LMBlock), objs : SUBSET LMObject,
   early : BOOLEAN, dead : BOOLEAN]

\* What tempmalloc gave out lies before temp and apart.
TempsApart(s) ==
  /\ \A o \in s.objs : o.from = "temp" => o.at + o.size <= s.temp
  /\ \A o, q \in s.objs : o.from = "temp" /\ q.from = "temp" /\ o # q => Beside(o, q)

\* A block of the heap lies between the heap's first and top, at an even address.
InHeap(s, b) == FirstBlock <= b.at /\ b.at + b.size <= s.top /\ b.at % 2 = 0 /\ b.size % 2 = 0

\* The objects and the free blocks of the heap are apart.
HeapApart(s) ==
  /\ s.top % 2 = 0
  /\ \A o \in s.objs : o.from = "heap" => o.gen = s.gen /\ InHeap(s, o)
  /\ \A i \in DOMAIN s.list : InHeap(s, s.list[i])
  /\ \A o, q \in s.objs : o.from = "heap" /\ q.from = "heap" /\ o # q => Beside(o, q)
  /\ \A i, j \in DOMAIN s.list : i # j => Beside(s.list[i], s.list[j])
  /\ \A o \in s.objs : o.from = "heap" => \A i \in DOMAIN s.list : Beside(o, s.list[i])

\* Data are kept and addresses even, unless realloc came early.
KeptWhole(s) ==
  ~s.early => s.temp % 2 = 0 /\ \A o \in s.objs : o.kept /\ o.at % 2 = 0

LMGood(s) ==
  /\ s \in LMStates
  /\ TempsApart(s)
  /\ s.gen = 0 => ~s.initialized /\ s.list = << >> /\ \A o \in s.objs : o.from = "temp"
  /\ s.gen # 0 => FirstBlock <= s.top
  /\ s.gen <= 1 => HeapApart(s) /\ KeptWhole(s)
LibMemInv == LMGood(h)

LEMMA LibMemStarts == LibMemInit => LibMemInv
<1> SUFFICES ASSUME LibMemInit PROVE LibMemInv
  OBVIOUS
<1>1. << >> \in Seq(LMBlock) /\ DOMAIN << >> = {}
  OBVIOUS
<1>2. h \in LMStates
  BY <1>1 DEF LibMemInit, LMStates
<1>3. /\ h.gen = 0 /\ h.temp = 0 /\ h.top = 0 /\ h.list = << >> /\ h.objs = {}
      /\ ~h.initialized
  BY DEF LibMemInit
<1>4. QED
  BY <1>1, <1>2, <1>3 DEF LibMemInv, LMGood, TempsApart, HeapApart, KeptWhole

LEMMA LibMemHolds == LibMemInv => LibMemWhole
<1> SUFFICES ASSUME LibMemInv PROVE LibMemWhole
  OBVIOUS
<1> DEFINE temps == {o \in h.objs : o.from = "temp"}
           heaps == h.objs \ temps
           Apart(S) == \A o, q \in S : o # q => LMUnits(o) \cap LMUnits(q) = {}
<1>1. h \in LMStates /\ TempsApart(h)
  BY DEF LibMemInv, LMGood
<1>2. \A o \in h.objs : o.at \in Nat /\ o.size \in Nat \ {0} /\ o.from \in {"temp", "heap"}
  BY <1>1 DEF LMStates, LMObject
<1>3. h.list \in Seq(LMBlock) /\ \A i \in DOMAIN h.list : h.list[i].at \in Nat /\ h.list[i].size \in Nat \ {0}
  <2>1. h.list \in Seq(LMBlock)
    BY <1>1 DEF LMStates
  <2>2. \A i \in DOMAIN h.list : h.list[i] \in LMBlock
    BY <2>1
  <2>3. QED
    BY <2>1, <2>2 DEF LMBlock
<1>4. \A o \in heaps : o \in h.objs /\ o.from = "heap"
  BY <1>2
<1>5. Apart(temps) /\ \A o \in temps : o.at + o.size <= h.temp
  BY <1>1, <1>2, BesideUnits DEF TempsApart
<1>6. ASSUME h.gen <= 1
      PROVE  /\ Apart(heaps) /\ Apart(ToSet(h.list)) /\ IsInjective(h.list)
             /\ \A o \in heaps :
                  /\ o.at \in FirstBlock .. h.top - o.size
                  /\ \A b \in ToSet(h.list) : LMUnits(o) \cap LMUnits(b) = {}
             /\ ~h.early => \A o \in h.objs : o.kept /\ o.at % 2 = 0
  <2>1. HeapApart(h) /\ KeptWhole(h)
    BY <1>6 DEF LibMemInv, LMGood
  <2>2. Apart(heaps)
    BY <1>2, <1>4, <2>1, BesideUnits DEF HeapApart
  <2>3. \A b \in ToSet(h.list) : \E i \in DOMAIN h.list : b = h.list[i]
    BY <1>3 DEF ToSet
  <2>4. Apart(ToSet(h.list))
    BY <1>3, <2>1, <2>3, BesideUnits DEF HeapApart
  <2>5. IsInjective(h.list)
    BY <1>3, <2>1 DEF IsInjective, HeapApart, Beside
  <2>6. ASSUME NEW o \in heaps PROVE o.at \in FirstBlock .. h.top - o.size
    <3>1. o.at \in Nat /\ o.size \in Nat /\ h.top \in Nat
      BY <1>1, <1>2, <1>4 DEF LMStates
    <3>2. QED
      BY <1>4, <2>1, <3>1 DEF HeapApart, InHeap, FirstBlock
  <2>7. ASSUME NEW o \in heaps, NEW b \in ToSet(h.list) PROVE LMUnits(o) \cap LMUnits(b) = {}
    BY <1>2, <1>3, <1>4, <2>1, <2>3, BesideUnits DEF HeapApart
  <2>8. QED
    BY <2>1, <2>2, <2>4, <2>5, <2>6, <2>7 DEF KeptWhole
<1>7. QED
  BY <1>5, <1>6 DEF LibMemWhole

\* Nothing but what LMGood does not speak of
LEMMA LMGoodSame ==
  ASSUME NEW s, LMGood(s), NEW r \in LMStates, r.objs = s.objs, r.list = s.list, r.temp = s.temp,
         r.top = s.top, r.gen = s.gen, s.early => r.early, s.gen = 0 => ~r.initialized
  PROVE  LMGood(r)
BY DEF LMGood, TempsApart, HeapApart, KeptWhole, InHeap

LEMMA LMSetUpGood ==
  ASSUME NEW s, LMGood(s)
  PROVE  /\ LMGood(LMSetUp(s)) /\ LMSetUp(s).initialized /\ LMSetUp(s).gen # 0
<1> DEFINE Lost(o) == [o EXCEPT !.kept = o.kept /\ o.from = "temp"]
           new_objs == {Lost(o) : o \in s.objs}
           new_gen == s.gen + 1
           r == LMSetUp(s)
<1>1. s \in LMStates /\ TempsApart(s)
  BY DEF LMGood
<1>2. r = [[[[[s EXCEPT !.initialized = TRUE] EXCEPT !.gen = new_gen] EXCEPT !.top = FirstBlock]
             EXCEPT !.list = << >>] EXCEPT !.objs = new_objs]
  BY <1>1 DEF LMSetUp, LMStates
<1>3. s.objs \in SUBSET LMObject
  BY <1>1 DEF LMStates
<1>4. \A o \in s.objs : Lost(o) \in LMObject /\ (o.from = "temp" => Lost(o) = o) /\ Lost(o).from = o.from
  BY <1>3 DEF LMObject
<1> HIDE DEF Lost
<1>5. new_objs \in SUBSET LMObject /\ \A o \in new_objs : o.from = "temp" => o \in s.objs
  BY <1>4
<1>6. new_gen \in Nat \ {0} /\ FirstBlock \in Nat /\ << >> \in Seq(LMBlock) /\ DOMAIN << >> = {}
  BY <1>1 DEF LMStates, FirstBlock
<1>7. s.gen = 0 => new_objs = s.objs
  BY <1>4 DEF LMGood
<1> HIDE DEF new_objs, new_gen, r
<1>8. r \in LMStates /\ r.initialized /\ r.gen = new_gen /\ r.list = << >> /\ r.objs = new_objs
      /\ r.top = FirstBlock /\ r.temp = s.temp /\ r.early = s.early
  BY <1>1, <1>2, <1>5, <1>6 DEF LMStates
<1>9. TempsApart(r)
  BY <1>1, <1>5, <1>8 DEF TempsApart
<1>10. ASSUME r.gen <= 1 PROVE HeapApart(r) /\ KeptWhole(r)
  <2>1. s.gen = 0
    BY <1>1, <1>8, <1>10 DEF new_gen, LMStates
  <2>2. KeptWhole(s) /\ \A o \in s.objs : o.from = "temp"
    BY <2>1 DEF LMGood
  <2>3. FirstBlock % 2 = 0
    BY DEF FirstBlock
  <2>4. QED
    BY <1>6, <1>7, <1>8, <2>1, <2>2, <2>3 DEF HeapApart, KeptWhole
<1>11. LMGood(r)
  BY <1>6, <1>8, <1>9, <1>10 DEF LMGood
<1>12. QED
  BY <1>6, <1>8, <1>11 DEF r

LEMMA LMTempGood ==
  ASSUME NEW s, LMGood(s), NEW sz \in Nat \ {0}, NEW kept \in BOOLEAN,
         ~s.early => kept /\ sz % 2 = 0
  PROVE  LMGood(LMTempMalloc(s, sz, kept))
<1>1. s \in LMStates /\ TempsApart(s) /\ s.temp \in Nat /\ s.objs \in SUBSET LMObject
  BY DEF LMGood, LMStates
<1>2. CASE s.temp + sz > LMTemp
  <2>1. LMTempMalloc(s, sz, kept) = [s EXCEPT !.dead = TRUE]
    BY <1>2 DEF LMTempMalloc
  <2> DEFINE r == [s EXCEPT !.dead = TRUE]
  <2>2. r \in LMStates /\ r.objs = s.objs /\ r.list = s.list /\ r.temp = s.temp
        /\ r.top = s.top /\ r.gen = s.gen /\ r.early = s.early /\ r.initialized = s.initialized
    BY <1>1 DEF LMStates
  <2> HIDE DEF r
  <2>3. LMGood(r)
    BY <2>2, LMGoodSame DEF LMGood
  <2>4. QED
    BY <2>1, <2>3 DEF r
<1>3. CASE ~ (s.temp + sz > LMTemp)
  <2> DEFINE o == [from |-> "temp", at |-> s.temp, size |-> sz, gen |-> 0, kept |-> kept]
             new_temp == s.temp + sz
             new_objs == s.objs \cup {o}
             r == LMTempMalloc(s, sz, kept)
  <2>1. r = [[s EXCEPT !.temp = new_temp] EXCEPT !.objs = new_objs]
    BY <1>1, <1>3 DEF LMTempMalloc, LMStates
  <2>2. o \in LMObject /\ o.from = "temp" /\ o.at = s.temp /\ o.size = sz /\ o.kept = kept
    BY <1>1 DEF LMObject
  <2> HIDE DEF o, r
  <2>3. new_temp \in Nat /\ new_objs \in SUBSET LMObject /\ s.temp <= new_temp
    BY <1>1, <2>2
  <2>4. r \in LMStates /\ r.objs = new_objs /\ r.temp = new_temp /\ r.list = s.list
        /\ r.top = s.top /\ r.gen = s.gen /\ r.early = s.early /\ r.initialized = s.initialized
    BY <1>1, <2>1, <2>3 DEF LMStates
  <2>5. \A q \in s.objs : q.from = "temp" => q.at + q.size <= new_temp /\ Beside(q, o) /\ Beside(o, q)
    <3> SUFFICES ASSUME NEW q \in s.objs, q.from = "temp"
                 PROVE  q.at + q.size <= new_temp /\ Beside(q, o) /\ Beside(o, q)
      OBVIOUS
    <3>1. q.at \in Nat /\ q.size \in Nat /\ q.at + q.size <= s.temp
      BY <1>1 DEF TempsApart, LMObject
    <3>2. QED
      BY <1>1, <2>2, <2>3, <3>1 DEF Beside
  <2>6. TempsApart(r)
    BY <1>1, <2>2, <2>4, <2>5 DEF TempsApart
  <2>7. HeapApart(s) => HeapApart(r)
    BY <2>2, <2>4 DEF HeapApart, InHeap
  <2>8. KeptWhole(s) => KeptWhole(r)
    <3>1. ~s.early /\ s.temp % 2 = 0 => new_temp % 2 = 0 /\ o.at % 2 = 0 /\ o.kept
      BY <1>1, <2>2
    <3>2. QED
      BY <2>4, <3>1 DEF KeptWhole
  <2>9. LMGood(r)
    BY <2>2, <2>4, <2>6, <2>7, <2>8 DEF LMGood
  <2>10. QED
    BY <2>9 DEF r
<1>4. QED
  BY <1>2, <1>3

\* Fewer objects, and nothing else
LEMMA LMFewer ==
  ASSUME NEW s, LMGood(s), NEW fewer \in SUBSET s.objs
  PROVE  /\ LMGood([s EXCEPT !.objs = fewer])
         /\ [s EXCEPT !.objs = fewer].gen = s.gen /\ [s EXCEPT !.objs = fewer].early = s.early
<1> DEFINE r == [s EXCEPT !.objs = fewer]
<1>1. s \in LMStates /\ s.objs \in SUBSET LMObject
  BY DEF LMGood, LMStates
<1>2. r \in LMStates /\ r.objs = fewer /\ r.list = s.list /\ r.temp = s.temp
      /\ r.top = s.top /\ r.gen = s.gen /\ r.early = s.early /\ r.initialized = s.initialized
  BY <1>1 DEF LMStates
<1> HIDE DEF r
<1>3. /\ TempsApart(s) => TempsApart(r)
      /\ HeapApart(s) => HeapApart(r)
      /\ KeptWhole(s) => KeptWhole(r)
  BY <1>2 DEF TempsApart, HeapApart, KeptWhole, InHeap
<1>4. LMGood(r)
  BY <1>2, <1>3 DEF LMGood
<1>5. QED
  BY <1>2, <1>4 DEF r

\* A block of the heap beside all others becomes an object.
LEMMA LMTakeGood ==
  ASSUME NEW s, LMGood(s), s.gen # 0, NEW b \in LMBlock, NEW kept \in BOOLEAN,
         s.gen <= 1 /\ ~s.early => kept,
         s.gen <= 1 => /\ InHeap(s, b)
                       /\ \A o \in s.objs : o.from = "heap" => Beside(o, b)
                       /\ \A i \in DOMAIN s.list : Beside(b, s.list[i])
  PROVE  LMGood(LMTake(s, b, kept)) /\ s.objs \subseteq LMTake(s, b, kept).objs
         /\ LMTake(s, b, kept).gen = s.gen
<1> DEFINE o == [from |-> "heap", at |-> b.at, size |-> b.size, gen |-> s.gen, kept |-> kept]
           new_objs == s.objs \cup {o}
           r == LMTake(s, b, kept)
<1>1. s \in LMStates /\ TempsApart(s) /\ s.objs \in SUBSET LMObject /\ s.gen \in Nat
  BY DEF LMGood, LMStates
<1>2. o \in LMObject /\ o.from = "heap" /\ o.at = b.at /\ o.size = b.size /\ o.gen = s.gen /\ o.kept = kept
  BY <1>1 DEF LMObject, LMBlock
<1>3. r = [s EXCEPT !.objs = new_objs]
  BY DEF LMTake
<1>4. new_objs \in SUBSET LMObject
  BY <1>1, <1>2
<1> HIDE DEF o, r
<1>5. r \in LMStates /\ r.objs = new_objs /\ r.list = s.list /\ r.temp = s.temp
      /\ r.top = s.top /\ r.gen = s.gen /\ r.early = s.early /\ r.initialized = s.initialized
  BY <1>1, <1>3, <1>4 DEF LMStates
<1>6. TempsApart(r)
  BY <1>1, <1>2, <1>5 DEF TempsApart
<1>7. ASSUME s.gen <= 1 PROVE HeapApart(r) /\ KeptWhole(r)
  <2>1. HeapApart(s) /\ KeptWhole(s) /\ InHeap(s, o)
        /\ (\A q \in s.objs : q.from = "heap" => Beside(q, o) /\ Beside(o, q))
        /\ \A j \in DOMAIN s.list : Beside(o, s.list[j])
    BY <1>2, <1>7 DEF LMGood, InHeap, Beside
  <2>2. HeapApart(r)
    BY <1>2, <1>5, <2>1 DEF HeapApart, InHeap
  <2>3. KeptWhole(r)
    BY <1>2, <1>5, <1>7, <2>1 DEF KeptWhole, InHeap
  <2>4. QED
    BY <2>2, <2>3
<1>8. LMGood(r)
  BY <1>5, <1>6, <1>7 DEF LMGood
<1>9. QED
  BY <1>5, <1>8 DEF r

LEMMA LMMallocGood ==
  ASSUME NEW s, LMGood(s), s.gen # 0, NEW sz \in Nat \ {0}, NEW kept \in BOOLEAN,
         s.gen <= 1 /\ ~s.early => kept
  PROVE  LMGood(MemMalloc(s, sz, kept)) /\ s.objs \subseteq MemMalloc(s, sz, kept).objs
         /\ MemMalloc(s, sz, kept).gen = s.gen
<1> DEFINE fits == {i \in DOMAIN s.list : s.list[i].size = LMEven(sz)}
           n == LMEven(sz)
<1>1. /\ s \in LMStates /\ s.list \in Seq(LMBlock) /\ Len(s.list) \in Nat
      /\ DOMAIN s.list = 1 .. Len(s.list) /\ s.top \in Nat
      /\ s.gen <= 1 => HeapApart(s)
  BY LenProperties DEF LMGood, LMStates
<1>2. n \in Nat \ {0} /\ n % 2 = 0
  BY EvenIs
<1>3. CASE fits # {}
  <2> DEFINE k == Min(fits)
             b == s.list[k]
             new_list == RemoveAt(s.list, k)
             r == [s EXCEPT !.list = new_list]
  <2>1. k \in DOMAIN s.list
    <3>1. fits \subseteq Nat
      BY <1>1
    <3>2. QED
      BY <1>3, <3>1, MinIn
  <2>2. MemMalloc(s, sz, kept) = LMTake(r, b, kept)
    BY <1>3 DEF MemMalloc
  <2> HIDE DEF k
  <2>3. b \in LMBlock
    BY <1>1, <2>1
  <2>4. /\ new_list \in Seq(LMBlock) /\ DOMAIN new_list = 1 .. Len(s.list) - 1
        /\ \A j \in 1 .. Len(s.list) - 1 :
             new_list[j] = IF j < k THEN s.list[j] ELSE s.list[j + 1]
    BY <1>1, <2>1, RemovedAt
  <2>5. ASSUME NEW j \in DOMAIN new_list
        PROVE  \E m \in DOMAIN s.list : m # k /\ new_list[j] = s.list[m] /\ m = IF j < k THEN j ELSE j + 1
    <3> DEFINE m == IF j < k THEN j ELSE j + 1
    <3>1. m \in DOMAIN s.list /\ m # k
      BY <1>1, <2>1, <2>4
    <3>2. new_list[j] = s.list[m]
      BY <1>1, <2>1, <2>4
    <3>3. QED
      BY <3>1, <3>2
  <2> HIDE DEF b, new_list
  <2>6. r \in LMStates /\ r.objs = s.objs /\ r.list = new_list /\ r.temp = s.temp
        /\ r.top = s.top /\ r.gen = s.gen /\ r.early = s.early /\ r.initialized = s.initialized
    BY <1>1, <2>4 DEF LMStates
  <2> HIDE DEF r
  <2>7. TempsApart(r) /\ (KeptWhole(s) => KeptWhole(r))
    BY <2>6 DEF LMGood, TempsApart, KeptWhole
  <2>8. ASSUME s.gen <= 1
        PROVE  /\ HeapApart(r) /\ InHeap(r, b)
               /\ \A o \in s.objs : o.from = "heap" => Beside(o, b)
               /\ \A j \in DOMAIN new_list : Beside(b, new_list[j])
    <3>1. \A j \in DOMAIN new_list : InHeap(r, new_list[j]) /\ Beside(b, new_list[j])
      BY <1>1, <2>1, <2>5, <2>6, <2>8 DEF HeapApart, InHeap, b
    <3>2. \A i, j \in DOMAIN new_list : i # j => Beside(new_list[i], new_list[j])
      <4> SUFFICES ASSUME NEW i \in DOMAIN new_list, NEW j \in DOMAIN new_list, i # j
                   PROVE  Beside(new_list[i], new_list[j])
        OBVIOUS
      <4>1. PICK m \in DOMAIN s.list : new_list[i] = s.list[m] /\ m = IF i < k THEN i ELSE i + 1
        BY <2>5
      <4>2. PICK p \in DOMAIN s.list : new_list[j] = s.list[p] /\ p = IF j < k THEN j ELSE j + 1
        BY <2>5
      <4>3. m # p
        BY <1>1, <2>1, <2>4, <4>1, <4>2
      <4>4. QED
        BY <1>1, <2>8, <4>1, <4>2, <4>3 DEF HeapApart
    <3>3. \A o \in s.objs : o.from = "heap" => \A j \in DOMAIN new_list : Beside(o, new_list[j])
      BY <1>1, <2>5, <2>8 DEF HeapApart
    <3>4. InHeap(r, b) /\ \A o \in s.objs : o.from = "heap" => Beside(o, b)
      BY <1>1, <2>1, <2>6, <2>8 DEF HeapApart, InHeap, b
    <3>5. HeapApart(r)
      BY <1>1, <2>6, <2>8, <3>1, <3>2, <3>3 DEF HeapApart, InHeap
    <3>6. QED
      BY <3>1, <3>4, <3>5
  <2>9. LMGood(r)
    BY <2>6, <2>7, <2>8 DEF LMGood
  <2>10. QED
    <3>1. s.gen <= 1 => /\ InHeap(r, b)
                        /\ \A o \in r.objs : o.from = "heap" => Beside(o, b)
                        /\ \A j \in DOMAIN r.list : Beside(b, r.list[j])
      BY <2>6, <2>8
    <3>2. LMGood(LMTake(r, b, kept)) /\ r.objs \subseteq LMTake(r, b, kept).objs
          /\ LMTake(r, b, kept).gen = r.gen
      BY <2>3, <2>6, <2>9, <3>1, LMTakeGood
    <3>3. QED
      BY <2>2, <2>6, <3>2
<1>4. CASE fits = {} /\ s.top + n > LMHeap
  <2> DEFINE r == [s EXCEPT !.dead = TRUE]
  <2>1. MemMalloc(s, sz, kept) = r
    BY <1>4 DEF MemMalloc
  <2>2. r \in LMStates /\ r.objs = s.objs /\ r.list = s.list /\ r.temp = s.temp
        /\ r.top = s.top /\ r.gen = s.gen /\ r.early = s.early /\ r.initialized = s.initialized
    BY <1>1 DEF LMStates
  <2> HIDE DEF r
  <2>3. LMGood(r)
    BY <2>2, LMGoodSame DEF LMGood
  <2>4. QED
    BY <2>1, <2>2, <2>3
<1>5. CASE fits = {} /\ ~ (s.top + n > LMHeap)
  <2> DEFINE b == [at |-> s.top, size |-> n]
             new_top == s.top + n
             r == [s EXCEPT !.top = new_top]
  <2>1. MemMalloc(s, sz, kept) = LMTake(r, b, kept)
    BY <1>5 DEF MemMalloc
  <2>2. b \in LMBlock /\ b.at = s.top /\ b.size = n /\ new_top \in Nat /\ s.top <= new_top
    BY <1>1, <1>2 DEF LMBlock
  <2>3. s.top % 2 = 0 => new_top % 2 = 0
    BY <1>1, <1>2
  <2> HIDE DEF b
  <2>4. r \in LMStates /\ r.objs = s.objs /\ r.list = s.list /\ r.temp = s.temp
        /\ r.top = new_top /\ r.gen = s.gen /\ r.early = s.early /\ r.initialized = s.initialized
    BY <1>1, <2>2 DEF LMStates
  <2> HIDE DEF r
  <2>5. TempsApart(r) /\ (KeptWhole(s) => KeptWhole(r))
    BY <2>4 DEF LMGood, TempsApart, KeptWhole
  <2>6. ASSUME NEW a, a.at \in Nat, a.size \in Nat, InHeap(s, a)
        PROVE  InHeap(r, a) /\ Beside(a, b) /\ Beside(b, a)
    BY <1>1, <2>2, <2>4, <2>6 DEF InHeap, Beside
  <2>7. \A o \in s.objs : o.at \in Nat /\ o.size \in Nat
    BY <1>1 DEF LMStates, LMObject
  <2>8. \A i \in DOMAIN s.list : s.list[i].at \in Nat /\ s.list[i].size \in Nat
    <3>1. \A i \in DOMAIN s.list : s.list[i] \in LMBlock
      BY <1>1
    <3>2. QED
      BY <3>1 DEF LMBlock
  <2>9. ASSUME s.gen <= 1
        PROVE  /\ HeapApart(r) /\ InHeap(r, b)
               /\ \A o \in s.objs : o.from = "heap" => Beside(o, b)
               /\ \A j \in DOMAIN s.list : Beside(b, s.list[j])
    <3>1. /\ \A o \in s.objs : o.from = "heap" => InHeap(r, o) /\ Beside(o, b)
          /\ \A j \in DOMAIN s.list : InHeap(r, s.list[j]) /\ Beside(b, s.list[j])
      BY <1>1, <2>6, <2>7, <2>8, <2>9 DEF HeapApart
    <3>2. FirstBlock <= s.top
      BY DEF LMGood
    <3>3. InHeap(r, b)
      BY <1>1, <1>2, <2>2, <2>4, <2>9, <3>2 DEF HeapApart, InHeap
    <3>4. HeapApart(r)
      BY <1>1, <2>3, <2>4, <2>9, <3>1 DEF HeapApart
    <3>5. QED
      BY <3>1, <3>3, <3>4
  <2>10. LMGood(r)
    <3>1. s.gen # 0 => FirstBlock <= new_top
      BY <1>1, <2>2 DEF LMGood, FirstBlock
    <3> HIDE DEF new_top
    <3>2. QED
      BY <2>4, <2>5, <2>9, <3>1 DEF LMGood
  <2>11. QED
    <3>1. s.gen <= 1 => /\ InHeap(r, b)
                        /\ \A o \in r.objs : o.from = "heap" => Beside(o, b)
                        /\ \A j \in DOMAIN r.list : Beside(b, r.list[j])
      BY <2>4, <2>9
    <3>2. LMGood(LMTake(r, b, kept)) /\ r.objs \subseteq LMTake(r, b, kept).objs
          /\ LMTake(r, b, kept).gen = r.gen
      BY <2>2, <2>4, <2>10, <3>1, LMTakeGood
    <3>3. QED
      BY <2>1, <2>4, <3>2
<1>6. QED
  BY <1>3, <1>4, <1>5

LEMMA LMFreeGood ==
  ASSUME NEW s, LMGood(s), s.gen # 0, NEW o \in s.objs
  PROVE  LMGood(MemFree(s, o))
<1>1. /\ s \in LMStates /\ s.list \in Seq(LMBlock) /\ Len(s.list) \in Nat
      /\ DOMAIN s.list = 1 .. Len(s.list) /\ s.top \in Nat
      /\ s.gen <= 1 => HeapApart(s)
  BY LenProperties DEF LMGood, LMStates
<1>2. \A q \in s.objs : q.at \in Nat /\ q.size \in Nat \ {0}
  BY <1>1 DEF LMStates, LMObject
<1>3. \A i \in DOMAIN s.list : s.list[i] \in LMBlock
  BY <1>1
<1>4. CASE HeaderOf(s, o) = {}
  <2> DEFINE r == [s EXCEPT !.dead = TRUE]
  <2>1. MemFree(s, o) = r
    BY <1>4 DEF MemFree
  <2>2. r \in LMStates /\ r.objs = s.objs /\ r.list = s.list /\ r.temp = s.temp
        /\ r.top = s.top /\ r.gen = s.gen /\ r.early = s.early /\ r.initialized = s.initialized
    BY <1>1 DEF LMStates
  <2> HIDE DEF r
  <2>3. QED
    BY <2>1, <2>2, LMGoodSame
<1>5. CASE HeaderOf(s, o) # {}
  <2> DEFINE b == CHOOSE x \in HeaderOf(s, o) : TRUE
             new_list == <<b>> \o s.list
             new_objs == s.objs \ {o}
             r == MemFree(s, o)
  <2>1. r = [[s EXCEPT !.list = new_list] EXCEPT !.objs = new_objs]
    BY <1>1, <1>5 DEF MemFree, LMStates
  <2>2. b \in Headers(s) /\ o.from = "heap" /\ b.at = o.at
    BY <1>5 DEF HeaderOf
  <2> HIDE DEF b, r
  <2>3. \/ \E q \in s.objs : q.from = "heap" /\ q.gen = s.gen /\ b = [at |-> q.at, size |-> q.size]
        \/ \E i \in DOMAIN s.list : b = s.list[i]
        \/ b = [at |-> 0, size |-> FirstBlock]
    BY <1>1, <2>2 DEF Headers, ToSet
  <2>4. b \in LMBlock
    BY <1>2, <1>3, <2>3 DEF LMBlock, FirstBlock
  <2>5. /\ new_list \in Seq(LMBlock) /\ DOMAIN new_list = 1 .. Len(s.list) + 1 /\ new_list[1] = b
        /\ \A j \in 2 .. Len(s.list) + 1 : new_list[j] = s.list[j - 1] /\ j - 1 \in DOMAIN s.list
    BY <1>1, <2>4, Prefixed
  <2> HIDE DEF new_list
  <2>6. r \in LMStates /\ r.objs = new_objs /\ r.list = new_list /\ r.temp = s.temp
        /\ r.top = s.top /\ r.gen = s.gen /\ r.early = s.early /\ r.initialized = s.initialized
    BY <1>1, <2>1, <2>5 DEF LMStates
  <2>7. TempsApart(r) /\ (KeptWhole(s) => KeptWhole(r))
    BY <2>6 DEF LMGood, TempsApart, KeptWhole
  <2>8. ASSUME s.gen <= 1 PROVE HeapApart(r)
    <3>1. HeapApart(s) /\ InHeap(s, o) /\ o.at \in Nat /\ o.size \in Nat \ {0}
      BY <1>1, <1>2, <2>2, <2>8 DEF HeapApart
    <3>2. b.at = o.at /\ b.size = o.size
      <4>1. ASSUME NEW q \in s.objs, q.from = "heap", b = [at |-> q.at, size |-> q.size]
            PROVE  b.size = o.size
        <5>1. q.at = o.at
          BY <2>2, <4>1
        <5>2. ~ Beside(o, q)
          BY <1>2, <5>1 DEF Beside
        <5>3. q = o
          BY <2>2, <3>1, <4>1, <5>2 DEF HeapApart
        <5>4. QED
          BY <4>1, <5>3
      <4>2. ASSUME NEW i \in DOMAIN s.list, b = s.list[i] PROVE FALSE
        <5>1. Beside(o, b)
          BY <2>2, <3>1, <4>2 DEF HeapApart
        <5>2. QED
          BY <2>2, <2>4, <3>1, <5>1 DEF Beside, LMBlock
      <4>3. b # [at |-> 0, size |-> FirstBlock]
        BY <2>2, <3>1 DEF InHeap, FirstBlock
      <4>4. QED
        BY <2>2, <2>3, <4>1, <4>2, <4>3
    <3>3. InHeap(r, b)
      BY <2>6, <3>1, <3>2 DEF InHeap
    <3>4. \A i \in DOMAIN s.list : Beside(b, s.list[i]) /\ Beside(s.list[i], b)
      BY <2>2, <3>1, <3>2 DEF HeapApart, Beside
    <3>5. \A q \in new_objs : q.from = "heap" => Beside(q, b)
      BY <2>2, <3>1, <3>2 DEF HeapApart, Beside
    <3>6. \A j \in DOMAIN new_list : j = 1 \/ j \in 2 .. Len(s.list) + 1
      BY <1>1, <2>5
    <3>7. \A j \in DOMAIN new_list : InHeap(r, new_list[j])
      BY <2>5, <2>6, <3>1, <3>3, <3>6 DEF HeapApart, InHeap
    <3>8. \A i, j \in DOMAIN new_list : i # j => Beside(new_list[i], new_list[j])
      <4> SUFFICES ASSUME NEW i \in DOMAIN new_list, NEW j \in DOMAIN new_list, i # j
                   PROVE  Beside(new_list[i], new_list[j])
        OBVIOUS
      <4>1. CASE i = 1
        BY <2>5, <3>4, <3>6, <4>1
      <4>2. CASE j = 1
        BY <2>5, <3>4, <3>6, <4>2
      <4>3. CASE i # 1 /\ j # 1
        <5>1. new_list[i] = s.list[i - 1] /\ new_list[j] = s.list[j - 1] /\ i - 1 # j - 1
              /\ i - 1 \in DOMAIN s.list /\ j - 1 \in DOMAIN s.list
          BY <2>5, <3>6, <4>3
        <5>2. QED
          BY <3>1, <5>1 DEF HeapApart
      <4>4. QED
        BY <4>1, <4>2, <4>3
    <3>9. \A q \in new_objs : q.from = "heap" => \A j \in DOMAIN new_list : Beside(q, new_list[j])
      BY <2>5, <3>1, <3>5, <3>6 DEF HeapApart
    <3>10. QED
      BY <2>6, <3>1, <3>7, <3>8, <3>9 DEF HeapApart, InHeap
  <2>9. LMGood(r)
    BY <2>6, <2>7, <2>8 DEF LMGood
  <2>10. QED
    BY <2>9 DEF r
<1>6. QED
  BY <1>4, <1>5

LEMMA LibMemKept ==
  ASSUME LibMemInv, LibMemNext
  PROVE  LibMemInv'
<1>1. LMGood(h) /\ h \in LMStates /\ LMSizes \subseteq Nat \ {0}
  BY LibMemAssumption DEF LibMemInv, LMGood
<1>2. h.initialized => h.gen # 0
  BY <1>1 DEF LMGood
<1>3. ASSUME NEW s, LMGood(s), h' = s PROVE LibMemInv'
  BY <1>3 DEF LibMemInv, LMGood, TempsApart, HeapApart, KeptWhole, InHeap
<1>4. CASE LMInitializer
  <2>1. h' = [LMSetUp(h) EXCEPT !.phase = "running"] /\ LMGood(LMSetUp(h)) /\ LMSetUp(h).gen # 0
    BY <1>1, <1>4, LMSetUpGood DEF LMInitializer
  <2> DEFINE s == LMSetUp(h)
             r == [s EXCEPT !.phase = "running"]
  <2>2. s \in LMStates
    BY <2>1 DEF LMGood
  <2> HIDE DEF s
  <2>3. r \in LMStates /\ r.objs = s.objs /\ r.list = s.list /\ r.temp = s.temp
        /\ r.top = s.top /\ r.gen = s.gen /\ r.early = s.early /\ r.initialized = s.initialized
    BY <2>2 DEF LMStates
  <2> HIDE DEF r
  <2>4. LMGood(r)
    BY <2>1, <2>3, LMGoodSame DEF s
  <2>5. QED
    BY <1>3, <2>1, <2>4 DEF r, s
<1>5. CASE LMFinalizer
  <2> DEFINE r == [[h EXCEPT !.phase = "ending"] EXCEPT !.initialized = FALSE]
  <2>1. h' = r
    BY <1>1, <1>5 DEF LMFinalizer, LMStates
  <2>2. r \in LMStates /\ r.objs = h.objs /\ r.list = h.list /\ r.temp = h.temp
        /\ r.top = h.top /\ r.gen = h.gen /\ r.early = h.early /\ ~r.initialized
    BY <1>1 DEF LMStates
  <2> HIDE DEF r
  <2>3. QED
    BY <1>1, <1>3, <2>1, <2>2, LMGoodSame
<1>6. ASSUME NEW sz \in Nat \ {0}, LMMalloc(sz) PROVE LibMemInv'
  <2>1. CASE h.initialized
    BY <1>1, <1>2, <1>3, <1>6, <2>1, LMMallocGood DEF LMMalloc
  <2>2. CASE ~h.initialized
    BY <1>1, <1>3, <1>6, <2>2, LMTempGood, EvenIs DEF LMMalloc
  <2>3. QED
    BY <2>1, <2>2
<1>7. ASSUME NEW sz \in LMSizes, LMMemalign(2, sz) PROVE LibMemInv'
  <2>1. 2 + sz \in Nat \ {0}
    BY <1>1
  <2>2. CASE h.initialized
    BY <1>1, <1>2, <1>3, <1>7, <2>1, <2>2, LMMallocGood DEF LMMemalign
  <2>3. CASE ~h.initialized
    BY <1>1, <1>3, <1>7, <2>1, <2>3, LMSetUpGood, LMMallocGood DEF LMMemalign
  <2>4. QED
    BY <2>2, <2>3
<1>8. ASSUME NEW fewer \in SUBSET h.objs
      PROVE  LET r == [[h EXCEPT !.early = TRUE] EXCEPT !.objs = fewer] IN LMGood(r) /\ r.early
  <2> DEFINE r == [[h EXCEPT !.early = TRUE] EXCEPT !.objs = fewer]
             s == [h EXCEPT !.objs = fewer]
  <2>1. LMGood(s) /\ s \in LMStates
    BY <1>1, LMFewer DEF LMGood
  <2>2. r \in LMStates /\ r.objs = s.objs /\ r.list = s.list /\ r.temp = s.temp
        /\ r.top = s.top /\ r.gen = s.gen /\ r.early /\ r.initialized = s.initialized
    BY <1>1 DEF LMStates
  <2> HIDE DEF r, s
  <2>3. LMGood(r) /\ r.early
    BY <2>1, <2>2, LMGoodSame DEF LMGood
  <2>4. QED
    BY <2>3 DEF r
<1>9. ASSUME NEW sz \in LMSizes, LMReallocNull(sz) PROVE LibMemInv'
  <2>1. sz \in Nat \ {0}
    BY <1>1
  <2>2. CASE h.initialized
    BY <1>1, <1>2, <1>3, <1>9, <2>1, <2>2, LMMallocGood DEF LMReallocNull
  <2>3. CASE ~h.initialized
    <3> DEFINE r == [[h EXCEPT !.early = TRUE] EXCEPT !.objs = h.objs]
    <3>1. [h EXCEPT !.early = TRUE] = r
      BY <1>1 DEF LMStates
    <3>2. LMGood(r) /\ r.early
      BY <1>8
    <3> HIDE DEF r
    <3>3. h' = LMTempMalloc(r, sz, TRUE)
      BY <1>9, <2>3, <3>1 DEF LMReallocNull
    <3>4. QED
      BY <1>3, <2>1, <3>2, <3>3, LMTempGood
  <2>4. QED
    BY <2>2, <2>3
<1>10. ASSUME NEW o \in h.objs, LMFree(o) PROVE LibMemInv'
  <2>1. CASE h.initialized
    BY <1>1, <1>2, <1>3, <1>10, <2>1, LMFreeGood DEF LMFree
  <2>2. CASE ~h.initialized
    <3>1. h' = [h EXCEPT !.objs = h.objs \ {o}] /\ h.objs \ {o} \in SUBSET h.objs
      BY <1>10, <2>2 DEF LMFree
    <3>2. QED
      BY <1>1, <1>3, <3>1, LMFewer
  <2>3. QED
    BY <2>1, <2>2
<1>11. ASSUME h' = [h EXCEPT !.dead = TRUE] PROVE LibMemInv'
  <2> DEFINE r == [h EXCEPT !.dead = TRUE]
  <2>1. r \in LMStates /\ r.objs = h.objs /\ r.list = h.list /\ r.temp = h.temp
        /\ r.top = h.top /\ r.gen = h.gen /\ r.early = h.early /\ r.initialized = h.initialized
    BY <1>1 DEF LMStates
  <2> HIDE DEF r
  <2>2. LMGood(r)
    BY <1>1, <1>2, <2>1, LMGoodSame
  <2>3. QED
    BY <1>3, <1>11, <2>2 DEF r
<1>12. ASSUME NEW o \in h.objs, NEW sz \in LMSizes, LMRealloc(o, sz) PROVE LibMemInv'
  <2>1. sz \in Nat \ {0} /\ o.kept \in BOOLEAN
    BY <1>1 DEF LMStates, LMObject
  <2>2. CASE ~h.initialized
    <3> DEFINE fewer == h.objs \ {o}
               r == [[h EXCEPT !.early = TRUE] EXCEPT !.objs = fewer]
    <3>1. [h EXCEPT !.early = TRUE, !.objs = @ \ {o}] = r
      BY <1>1 DEF LMStates
    <3>2. LMGood(r) /\ r.early
      BY <1>8
    <3> HIDE DEF r
    <3>3. h' = LMTempMalloc(r, sz, FALSE)
      BY <1>12, <2>2, <3>1 DEF LMRealloc
    <3>4. QED
      BY <1>3, <2>1, <3>2, <3>3, LMTempGood
  <2>3. CASE h.initialized /\ HeaderOf(h, o) = {}
    BY <1>11, <1>12, <2>3 DEF LMRealloc
  <2>4. CASE h.initialized /\ HeaderOf(h, o) # {}
    <3> DEFINE g == MemMalloc(h, sz, o.kept)
    <3>1. h' = IF g.dead THEN g ELSE MemFree(g, o)
      BY <1>12, <2>4 DEF LMRealloc
    <3>2. h.gen <= 1 /\ ~h.early => o.kept
      BY <1>1 DEF LMGood, KeptWhole
    <3>3. LMGood(g) /\ o \in g.objs /\ g.gen # 0
      BY <1>1, <1>2, <2>1, <2>4, <3>2, LMMallocGood
    <3> HIDE DEF g
    <3>4. QED
      BY <1>3, <3>1, <3>3, LMFreeGood
  <2>5. QED
    BY <2>2, <2>3, <2>4
<1>13. ASSUME NEW o \in h.objs, LMUsableSize(o) PROVE LibMemInv'
  BY <1>11, <1>13 DEF LMUsableSize
<1>14. ASSUME NEW sz \in LMSizes, LMMalloc(sz) \/ LMCalloc(2, sz) PROVE LibMemInv'
  <2>1. sz \in Nat \ {0} /\ 2 * sz \in Nat \ {0}
    BY <1>1
  <2>2. QED
    BY <1>6, <1>14, <2>1 DEF LMCalloc
<1>15. QED
  BY <1>4, <1>5, <1>7, <1>9, <1>10, <1>12, <1>13, <1>14 DEF LibMemNext

-----------------------------------------------------------------------------
(* All of Shims *)

ShimsInv == WrapperInv \/ LocalInv \/ SanityInv \/ LibMemInv

\* The functions that stand for malloc, free and the rest keep what the program
\* wrote and hand out no memory twice (wrapper.cpp, LocalMallocHeap up to the
\* object of its buffer it gives to the C library, SanityCheckHeap, libmem.cpp).
THEOREM MallocsKeep == ShimsSpec => []ShimsKeep
<1>1. /\ WrapperInv => h.kind = "wrapper"
      /\ LocalInv => h.kind = "localmalloc"
      /\ SanityInv => h.kind = "sanity"
      /\ LibMemInv => h.kind = "libmem"
  BY DEF WrapperInv, WrapperType, LocalInv, SanityInv, SanityType, LibMemInv, LMGood, LMStates
<1>2. ShimsInit => ShimsInv
  BY WrapperStarts, LocalStarts, SanityStarts, LibMemStarts DEF ShimsInit, ShimsInv
<1>3. ShimsInv /\ [ShimsNext]_h => ShimsInv'
  <2> SUFFICES ASSUME ShimsInv, [ShimsNext]_h PROVE ShimsInv'
    OBVIOUS
  <2>1. CASE ShimsNext
    BY <1>1, <2>1, WrapperKept, LocalKept, SanityKept, LibMemKept DEF ShimsNext, ShimsInv
  <2>2. CASE h' = h
    <3>1. CASE WrapperInv
      BY <2>2, <3>1 DEF ShimsInv, WrapperInv, WrapperType, Fit, Block, Cells
    <3>2. CASE LocalInv
      BY <2>2, <3>2 DEF ShimsInv, LocalInv, LocalWhole, mallocfn
    <3>3. CASE SanityInv
      BY <2>2, <3>3 DEF ShimsInv, SanityInv, SanityType, SanityWhole
    <3>4. CASE LibMemInv
      BY <2>2, <3>4 DEF ShimsInv, LibMemInv, LMGood, TempsApart, HeapApart, KeptWhole, InHeap
    <3>5. QED
      BY <3>1, <3>2, <3>3, <3>4 DEF ShimsInv
  <2>3. QED
    BY <2>1, <2>2
<1>4. ShimsInv => ShimsKeep
  BY <1>1, WrapperHolds, LibMemHolds DEF ShimsInv, ShimsKeep, LocalInv, SanityInv
<1>5. QED
  BY <1>2, <1>3, <1>4, PTL DEF ShimsSpec

-----------------------------------------------------------------------------
(* Sequences without repetition, for the chunks of SlotHeaps *)

LEMMA Popped ==
  ASSUME NEW T, NEW s \in Seq(T), s # << >>
  PROVE  /\ Head(s) \in T /\ Tail(s) \in Seq(T) /\ Len(s) \in Nat \ {0} /\ Len(Tail(s)) = Len(s) - 1
         /\ ToSet(s) = {Head(s)} \cup ToSet(Tail(s))
         /\ IsInjective(s) => IsInjective(Tail(s)) /\ Head(s) \notin ToSet(Tail(s))
<1>1. /\ Head(s) \in T /\ Tail(s) \in Seq(T) /\ Len(Tail(s)) = Len(s) - 1 /\ Head(s) = s[1]
      /\ \A j \in 1 .. Len(Tail(s)) : Tail(s)[j] = s[j + 1]
  BY HeadTailProperties
<1>2. /\ Len(s) \in Nat \ {0} /\ DOMAIN s = 1 .. Len(s) /\ DOMAIN Tail(s) = 1 .. Len(s) - 1
      /\ 1 \in DOMAIN s
  BY <1>1, LenProperties, EmptySeq
<1> DEFINE t == Tail(s)
           n == Len(s)
<1>3. /\ n \in Nat \ {0} /\ DOMAIN s = 1 .. n /\ DOMAIN t = 1 .. n - 1
      /\ \A j \in 1 .. n - 1 : t[j] = s[j + 1]
  BY <1>1, <1>2
<1> HIDE DEF t, n
<1>4. ToSet(s) = {s[1]} \cup ToSet(t)
  <2>1. \A j \in 1 .. n : j = 1 \/ (j - 1 \in 1 .. n - 1 /\ t[j - 1] = s[j])
    BY <1>3
  <2>2. \A j \in 1 .. n - 1 : j + 1 \in 1 .. n /\ s[j + 1] = t[j]
    BY <1>3
  <2>3. 1 \in 1 .. n
    BY <1>3
  <2>4. \A e \in ToSet(s) : e = s[1] \/ e \in ToSet(t)
    BY <1>3, <2>1 DEF ToSet
  <2>5. \A e \in ToSet(t) : e \in ToSet(s)
    BY <1>3, <2>2 DEF ToSet
  <2>6. s[1] \in ToSet(s)
    BY <1>3, <2>3 DEF ToSet
  <2>7. QED
    BY <2>4, <2>5, <2>6
<1>5. IsInjective(s) => IsInjective(t) /\ s[1] \notin ToSet(t)
  <2> SUFFICES ASSUME IsInjective(s) PROVE IsInjective(t) /\ s[1] \notin ToSet(t)
    OBVIOUS
  <2>1. ASSUME NEW i \in 1 .. n - 1, NEW j \in 1 .. n - 1, t[i] = t[j] PROVE i = j
    <3>1. i + 1 \in 1 .. n /\ j + 1 \in 1 .. n /\ s[i + 1] = s[j + 1]
      BY <1>3, <2>1
    <3>2. i + 1 = j + 1
      BY <1>3, <3>1 DEF IsInjective
    <3>3. QED
      BY <1>3, <3>2
  <2>2. ASSUME NEW j \in 1 .. n - 1 PROVE s[1] # t[j]
    <3>1. j + 1 \in 1 .. n /\ 1 \in 1 .. n /\ t[j] = s[j + 1] /\ j + 1 # 1
      BY <1>3
    <3>2. QED
      BY <1>3, <3>1 DEF IsInjective
  <2>3. QED
    BY <1>3, <2>1, <2>2 DEF IsInjective, ToSet
<1>6. QED
  BY <1>1, <1>2, <1>4, <1>5 DEF t

LEMMA Pushed ==
  ASSUME NEW T, NEW s \in Seq(T), NEW e \in T
  PROVE  /\ <<e>> \o s \in Seq(T) /\ Len(<<e>> \o s) = Len(s) + 1 /\ Len(s) \in Nat
         /\ <<e>> \o s # << >>
         /\ ToSet(<<e>> \o s) = {e} \cup ToSet(s)
         /\ IsInjective(s) /\ e \notin ToSet(s) => IsInjective(<<e>> \o s)
<1> DEFINE t == <<e>> \o s
           n == Len(s)
<1>1. /\ t \in Seq(T) /\ Len(t) = n + 1 /\ DOMAIN t = 1 .. n + 1 /\ n \in Nat /\ t[1] = e
      /\ \A j \in 2 .. n + 1 : t[j] = s[j - 1]
      /\ DOMAIN s = 1 .. n
  BY Prefixed, LenProperties
<1> HIDE DEF t, n
<1>2. \A j \in 1 .. n + 1 : j = 1 \/ (j \in 2 .. n + 1 /\ j - 1 \in 1 .. n)
  BY <1>1
<1>3. \A j \in 1 .. n : j + 1 \in 2 .. n + 1 /\ j + 1 \in 1 .. n + 1 /\ t[j + 1] = s[j]
  BY <1>1
<1>4. 1 \in 1 .. n + 1
  BY <1>1
<1>5. ToSet(t) = {e} \cup ToSet(s)
  <2>1. \A x \in ToSet(t) : x = e \/ x \in ToSet(s)
    BY <1>1, <1>2 DEF ToSet
  <2>2. \A x \in ToSet(s) : x \in ToSet(t)
    <3> SUFFICES ASSUME NEW x \in ToSet(s) PROVE x \in ToSet(t)
      OBVIOUS
    <3>1. PICK j \in 1 .. n : x = s[j]
      BY <1>1 DEF ToSet
    <3>2. j + 1 \in DOMAIN t /\ t[j + 1] = x
      BY <1>1, <1>3, <3>1
    <3>3. QED
      BY <3>2 DEF ToSet
  <2>3. e \in ToSet(t)
    BY <1>1, <1>4 DEF ToSet
  <2>4. QED
    BY <2>1, <2>2, <2>3
<1>6. ASSUME IsInjective(s), e \notin ToSet(s) PROVE IsInjective(t)
  <2> SUFFICES ASSUME NEW i \in 1 .. n + 1, NEW j \in 1 .. n + 1, t[i] = t[j] PROVE i = j
    BY <1>1 DEF IsInjective
  <2>1. \A k \in 2 .. n + 1 : t[k] # e
    <3> SUFFICES ASSUME NEW k \in 2 .. n + 1 PROVE t[k] # e
      OBVIOUS
    <3>1. t[k] = s[k - 1] /\ k - 1 \in DOMAIN s
      BY <1>1
    <3>2. t[k] \in ToSet(s)
      BY <3>1 DEF ToSet
    <3>3. QED
      BY <1>6, <3>2
  <2>2. CASE i = 1 \/ j = 1
    BY <1>1, <1>2, <2>1, <2>2
  <2>3. CASE i # 1 /\ j # 1
    <3>1. /\ i - 1 \in 1 .. n /\ j - 1 \in 1 .. n /\ s[i - 1] = s[j - 1]
      BY <1>1, <1>2, <2>3
    <3>2. i - 1 = j - 1
      BY <1>1, <1>6, <3>1 DEF IsInjective
    <3>3. QED
      BY <1>1, <3>2
  <2>4. QED
    BY <2>2, <2>3
<1>7. t # << >>
  BY <1>1, <1>4
<1>8. QED
  BY <1>1, <1>5, <1>6, <1>7 DEF t, n

LEMMA Dropped ==
  ASSUME NEW T, NEW s \in Seq(T), NEW i \in DOMAIN s, IsInjective(s)
  PROVE  /\ RemoveAt(s, i) \in Seq(T) /\ IsInjective(RemoveAt(s, i))
         /\ ToSet(RemoveAt(s, i)) = ToSet(s) \ {s[i]}
<1> DEFINE t == RemoveAt(s, i)
           n == Len(s)
           From(j) == IF j < i THEN j ELSE j + 1
<1>1. /\ t \in Seq(T) /\ DOMAIN t = 1 .. n - 1 /\ n \in Nat /\ DOMAIN s = 1 .. n
      /\ \A j \in 1 .. n - 1 : t[j] = IF j < i THEN s[j] ELSE s[j + 1]
  BY RemovedAt, LenProperties
<1> HIDE DEF t, n
<1>2. \A j \in 1 .. n - 1 : From(j) \in 1 .. n /\ From(j) # i /\ t[j] = s[From(j)]
  BY <1>1
<1>3. \A j, k \in 1 .. n - 1 : From(j) = From(k) => j = k
  BY <1>1
<1>4. \A m \in 1 .. n : m # i => \E j \in 1 .. n - 1 : From(j) = m
  <2> SUFFICES ASSUME NEW m \in 1 .. n, m # i PROVE \E j \in 1 .. n - 1 : From(j) = m
    OBVIOUS
  <2> DEFINE j == IF m < i THEN m ELSE m - 1
  <2>1. j \in 1 .. n - 1 /\ From(j) = m
    BY <1>1
  <2>2. QED
    BY <2>1
<1> HIDE DEF From
<1>5. IsInjective(t)
  BY <1>1, <1>2, <1>3 DEF IsInjective
<1>6. \A e \in ToSet(t) : e \in ToSet(s) /\ e # s[i]
  BY <1>1, <1>2 DEF ToSet, IsInjective
<1>7. \A e \in ToSet(s) : e # s[i] => e \in ToSet(t)
  <2> SUFFICES ASSUME NEW e \in ToSet(s), e # s[i] PROVE e \in ToSet(t)
    OBVIOUS
  <2>1. PICK m \in 1 .. n : e = s[m] /\ m # i
    BY <1>1 DEF ToSet
  <2>2. PICK j \in 1 .. n - 1 : From(j) = m
    BY <1>4, <2>1
  <2>3. t[j] = e
    BY <1>2, <2>1, <2>2
  <2>4. QED
    BY <1>1, <2>3 DEF ToSet
<1>8. QED
  BY <1>1, <1>5, <1>6, <1>7 DEF t

\* As many as there can be
LEMMA AllThere ==
  ASSUME NEW s \in Seq(SlotIds), IsInjective(s), Len(s) = NumSlots
  PROVE  ToSet(s) = SlotIds
<1>1. /\ NumSlots \in Nat /\ DOMAIN s = 1 .. NumSlots /\ s \in [1 .. NumSlots -> SlotIds]
      /\ SlotIds = 1 .. NumSlots
  BY SlotHeapsAssumption, LenProperties DEF SlotIds
<1>2. s \in Injection(SlotIds, SlotIds)
  BY <1>1 DEF Injection
<1>3. IsFiniteSet(SlotIds)
  BY <1>1, FS_Interval
<1>4. s \in Surjection(SlotIds, SlotIds)
  BY <1>2, <1>3, FS_Injection
<1>5. QED
  BY <1>1, <1>4 DEF Surjection, ToSet

-----------------------------------------------------------------------------
(* Chunk and the heaps over it: slots in SlotHeaps *)

ChunkStates == [made : BOOLEAN, free : Seq(SlotIds), avail : Nat]

SlotsType ==
  h \in [kind : {"slots"}, policy : {"lazy", "strict", "own"}, mine : ChunkIds,
         used : SUBSET (ChunkIds \X SlotIds), chunk : [ChunkIds -> ChunkStates]]

\* What SlotsWhole says of chunk c in state ch when the slots used are in use
ChunkWhole(ch, c, used) ==
  /\ ch.avail = Len(ch.free) /\ IsInjective(ch.free)
  /\ \A i \in ToSet(ch.free) : <<c, i>> \notin used
  /\ (\E s \in used : s[1] = c) => ch.made

\* The current chunk is cut out of memory.
SlotsInv ==
  /\ SlotsType /\ h.chunk[h.mine].made
  /\ \A c \in ChunkIds : ChunkWhole(h.chunk[c], c, h.used)

LEMMA NewChunkWhole ==
  ASSUME NEW c \in ChunkIds, NEW used, ~ \E s \in used : s[1] = c
  PROVE  /\ NewChunk \in ChunkStates /\ NewChunk.made /\ NewChunk.free # << >>
         /\ ChunkWhole(NewChunk, c, used)
<1> DEFINE f == [i \in SlotIds |-> NumSlots + 1 - i]
<1>1. NumSlots \in Nat \ {0} /\ SlotIds = 1 .. NumSlots
  BY SlotHeapsAssumption DEF SlotIds
<1>2. f \in [1 .. NumSlots -> SlotIds] /\ IsInjective(f)
  BY <1>1 DEF IsInjective
<1>3. DOMAIN f = 1 .. NumSlots
  BY <1>1
<1> HIDE DEF f
<1>4. f \in Seq(SlotIds)
  BY <1>1, <1>2, SeqDef
<1>5. Len(f) = NumSlots
  BY <1>1, <1>3, <1>4, LenProperties
<1>6. f # << >>
  BY <1>1, <1>5
<1>7. NewChunk \in ChunkStates /\ NewChunk.made /\ NewChunk.free = f /\ NewChunk.avail = NumSlots
  BY <1>1, <1>4 DEF NewChunk, ChunkStates, f
<1>8. \A i : <<c, i>> \notin used
  BY Zenon
<1>9. QED
  BY <1>2, <1>5, <1>6, <1>7, <1>8 DEF ChunkWhole

LEMMA NoMemoryWhole ==
  ASSUME NEW c \in ChunkIds, NEW used, ~ \E s \in used : s[1] = c
  PROVE  NoMemory \in ChunkStates /\ ChunkWhole(NoMemory, c, used)
<1>1. << >> \in Seq(SlotIds) /\ Len(<< >>) = 0 /\ DOMAIN << >> = {}
  OBVIOUS
<1>2. IsInjective(<< >>) /\ ToSet(<< >>) = {}
  BY <1>1 DEF IsInjective, ToSet
<1>3. QED
  BY <1>1, <1>2 DEF NoMemory, ChunkStates, ChunkWhole

LEMMA GetSlotWhole ==
  ASSUME NEW c \in ChunkIds, NEW used, NEW ch \in ChunkStates, ch.made, ch.free # << >>,
         ChunkWhole(ch, c, used)
  PROVE  /\ GetSlot(ch) \in ChunkStates /\ GetSlot(ch).made /\ Head(ch.free) \in SlotIds
         /\ ChunkWhole(GetSlot(ch), c, used \cup {<<c, Head(ch.free)>>})
<1> DEFINE new_free == Tail(ch.free)
           new_avail == ch.avail - 1
<1>1. GetSlot(ch) = [[ch EXCEPT !.free = new_free] EXCEPT !.avail = new_avail]
  BY DEF GetSlot, ChunkStates
<1>2. ch.free \in Seq(SlotIds) /\ ch.avail = Len(ch.free) /\ IsInjective(ch.free)
  BY DEF ChunkStates, ChunkWhole
<1>3. /\ Head(ch.free) \in SlotIds /\ new_free \in Seq(SlotIds)
      /\ new_avail \in Nat /\ new_avail = Len(new_free)
      /\ ToSet(ch.free) = {Head(ch.free)} \cup ToSet(new_free)
      /\ IsInjective(new_free) /\ Head(ch.free) \notin ToSet(new_free)
  BY <1>2, Popped
<1> HIDE DEF new_free, new_avail
<1>4. /\ GetSlot(ch) \in ChunkStates /\ GetSlot(ch).made
      /\ GetSlot(ch).free = new_free /\ GetSlot(ch).avail = new_avail
  BY <1>1, <1>3 DEF ChunkStates
<1>5. \A i \in ToSet(new_free) : <<c, i>> \notin used \cup {<<c, Head(ch.free)>>}
  BY <1>3 DEF ChunkWhole
<1>6. QED
  BY <1>3, <1>4, <1>5 DEF ChunkWhole

LEMMA PutSlotWhole ==
  ASSUME NEW c \in ChunkIds, NEW used \in SUBSET (ChunkIds \X SlotIds), NEW ch \in ChunkStates,
         ChunkWhole(ch, c, used), NEW i \in SlotIds, <<c, i>> \in used
  PROVE  /\ PutSlot(ch, i) \in ChunkStates /\ PutSlot(ch, i).made
         /\ ChunkWhole(PutSlot(ch, i), c, used \ {<<c, i>>})
         /\ Empty(PutSlot(ch, i)) => ~ \E s \in used \ {<<c, i>>} : s[1] = c
<1> DEFINE new_free == <<i>> \o ch.free
           new_avail == ch.avail + 1
           rest == used \ {<<c, i>>}
           r == PutSlot(ch, i)
<1>1. r = [[ch EXCEPT !.free = new_free] EXCEPT !.avail = new_avail]
  BY DEF PutSlot, ChunkStates
<1>2. ch.free \in Seq(SlotIds) /\ ch.avail = Len(ch.free) /\ IsInjective(ch.free)
  BY DEF ChunkStates, ChunkWhole
<1>3. i \notin ToSet(ch.free)
  BY DEF ChunkWhole
<1>4. /\ new_free \in Seq(SlotIds) /\ new_avail \in Nat /\ new_avail = Len(new_free)
      /\ ToSet(new_free) = {i} \cup ToSet(ch.free) /\ IsInjective(new_free)
  BY <1>2, <1>3, Pushed
<1>5. ch.made
  <2>1. <<c, i>>[1] = c
    OBVIOUS
  <2>2. QED
    BY <2>1 DEF ChunkWhole
<1> HIDE DEF new_free, new_avail, r
<1>6. r \in ChunkStates /\ r.made /\ r.free = new_free /\ r.avail = new_avail
  BY <1>1, <1>4, <1>5 DEF ChunkStates
<1>7. \A j \in ToSet(new_free) : <<c, j>> \notin rest
  BY <1>4 DEF ChunkWhole
<1>8. ChunkWhole(r, c, rest)
  BY <1>4, <1>6, <1>7 DEF ChunkWhole
<1>9. ASSUME Empty(r), NEW s \in rest, s[1] = c PROVE FALSE
  <2>1. ToSet(new_free) = SlotIds
    BY <1>4, <1>6, <1>9, AllThere DEF Empty
  <2>2. PICK a \in ChunkIds, j \in SlotIds : s = <<a, j>>
    OBVIOUS
  <2>3. s = <<c, j>> /\ j \in ToSet(new_free)
    BY <1>9, <2>1, <2>2
  <2>4. QED
    BY <1>7, <2>3
<1>10. QED
  BY <1>6, <1>8, <1>9 DEF r

LEMMA SlotsStarts == SlotsInit => SlotsInv
<1> SUFFICES ASSUME SlotsInit PROVE SlotsInv
  OBVIOUS
<1>1. 1 \in ChunkIds
  BY SlotHeapsAssumption DEF ChunkIds
<1>2. \A c \in ChunkIds : /\ NewChunk \in ChunkStates /\ NewChunk.made /\ ChunkWhole(NewChunk, c, {})
                          /\ NoMemory \in ChunkStates /\ ChunkWhole(NoMemory, c, {})
  BY NewChunkWhole, NoMemoryWhole
<1>3. /\ h.used = {} /\ h.mine = 1
      /\ h.chunk = [c \in ChunkIds |-> IF c = 1 THEN NewChunk ELSE NoMemory]
  BY DEF SlotsInit
<1>4. SlotsType
  BY <1>1, <1>2 DEF SlotsInit, SlotsType
<1>5. QED
  BY <1>1, <1>2, <1>3, <1>4 DEF SlotsInv

\* One chunk changes, and slots of it alone are taken.
LEMMA OneChunk ==
  ASSUME SlotsInv, NEW c \in ChunkIds, NEW ch \in ChunkStates,
         NEW used \in SUBSET (ChunkIds \X SlotIds), NEW mine \in ChunkIds,
         \A s \in used : s[1] = c \/ s \in h.used,
         ChunkWhole(ch, c, used), IF mine = c THEN ch.made ELSE h.chunk[mine].made,
         h' = [[[h EXCEPT !.used = used] EXCEPT !.mine = mine]
               EXCEPT !.chunk = [h.chunk EXCEPT ![c] = ch]]
  PROVE  SlotsInv'
<1> DEFINE new_chunk == [h.chunk EXCEPT ![c] = ch]
<1>1. h.chunk \in [ChunkIds -> ChunkStates]
  BY DEF SlotsInv, SlotsType
<1>2. new_chunk \in [ChunkIds -> ChunkStates] /\ new_chunk[c] = ch
      /\ \A d \in ChunkIds : d # c => new_chunk[d] = h.chunk[d]
  BY <1>1
<1> HIDE DEF new_chunk
<1>3. SlotsType' /\ h'.used = used /\ h'.mine = mine /\ h'.chunk = new_chunk
  BY <1>2 DEF SlotsInv, SlotsType, new_chunk
<1>4. ASSUME NEW d \in ChunkIds, d # c PROVE ChunkWhole(h.chunk[d], d, used)
  <2>1. \A s \in used : s[1] = d => s \in h.used
    BY <1>4
  <2>2. \A i : <<d, i>> \in used => <<d, i>> \in h.used
    <3> SUFFICES ASSUME NEW i, <<d, i>> \in used PROVE <<d, i>> \in h.used
      OBVIOUS
    <3>1. <<d, i>>[1] = d
      OBVIOUS
    <3>2. QED
      BY <2>1, <3>1
  <2>3. QED
    BY <1>4, <2>1, <2>2 DEF SlotsInv, ChunkWhole
<1>5. QED
  BY <1>2, <1>3, <1>4 DEF SlotsInv

LEMMA SlotsKept ==
  ASSUME SlotsInv, SlotsNext
  PROVE  SlotsInv'
<1>1. /\ SlotsType /\ h.chunk \in [ChunkIds -> ChunkStates] /\ h.mine \in ChunkIds
      /\ h.used \in SUBSET (ChunkIds \X SlotIds) /\ h.chunk[h.mine].made
      /\ \A c \in ChunkIds : ChunkWhole(h.chunk[c], c, h.used)
  BY DEF SlotsInv, SlotsType
<1>2. ASSUME h.chunk[h.mine].free # << >>, Take(h.mine) PROVE SlotsInv'
  <2> DEFINE c == h.mine
             ch == h.chunk[c]
             new_used == h.used \cup {<<c, Head(ch.free)>>}
  <2>1. /\ GetSlot(ch) \in ChunkStates /\ GetSlot(ch).made /\ Head(ch.free) \in SlotIds
        /\ ChunkWhole(GetSlot(ch), c, new_used)
    BY <1>1, <1>2, GetSlotWhole
  <2>2. h' = [[[h EXCEPT !.used = new_used] EXCEPT !.mine = c]
              EXCEPT !.chunk = [h.chunk EXCEPT ![c] = GetSlot(ch)]]
    BY <1>1, <1>2 DEF Take, SlotsType
  <2>3. new_used \in SUBSET (ChunkIds \X SlotIds)
    BY <1>1, <2>1
  <2>4. \A s \in new_used : s[1] = c \/ s \in h.used
    OBVIOUS
  <2> HIDE DEF ch, new_used
  <2>5. QED
    BY <1>1, <2>1, <2>2, <2>3, <2>4, OneChunk
<1>3. ASSUME NEW c \in Unmade,
             h' = [h EXCEPT !.chunk[c] = GetSlot(NewChunk), !.mine = c,
                            !.used = @ \cup {<<c, Head(NewChunk.free)>>}]
      PROVE  SlotsInv'
  <2> DEFINE new_used == h.used \cup {<<c, Head(NewChunk.free)>>}
  <2>1. c \in ChunkIds /\ ~ \E s \in h.used : s[1] = c
    BY <1>1 DEF Unmade, ChunkWhole
  <2>2. /\ NewChunk \in ChunkStates /\ NewChunk.made /\ NewChunk.free # << >>
        /\ ChunkWhole(NewChunk, c, h.used)
    BY <2>1, NewChunkWhole
  <2>3. /\ GetSlot(NewChunk) \in ChunkStates /\ GetSlot(NewChunk).made
        /\ Head(NewChunk.free) \in SlotIds /\ ChunkWhole(GetSlot(NewChunk), c, new_used)
    BY <2>1, <2>2, GetSlotWhole
  <2>4. h' = [[[h EXCEPT !.used = new_used] EXCEPT !.mine = c]
              EXCEPT !.chunk = [h.chunk EXCEPT ![c] = GetSlot(NewChunk)]]
    BY <1>1, <1>3 DEF SlotsType
  <2>5. new_used \in SUBSET (ChunkIds \X SlotIds) /\ \A s \in new_used : s[1] = c \/ s \in h.used
    BY <1>1, <2>1, <2>3
  <2> HIDE DEF new_used
  <2>6. QED
    BY <2>1, <2>3, <2>4, <2>5, OneChunk
<1>4. ASSUME NEW c \in ChunkIds, NEW i \in SlotIds, <<c, i>> \in h.used,
             LazyFree(c, i) \/ StrictFree(c, i) \/ OwnFree(c, i)
      PROVE  SlotsInv'
  <2> DEFINE put == PutSlot(h.chunk[c], i)
             new_used == h.used \ {<<c, i>>}
  <2>1. /\ put \in ChunkStates /\ put.made /\ ChunkWhole(put, c, new_used)
        /\ Empty(put) => ~ \E s \in new_used : s[1] = c
    BY <1>1, <1>4, PutSlotWhole
  <2>2. new_used \in SUBSET (ChunkIds \X SlotIds) /\ \A s \in new_used : s \in h.used
    BY <1>1
  <2> HIDE DEF put, new_used
  <2>3. ASSUME NEW ch \in {put, h.chunk[c], NoMemory}, ch = NoMemory => Empty(put) /\ c # h.mine,
               h' = [[h EXCEPT !.used = new_used] EXCEPT !.chunk = [h.chunk EXCEPT ![c] = ch]]
        PROVE  SlotsInv'
    <3>1. ch \in ChunkStates /\ ChunkWhole(ch, c, new_used)
      <4>1. CASE ch = put
        BY <2>1, <4>1
      <4>2. CASE ch = h.chunk[c]
        BY <1>1, <2>2, <4>2 DEF ChunkWhole
      <4>3. CASE ch = NoMemory
        BY <2>1, <2>3, <4>3, NoMemoryWhole
      <4>4. QED
        BY <4>1, <4>2, <4>3
    <3>2. IF h.mine = c THEN ch.made ELSE h.chunk[h.mine].made
      BY <1>1, <2>1, <2>3
    <3>3. h' = [[[h EXCEPT !.used = new_used] EXCEPT !.mine = h.mine]
                EXCEPT !.chunk = [h.chunk EXCEPT ![c] = ch]]
      BY <1>1, <2>3 DEF SlotsType
    <3>4. QED
      BY <1>1, <2>2, <3>1, <3>2, <3>3, OneChunk
  <2>4. CASE LazyFree(c, i)
    <3>1. h' = [[h EXCEPT !.used = new_used]
                EXCEPT !.chunk = [h.chunk EXCEPT ![c] = IF c # h.mine /\ Empty(put) THEN NoMemory ELSE put]]
      BY <1>1, <2>4 DEF LazyFree, SlotsType, put, new_used
    <3>2. NoMemory.made = FALSE
      BY DEF NoMemory
    <3>3. QED
      BY <2>1, <2>3, <3>1, <3>2
  <2>5. CASE OwnFree(c, i)
    <3>1. h' = [[h EXCEPT !.used = new_used]
                EXCEPT !.chunk = [h.chunk EXCEPT ![c] = IF c = h.mine THEN put ELSE h.chunk[c]]]
      BY <1>1, <2>5 DEF OwnFree, SlotsType, put, new_used
    <3>2. h.chunk[c].made
      <4>1. <<c, i>>[1] = c
        OBVIOUS
      <4>2. QED
        BY <1>1, <1>4, <4>1 DEF ChunkWhole
    <3>3. NoMemory.made = FALSE
      BY DEF NoMemory
    <3>4. QED
      BY <2>1, <2>3, <3>1, <3>2, <3>3
  <2>6. CASE StrictFree(c, i)
    <3>1. CASE ~Empty(put)
      <4>1. h' = [[h EXCEPT !.used = new_used] EXCEPT !.chunk = [h.chunk EXCEPT ![c] = put]]
        BY <1>1, <2>6, <3>1 DEF StrictFree, SlotsType, put, new_used
      <4>2. NoMemory.made = FALSE
        BY DEF NoMemory
      <4>3. QED
        BY <2>1, <2>3, <4>1, <4>2
    <3>2. CASE Empty(put) /\ c # h.mine
      <4>1. h' = [[h EXCEPT !.used = new_used] EXCEPT !.chunk = [h.chunk EXCEPT ![c] = NoMemory]]
        BY <1>1, <2>6, <3>2 DEF StrictFree, SlotsType, put, new_used
      <4>2. QED
        BY <2>3, <3>2, <4>1
    <3>3. CASE Empty(put) /\ c = h.mine
      <4>1. PICK d \in Unmade :
              h' = [h EXCEPT !.used = @ \ {<<c, i>>}, !.mine = d,
                             !.chunk = [@ EXCEPT ![c] = NoMemory, ![d] = NewChunk]]
        BY <2>6, <3>3 DEF StrictFree, put
      <4> DEFINE new_chunk == [[h.chunk EXCEPT ![c] = NoMemory] EXCEPT ![d] = NewChunk]
      <4>2. d \in ChunkIds /\ ~ (\E s \in h.used : s[1] = d)
        BY <1>1, <4>1 DEF Unmade, ChunkWhole
      <4>3. NewChunk \in ChunkStates /\ NewChunk.made /\ ChunkWhole(NewChunk, d, new_used)
        BY <2>2, <4>2, NewChunkWhole
      <4>4. NoMemory \in ChunkStates /\ ChunkWhole(NoMemory, c, new_used)
        BY <2>1, <3>3, NoMemoryWhole
      <4>5. h' = [[[h EXCEPT !.used = new_used] EXCEPT !.mine = d] EXCEPT !.chunk = new_chunk]
        BY <1>1, <4>1 DEF SlotsType, new_used
      <4>6. /\ new_chunk \in [ChunkIds -> ChunkStates] /\ new_chunk[d] = NewChunk
            /\ c # d => new_chunk[c] = NoMemory
            /\ \A e \in ChunkIds : e # c /\ e # d => new_chunk[e] = h.chunk[e]
        BY <1>1, <4>2, <4>3, <4>4
      <4> HIDE DEF new_chunk
      <4>7. SlotsType' /\ h'.used = new_used /\ h'.mine = d /\ h'.chunk = new_chunk
        BY <1>1, <2>2, <4>2, <4>5, <4>6 DEF SlotsType
      <4>8. \A e \in ChunkIds : ChunkWhole(h.chunk[e], e, new_used)
        BY <1>1, <2>2 DEF ChunkWhole
      <4>9. \A e \in ChunkIds : ChunkWhole(new_chunk[e], e, new_used)
        BY <4>3, <4>4, <4>6, <4>8
      <4>10. QED
        BY <4>3, <4>6, <4>7, <4>9 DEF SlotsInv
    <3>4. QED
      BY <3>1, <3>2, <3>3
  <2>7. QED
    BY <1>4, <2>4, <2>5, <2>6
<1>5. ASSUME NEW s \in h.used, LazyFree(s[1], s[2]) \/ StrictFree(s[1], s[2]) \/ OwnFree(s[1], s[2])
      PROVE  SlotsInv'
  <2>1. PICK c \in ChunkIds, i \in SlotIds : s = <<c, i>>
    BY <1>1
  <2>2. s[1] = c /\ s[2] = i
    BY <2>1
  <2>3. QED
    BY <1>4, <1>5, <2>1, <2>2
<1>6. QED
  BY <1>2, <1>3, <1>5 DEF SlotsNext, SlotMalloc

LEMMA SlotsHolds == SlotsInv => SlotsWhole
BY DEF SlotsInv, SlotsWhole, ChunkWhole

-----------------------------------------------------------------------------
(* AlignedChunk and the heaps over it: aligned in SlotHeaps *)

AlignedStates == [made : BOOLEAN, bitmap : SUBSET Bits, released : BOOLEAN]

AlignedType ==
  h \in [kind : {"aligned"}, mine : ChunkIds \cup {NoChunk}, list : Seq(ChunkIds),
         used : SUBSET (ChunkIds \X SlotIds), chunk : [ChunkIds -> AlignedStates]]

\* What AlignedWhole says of chunk c in state ch, and that a chunk given back to
\* the memory below has no slot in use
AlignedChunkWhole(c, ch, mine, list, used) ==
  LET slots == {i \in SlotIds : <<c, i>> \in used} IN
  /\ ch.bitmap = slots \cup EmptyBitmap
  /\ c = mine => ch.made /\ ~ch.released /\ c \notin ToSet(list)
  /\ c \in ToSet(list) => ch.made /\ slots = {}
  /\ ch.made => (ch.released <=> c # mine)
  /\ ch.made => c = mine \/ c \in ToSet(list) \/ slots # {}
  /\ ~ch.made => slots = {}

AlignedInv ==
  /\ AlignedType /\ IsInjective(h.list)
  /\ \A c \in ChunkIds : AlignedChunkWhole(c, h.chunk[c], h.mine, h.list, h.used)

\* Chunk c, the current chunk, the list and the slots in use have changed; no
\* other chunk is concerned
AlignedStep(c, ch, mine, list, used) ==
  /\ c \in ChunkIds /\ ch \in AlignedStates /\ mine \in ChunkIds \cup {NoChunk}
  /\ list \in Seq(ChunkIds) /\ used \in SUBSET (ChunkIds \X SlotIds)
  /\ IsInjective(list) /\ AlignedChunkWhole(c, ch, mine, list, used)
  /\ \A d \in ChunkIds : d # c =>
       /\ d = mine <=> d = h.mine
       /\ d \in ToSet(list) <=> d \in ToSet(h.list)
       /\ \A i \in SlotIds : <<d, i>> \in used <=> <<d, i>> \in h.used
  /\ h' = [[[[h EXCEPT !.mine = mine] EXCEPT !.list = list] EXCEPT !.used = used]
           EXCEPT !.chunk = [h.chunk EXCEPT ![c] = ch]]

LEMMA BitsFacts ==
  /\ NumSlots \in Nat \ {0} /\ SlotIds = Bits \ {0} /\ 0 \in Bits /\ SlotIds # {} /\ Bits \subseteq Nat
  /\ EmptyBitmap = {0} /\ NoChunk \notin ChunkIds
<1>1. NumSlots \in Nat \ {0}
  BY SlotHeapsAssumption
<1>2. 1 \in SlotIds
  BY <1>1 DEF SlotIds
<1>3. QED
  BY <1>1, <1>2, SlotHeapsAssumption DEF SlotIds, Bits, EmptyBitmap, ChunkIds

LEMMA FreeBitIs ==
  ASSUME NEW bitmap \in SUBSET Bits, bitmap # Bits
  PROVE  FreeBit(bitmap) \in Bits \ bitmap
<1>1. Bits \ bitmap \subseteq Nat /\ Bits \ bitmap # {}
  BY BitsFacts
<1>2. QED
  BY <1>1, MinIn DEF FreeBit

LEMMA AlignedStarts == AlignedInit => AlignedInv
<1> SUFFICES ASSUME AlignedInit PROVE AlignedInv
  OBVIOUS
<1>1. << >> \in Seq(ChunkIds) /\ IsInjective(<< >>) /\ ToSet(<< >>) = {}
  BY DEF IsInjective, ToSet
<1> DEFINE fresh == [NewAligned EXCEPT !.made = FALSE]
<1>2. fresh \in AlignedStates /\ fresh.made = FALSE /\ fresh.bitmap = EmptyBitmap
  BY BitsFacts DEF NewAligned, AlignedStates
<1> HIDE DEF fresh
<1>3. h = [kind |-> "aligned", mine |-> NoChunk, list |-> << >>, used |-> {},
           chunk |-> [c \in ChunkIds |-> fresh]]
  BY DEF AlignedInit, fresh
<1>4. AlignedType
  BY <1>1, <1>2, <1>3 DEF AlignedType
<1>5. /\ h.mine = NoChunk /\ h.list = << >> /\ h.used = {}
      /\ \A c \in ChunkIds : h.chunk[c] = fresh
  BY <1>3
<1>6. ASSUME NEW c \in ChunkIds PROVE AlignedChunkWhole(c, fresh, NoChunk, << >>, {})
  BY <1>1, <1>2, BitsFacts DEF AlignedChunkWhole
<1>7. QED
  BY <1>1, <1>4, <1>5, <1>6 DEF AlignedInv

LEMMA AlignedKept ==
  ASSUME AlignedInv, AlignedNext
  PROVE  AlignedInv'
<1>1. /\ AlignedType /\ h.chunk \in [ChunkIds -> AlignedStates] /\ h.mine \in ChunkIds \cup {NoChunk}
      /\ h.list \in Seq(ChunkIds) /\ IsInjective(h.list)
      /\ h.used \in SUBSET (ChunkIds \X SlotIds)
      /\ \A c \in ChunkIds : AlignedChunkWhole(c, h.chunk[c], h.mine, h.list, h.used)
  BY DEF AlignedInv, AlignedType
<1>2. ASSUME NEW c, NEW ch, NEW mine, NEW list, NEW used, AlignedStep(c, ch, mine, list, used)
      PROVE  AlignedInv'
  <2> DEFINE new_chunk == [h.chunk EXCEPT ![c] = ch]
  <2>0. /\ c \in ChunkIds /\ ch \in AlignedStates /\ mine \in ChunkIds \cup {NoChunk}
        /\ list \in Seq(ChunkIds) /\ used \in SUBSET (ChunkIds \X SlotIds)
        /\ IsInjective(list) /\ AlignedChunkWhole(c, ch, mine, list, used)
        /\ \A d \in ChunkIds : d # c =>
             /\ d = mine <=> d = h.mine
             /\ d \in ToSet(list) <=> d \in ToSet(h.list)
             /\ \A i \in SlotIds : <<d, i>> \in used <=> <<d, i>> \in h.used
        /\ h' = [[[[h EXCEPT !.mine = mine] EXCEPT !.list = list] EXCEPT !.used = used]
                 EXCEPT !.chunk = new_chunk]
    BY <1>2 DEF AlignedStep
  <2>1. new_chunk \in [ChunkIds -> AlignedStates] /\ new_chunk[c] = ch
        /\ \A d \in ChunkIds : d # c => new_chunk[d] = h.chunk[d]
    BY <1>1, <2>0
  <2> HIDE DEF new_chunk
  <2>3. AlignedType' /\ h'.mine = mine /\ h'.list = list /\ h'.used = used /\ h'.chunk = new_chunk
    BY <1>1, <2>0, <2>1 DEF AlignedType
  <2>4. ASSUME NEW d \in ChunkIds, d # c PROVE AlignedChunkWhole(d, h.chunk[d], mine, list, used)
    <3>1. {i \in SlotIds : <<d, i>> \in used} = {i \in SlotIds : <<d, i>> \in h.used}
      BY <2>0, <2>4
    <3>2. AlignedChunkWhole(d, h.chunk[d], h.mine, h.list, h.used)
      BY <1>1
    <3>3. (d = mine <=> d = h.mine) /\ (d \in ToSet(list) <=> d \in ToSet(h.list))
      BY <2>0, <2>4
    <3>4. QED
      BY <3>1, <3>2, <3>3 DEF AlignedChunkWhole
  <2>5. QED
    BY <2>0, <2>1, <2>3, <2>4 DEF AlignedInv
<1>3. ASSUME h.mine = NoChunk, h.list # << >>,
             h' = [h EXCEPT !.mine = Head(h.list), !.list = Tail(@),
                            !.chunk[Head(h.list)].released = FALSE]
      PROVE  AlignedInv'
  <2> DEFINE c == Head(h.list)
             ch == [h.chunk[c] EXCEPT !.released = FALSE]
  <2>1. /\ c \in ChunkIds /\ Tail(h.list) \in Seq(ChunkIds) /\ IsInjective(Tail(h.list))
        /\ ToSet(h.list) = {c} \cup ToSet(Tail(h.list)) /\ c \notin ToSet(Tail(h.list))
    BY <1>1, <1>3, Popped
  <2>2. h' = [[[[h EXCEPT !.mine = c] EXCEPT !.list = Tail(h.list)] EXCEPT !.used = h.used]
              EXCEPT !.chunk = [h.chunk EXCEPT ![c] = ch]]
    BY <1>1, <1>3 DEF AlignedType
  <2> HIDE DEF c
  <2>3. ch \in AlignedStates /\ ~ch.released /\ ch.made = h.chunk[c].made /\ ch.bitmap = h.chunk[c].bitmap
    BY <1>1, <2>1 DEF AlignedStates
  <2> HIDE DEF ch
  <2>4. AlignedChunkWhole(c, h.chunk[c], h.mine, h.list, h.used)
    BY <1>1, <2>1
  <2>5. AlignedChunkWhole(c, ch, c, Tail(h.list), h.used)
    BY <2>1, <2>3, <2>4 DEF AlignedChunkWhole
  <2>6. \A d \in ChunkIds : d # c => (d = c <=> d = h.mine) /\ (d \in ToSet(Tail(h.list)) <=> d \in ToSet(h.list))
    BY <1>3, <2>1, BitsFacts
  <2>7. AlignedStep(c, ch, c, Tail(h.list), h.used)
    BY <1>1, <2>1, <2>2, <2>3, <2>5, <2>6 DEF AlignedStep
  <2>8. QED
    BY <1>2, <2>7
<1>4. ASSUME h.mine = NoChunk, h.list = << >>, NEW c \in Unmade,
             h' = [h EXCEPT !.mine = c, !.chunk[c] = NewAligned]
      PROVE  AlignedInv'
  <2>1. c \in ChunkIds /\ h.chunk[c].made = FALSE
    BY <1>1 DEF Unmade, AlignedStates
  <2>2. h' = [[[[h EXCEPT !.mine = c] EXCEPT !.list = h.list] EXCEPT !.used = h.used]
              EXCEPT !.chunk = [h.chunk EXCEPT ![c] = NewAligned]]
    BY <1>1, <1>4 DEF AlignedType
  <2>3. NewAligned \in AlignedStates /\ ~NewAligned.released /\ NewAligned.made
        /\ NewAligned.bitmap = EmptyBitmap
    BY BitsFacts DEF NewAligned, AlignedStates
  <2>4. AlignedChunkWhole(c, h.chunk[c], h.mine, h.list, h.used)
    BY <1>1, <2>1
  <2>5. AlignedChunkWhole(c, NewAligned, c, h.list, h.used)
    BY <2>1, <2>3, <2>4 DEF AlignedChunkWhole
  <2>6. \A d \in ChunkIds : d # c => (d = c <=> d = h.mine)
    BY <1>4, BitsFacts
  <2>7. AlignedStep(c, NewAligned, c, h.list, h.used)
    BY <1>1, <2>1, <2>2, <2>3, <2>5, <2>6 DEF AlignedStep
  <2>8. QED
    BY <1>2, <2>7
<1>5. CASE AlignedMalloc
  <2> DEFINE c == h.mine
             bitmap == h.chunk[c].bitmap
  <2>1. c \in ChunkIds
    BY <1>1, <1>5 DEF AlignedMalloc
  <2>2. AlignedChunkWhole(c, h.chunk[c], c, h.list, h.used)
    BY <1>1, <2>1
  <2>3. CASE bitmap = Bits
    <3> DEFINE ch == [h.chunk[c] EXCEPT !.released = TRUE]
    <3>1. h' = [[[[h EXCEPT !.mine = NoChunk] EXCEPT !.list = h.list] EXCEPT !.used = h.used]
                EXCEPT !.chunk = [h.chunk EXCEPT ![c] = ch]]
      BY <1>1, <1>5, <2>3 DEF AlignedMalloc, AlignedType
    <3>2. ch \in AlignedStates /\ ch.released /\ ch.made = h.chunk[c].made /\ ch.bitmap = bitmap
      BY <1>1, <2>1 DEF AlignedStates
    <3> HIDE DEF ch
    <3>3. AlignedChunkWhole(c, ch, NoChunk, h.list, h.used)
      <4> DEFINE slots == {i \in SlotIds : <<c, i>> \in h.used}
      <4>1. bitmap = slots \cup EmptyBitmap
        BY <2>2 DEF AlignedChunkWhole
      <4>2. slots # {}
        BY <2>3, <4>1, BitsFacts
      <4>3. QED
        BY <2>1, <2>2, <3>2, <4>2, BitsFacts DEF AlignedChunkWhole
    <3>4. \A d \in ChunkIds : d # c => (d = NoChunk <=> d = h.mine)
      BY BitsFacts
    <3>5. AlignedStep(c, ch, NoChunk, h.list, h.used)
      BY <1>1, <2>1, <3>1, <3>2, <3>3, <3>4 DEF AlignedStep
    <3>6. QED
      BY <1>2, <3>5
  <2>4. CASE bitmap # Bits
    <3> DEFINE bit == FreeBit(bitmap)
               ch == [h.chunk[c] EXCEPT !.bitmap = bitmap \cup {bit}]
               new_used == h.used \cup {<<c, bit>>}
    <3>1. bitmap \in SUBSET Bits
      BY <1>1, <2>1 DEF AlignedStates
    <3>2. 0 \in bitmap
      BY <2>2, BitsFacts DEF AlignedChunkWhole
    <3>3. bit \in SlotIds /\ bit \notin bitmap
      BY <2>4, <3>1, <3>2, FreeBitIs, BitsFacts
    <3>4. h' = [[[[h EXCEPT !.mine = c] EXCEPT !.list = h.list] EXCEPT !.used = new_used]
                EXCEPT !.chunk = [h.chunk EXCEPT ![c] = ch]]
      BY <1>1, <1>5, <2>4 DEF AlignedMalloc, AlignedType
    <3> HIDE DEF bit
    <3>5. ch \in AlignedStates /\ ch.released = h.chunk[c].released /\ ch.made = h.chunk[c].made
          /\ ch.bitmap = bitmap \cup {bit}
      BY <1>1, <2>1, <3>1, <3>3, BitsFacts DEF AlignedStates
    <3> HIDE DEF ch
    <3>6. {i \in SlotIds : <<c, i>> \in new_used} = {i \in SlotIds : <<c, i>> \in h.used} \cup {bit}
      BY <3>3
    <3>7. AlignedChunkWhole(c, ch, c, h.list, new_used)
      BY <2>2, <3>5, <3>6 DEF AlignedChunkWhole
    <3>8. new_used \in SUBSET (ChunkIds \X SlotIds)
      BY <1>1, <2>1, <3>3
    <3>9. \A d \in ChunkIds : d # c => \A i \in SlotIds : <<d, i>> \in new_used <=> <<d, i>> \in h.used
      OBVIOUS
    <3> HIDE DEF new_used
    <3>10. AlignedStep(c, ch, c, h.list, new_used)
      BY <1>1, <2>1, <3>4, <3>5, <3>7, <3>8, <3>9 DEF AlignedStep
    <3>11. QED
      BY <1>2, <3>10
  <2>5. QED
    BY <2>3, <2>4
<1>6. ASSUME NEW c \in ChunkIds, NEW i \in SlotIds, <<c, i>> \in h.used, AlignedFree(c, i)
      PROVE  AlignedInv'
  <2> DEFINE ch == [h.chunk[c] EXCEPT !.bitmap = h.chunk[c].bitmap \ {i}]
             new_used == h.used \ {<<c, i>>}
             g == [[h EXCEPT !.used = new_used] EXCEPT !.chunk = [h.chunk EXCEPT ![c] = ch]]
             slots == {j \in SlotIds : <<c, j>> \in new_used}
  <2>1. h' = IF GoesBack(ch) THEN AlignedChunkFree(g, c) ELSE g
    <3>1. [h EXCEPT !.chunk[c].bitmap = @ \ {i}, !.used = @ \ {<<c, i>>}] = g
      BY <1>1 DEF AlignedType, AlignedStates
    <3>2. g.chunk[c] = ch
      BY <1>1 DEF AlignedType
    <3> HIDE DEF g
    <3>3. QED
      BY <1>6, <3>1, <3>2 DEF AlignedFree
  <2>2. AlignedChunkWhole(c, h.chunk[c], h.mine, h.list, h.used) /\ h.chunk[c] \in AlignedStates
    BY <1>1
  <2>3. ch \in AlignedStates /\ ch.released = h.chunk[c].released /\ ch.made = h.chunk[c].made
        /\ ch.bitmap = h.chunk[c].bitmap \ {i}
    BY <2>2 DEF AlignedStates
  <2>4. /\ {j \in SlotIds : <<c, j>> \in h.used} = slots \cup {i} /\ i \notin slots
        /\ h.chunk[c].made /\ c \notin ToSet(h.list)
        /\ (h.chunk[c].released <=> c # h.mine)
    BY <1>6, <2>2 DEF AlignedChunkWhole
  <2>5. ch.bitmap = slots \cup EmptyBitmap
    BY <2>2, <2>3, <2>4, BitsFacts DEF AlignedChunkWhole
  <2>6. /\ new_used \in SUBSET (ChunkIds \X SlotIds)
        /\ \A d \in ChunkIds : d # c => \A j \in SlotIds : <<d, j>> \in new_used <=> <<d, j>> \in h.used
    BY <1>1
  <2>7. slots = {} <=> ch.bitmap = EmptyBitmap
    BY <2>5, BitsFacts
  <2>8. CASE ~GoesBack(ch)
    <3>1. h' = [[[[h EXCEPT !.mine = h.mine] EXCEPT !.list = h.list] EXCEPT !.used = new_used]
                EXCEPT !.chunk = [h.chunk EXCEPT ![c] = ch]]
      BY <1>1, <2>1, <2>8 DEF AlignedType
    <3> HIDE DEF ch, new_used
    <3>2. AlignedChunkWhole(c, ch, h.mine, h.list, new_used)
      BY <2>3, <2>4, <2>5, <2>7, <2>8 DEF AlignedChunkWhole, GoesBack
    <3>3. AlignedStep(c, ch, h.mine, h.list, new_used)
      BY <1>1, <2>3, <2>6, <3>1, <3>2 DEF AlignedStep
    <3>4. QED
      BY <1>2, <3>3
  <2>9. CASE GoesBack(ch) /\ Len(h.list) > MaxFree
    <3> DEFINE gone == [ch EXCEPT !.made = FALSE]
    <3>1. h' = [[[[h EXCEPT !.mine = h.mine] EXCEPT !.list = h.list] EXCEPT !.used = new_used]
                EXCEPT !.chunk = [h.chunk EXCEPT ![c] = gone]]
      <4>1. g.list = h.list /\ g.chunk[c] = ch
        BY <1>1 DEF AlignedType
      <4>2. h' = [g EXCEPT !.chunk[c].made = FALSE]
        BY <2>1, <2>9, <4>1 DEF AlignedChunkFree
      <4>3. QED
        BY <1>1, <4>2 DEF AlignedType
    <3>2. gone \in AlignedStates /\ gone.made = FALSE /\ gone.bitmap = ch.bitmap
      BY <2>3 DEF AlignedStates
    <3> HIDE DEF ch, new_used, gone
    <3>3. slots = {} /\ c # h.mine
      BY <2>3, <2>4, <2>7, <2>9 DEF GoesBack
    <3>4. AlignedChunkWhole(c, gone, h.mine, h.list, new_used)
      BY <2>4, <2>5, <3>2, <3>3 DEF AlignedChunkWhole
    <3>5. AlignedStep(c, gone, h.mine, h.list, new_used)
      BY <1>1, <2>6, <3>1, <3>2, <3>4 DEF AlignedStep
    <3>6. QED
      BY <1>2, <3>5
  <2>10. CASE GoesBack(ch) /\ ~ (Len(h.list) > MaxFree)
    <3> DEFINE new_list == <<c>> \o h.list
    <3>1. h' = [[[[h EXCEPT !.mine = h.mine] EXCEPT !.list = new_list] EXCEPT !.used = new_used]
                EXCEPT !.chunk = [h.chunk EXCEPT ![c] = ch]]
      <4>1. g.list = h.list
        BY <1>1 DEF AlignedType
      <4>2. h' = [g EXCEPT !.list = <<c>> \o @]
        BY <2>1, <2>10, <4>1 DEF AlignedChunkFree
      <4>3. QED
        BY <1>1, <4>1, <4>2 DEF AlignedType
    <3>2. new_list \in Seq(ChunkIds) /\ IsInjective(new_list) /\ ToSet(new_list) = {c} \cup ToSet(h.list)
      BY <1>1, <2>4, Pushed
    <3> HIDE DEF ch, new_used, new_list
    <3>3. slots = {} /\ c # h.mine
      BY <2>3, <2>4, <2>7, <2>10 DEF GoesBack
    <3>4. AlignedChunkWhole(c, ch, h.mine, new_list, new_used)
      BY <2>3, <2>4, <2>5, <3>2, <3>3 DEF AlignedChunkWhole
    <3>5. \A d \in ChunkIds : d # c => (d \in ToSet(new_list) <=> d \in ToSet(h.list))
      BY <3>2
    <3>6. AlignedStep(c, ch, h.mine, new_list, new_used)
      BY <1>1, <2>3, <2>6, <3>1, <3>2, <3>4, <3>5 DEF AlignedStep
    <3>7. QED
      BY <1>2, <3>6
  <2>11. QED
    BY <2>8, <2>9, <2>10
<1>7. ASSUME NEW s \in h.used, AlignedFree(s[1], s[2]) PROVE AlignedInv'
  <2>1. PICK c \in ChunkIds, i \in SlotIds : s = <<c, i>>
    BY <1>1
  <2>2. QED
    BY <1>6, <1>7, <2>1
<1>8. QED
  BY <1>3, <1>4, <1>5, <1>7 DEF AlignedNext, AlignedChunkMalloc

LEMMA AlignedHolds == AlignedInv => AlignedWhole
BY DEF AlignedInv, AlignedWhole, AlignedChunkWhole

-----------------------------------------------------------------------------
(* One AlignedChunk and its threads: bitmap in SlotHeaps *)

Bitmaps == {b \in SUBSET Bits : 0 \in b}
AtStates == [do : {"idle"}] \cup [do : {"get", "put"}, old : Bitmaps, slot : SlotIds]
            \cup [do : {"reread"}, slot : SlotIds]

BitmapType ==
  h \in [kind : {"bitmap"}, bitmap : Bitmaps, used : SUBSET SlotIds, twice : BOOLEAN,
         stored : BOOLEAN, at : [Threads -> AtStates]]

Putting(at, t, i) == at[t].do = "put" /\ at[t].slot = i

\* As long as no exchange has failed: a thread gets a slot that was free when it
\* read, a slot on its way back is marked, in use no more, and on its way once
Exchanged(bitmap, used, at) ==
  /\ \A t \in Threads : at[t].do # "reread" /\ (at[t].do = "get" => at[t].slot \notin at[t].old)
  /\ \A i \in SlotIds : i \in bitmap <=> i \in used \/ \E t \in Threads : Putting(at, t, i)
  /\ \A t \in Threads, i \in SlotIds : Putting(at, t, i) => i \notin used
  /\ \A t, u \in Threads, i \in SlotIds : Putting(at, t, i) /\ Putting(at, u, i) => t = u

BitmapInv ==
  /\ BitmapType
  /\ ~h.stored => ~h.twice /\ Exchanged(h.bitmap, h.used, h.at)

LEMMA BitmapStarts == BitmapInit => BitmapInv
<1> SUFFICES ASSUME BitmapInit PROVE BitmapInv
  OBVIOUS
<1>1. EmptyBitmap \in Bitmaps /\ Idle \in AtStates /\ Idle.do = "idle" /\ \A i \in SlotIds : i \notin EmptyBitmap
  BY BitsFacts DEF Bitmaps, Idle, AtStates
<1>2. /\ h.bitmap = EmptyBitmap /\ h.used = {} /\ h.twice = FALSE /\ \A t \in Threads : h.at[t] = Idle
  BY DEF BitmapInit
<1>3. BitmapType
  BY <1>1 DEF BitmapInit, BitmapType
<1>4. QED
  BY <1>1, <1>2, <1>3 DEF BitmapInv, Exchanged, Putting

LEMMA BitmapKept ==
  ASSUME BitmapInv, BitmapNext
  PROVE  BitmapInv'
<1>1. /\ BitmapType /\ h.bitmap \in Bitmaps /\ h.used \in SUBSET SlotIds /\ h.at \in [Threads -> AtStates]
      /\ h.stored \in BOOLEAN /\ h.twice \in BOOLEAN
      /\ ~h.stored => ~h.twice /\ Exchanged(h.bitmap, h.used, h.at)
  BY DEF BitmapInv, BitmapType
<1>2. PICK t \in Threads :
        \/ ReadForGet(t) \/ ExchangeForGet(t) \/ ExchangeForPut(t) \/ ReadAgain(t)
        \/ \E i \in SlotIds : ReadForPut(t, i)
  BY DEF BitmapNext
<1>3. h.at[t] \in AtStates
  BY <1>1
<1>4. ASSUME NEW bitmap \in Bitmaps, NEW used \in SUBSET SlotIds, NEW twice \in BOOLEAN,
             NEW stored \in BOOLEAN, NEW a \in AtStates,
             ~stored => ~twice /\ Exchanged(bitmap, used, [h.at EXCEPT ![t] = a]),
             h' = [[[[[h EXCEPT !.bitmap = bitmap] EXCEPT !.used = used] EXCEPT !.twice = twice]
                   EXCEPT !.stored = stored] EXCEPT !.at = [h.at EXCEPT ![t] = a]]
      PROVE  BitmapInv'
  <2> DEFINE new_at == [h.at EXCEPT ![t] = a]
  <2>1. new_at \in [Threads -> AtStates]
    BY <1>1, <1>4
  <2>2. h' = [[[[[h EXCEPT !.bitmap = bitmap] EXCEPT !.used = used] EXCEPT !.twice = twice]
              EXCEPT !.stored = stored] EXCEPT !.at = new_at]
    BY <1>4
  <2>3. ~stored => ~twice /\ Exchanged(bitmap, used, new_at)
    BY <1>4
  <2> HIDE DEF new_at
  <2>4. /\ BitmapType' /\ h'.bitmap = bitmap /\ h'.used = used /\ h'.twice = twice
        /\ h'.stored = stored /\ h'.at = new_at
    BY <1>1, <1>4, <2>1, <2>2 DEF BitmapType
  <2>5. QED
    BY <2>3, <2>4 DEF BitmapInv
<1>5. CASE ReadForGet(t)
  <2> DEFINE a == [do |-> "get", old |-> h.bitmap, slot |-> FreeBit(h.bitmap)]
             new_at == [h.at EXCEPT ![t] = a]
  <2>1. FreeBit(h.bitmap) \in SlotIds /\ FreeBit(h.bitmap) \notin h.bitmap
    BY <1>1, <1>5, FreeBitIs, BitsFacts DEF ReadForGet, Bitmaps
  <2>2. a \in AtStates /\ a.do = "get" /\ a.slot \notin a.old
    BY <1>1, <2>1 DEF AtStates
  <2>3. h' = [[[[[h EXCEPT !.bitmap = h.bitmap] EXCEPT !.used = h.used] EXCEPT !.twice = h.twice]
              EXCEPT !.stored = h.stored] EXCEPT !.at = new_at]
    BY <1>1, <1>5 DEF ReadForGet, BitmapType
  <2> HIDE DEF a
  <2>4. h.at[t].do # "put"
    BY <1>5 DEF ReadForGet, Idle
  <2>5. /\ \A u \in Threads, i \in SlotIds : Putting(new_at, u, i) <=> Putting(h.at, u, i)
        /\ new_at[t] = a /\ \A u \in Threads : u # t => new_at[u] = h.at[u]
    BY <1>1, <2>2, <2>4 DEF Putting
  <2>6. Exchanged(h.bitmap, h.used, h.at) => Exchanged(h.bitmap, h.used, new_at)
    BY <2>2, <2>5 DEF Exchanged
  <2>7. QED
    BY <1>1, <1>4, <2>2, <2>3, <2>6
<1>6. ASSUME NEW i \in SlotIds, ReadForPut(t, i) PROVE BitmapInv'
  <2> DEFINE a == [do |-> "put", old |-> h.bitmap, slot |-> i]
             new_at == [h.at EXCEPT ![t] = a]
             new_used == h.used \ {i}
  <2>1. a \in AtStates /\ a.do = "put" /\ a.slot = i
    BY <1>1 DEF AtStates
  <2>2. h' = [[[[[h EXCEPT !.bitmap = h.bitmap] EXCEPT !.used = new_used] EXCEPT !.twice = h.twice]
              EXCEPT !.stored = h.stored] EXCEPT !.at = new_at]
    BY <1>1, <1>6 DEF ReadForPut, BitmapType
  <2> HIDE DEF a
  <2>3. h.at[t].do # "put" /\ i \in h.used
    BY <1>6 DEF ReadForPut, Idle
  <2>4. /\ \A u \in Threads, j \in SlotIds :
             Putting(new_at, u, j) <=> IF u = t THEN i = j ELSE Putting(h.at, u, j)
        /\ new_at[t] = a /\ \A u \in Threads : u # t => new_at[u] = h.at[u]
        /\ \A j \in SlotIds : ~Putting(h.at, t, j)
    BY <1>1, <2>1, <2>3 DEF Putting
  <2>5. Exchanged(h.bitmap, h.used, h.at) => Exchanged(h.bitmap, new_used, new_at)
    <3> SUFFICES ASSUME Exchanged(h.bitmap, h.used, h.at) PROVE Exchanged(h.bitmap, new_used, new_at)
      OBVIOUS
    <3> HIDE DEF new_at
    <3>1. \A u \in Threads : new_at[u].do # "reread" /\ (new_at[u].do = "get" => new_at[u].slot \notin new_at[u].old)
      BY <2>1, <2>4 DEF Exchanged
    <3>2. \A j \in SlotIds : j \in h.bitmap <=> j \in new_used \/ \E u \in Threads : Putting(new_at, u, j)
      BY <2>3, <2>4 DEF Exchanged
    <3>3. \A u \in Threads, j \in SlotIds : Putting(new_at, u, j) => j \notin new_used
      BY <2>4 DEF Exchanged
    <3>4. \A u, v \in Threads, j \in SlotIds : Putting(new_at, u, j) /\ Putting(new_at, v, j) => u = v
      BY <2>3, <2>4 DEF Exchanged
    <3>5. QED
      BY <3>1, <3>2, <3>3, <3>4 DEF Exchanged
  <2>6. new_used \in SUBSET SlotIds
    BY <1>1
  <2> HIDE DEF new_used
  <2>7. QED
    BY <1>1, <1>4, <2>1, <2>2, <2>5, <2>6
<1>7. CASE ReadAgain(t)
  <2> DEFINE a == [do |-> "put", old |-> h.bitmap, slot |-> h.at[t].slot]
  <2>1. a \in AtStates /\ h.at[t].do = "reread"
    BY <1>1, <1>3, <1>7 DEF AtStates, ReadAgain
  <2>2. h' = [[[[[h EXCEPT !.bitmap = h.bitmap] EXCEPT !.used = h.used] EXCEPT !.twice = h.twice]
              EXCEPT !.stored = h.stored] EXCEPT !.at = [h.at EXCEPT ![t] = a]]
    BY <1>1, <1>7 DEF ReadAgain, BitmapType
  <2> HIDE DEF a
  <2>3. h.stored
    BY <1>1, <2>1 DEF Exchanged
  <2>4. QED
    BY <1>1, <1>4, <2>1, <2>2, <2>3
<1>8. ASSUME NEW bitmap \in Bitmaps, NEW again \in AtStates, h.bitmap # h.at[t].old,
             NEW success, Exchange(t, bitmap, success, again)
      PROVE  BitmapInv'
  <2>1. h' = [[[[[h EXCEPT !.bitmap = bitmap] EXCEPT !.used = h.used] EXCEPT !.twice = h.twice]
              EXCEPT !.stored = TRUE] EXCEPT !.at = [h.at EXCEPT ![t] = again]]
    BY <1>1, <1>8 DEF Exchange, BitmapType
  <2>2. QED
    BY <1>1, <1>4, <1>8, <2>1
<1>9. Idle \in AtStates /\ Idle.do = "idle"
  BY DEF Idle, AtStates
<1>10. CASE ExchangeForGet(t)
  <2> DEFINE slot == h.at[t].slot
             old == h.at[t].old
             new_at == [h.at EXCEPT ![t] = Idle]
             new_used == h.used \cup {slot}
             new_twice == slot \in h.used
  <2>1. /\ h.at[t].do = "get" /\ old \in Bitmaps /\ slot \in SlotIds /\ old \cup {slot} \in Bitmaps
    BY <1>3, <1>10, BitsFacts DEF ExchangeForGet, AtStates, Bitmaps
  <2>2. Exchange(t, old \cup {slot}, [h EXCEPT !.used = @ \cup {slot}, !.twice = slot \in h.used], Idle)
    BY <1>10 DEF ExchangeForGet
  <2>3. CASE h.bitmap # old
    BY <1>8, <1>9, <2>1, <2>2, <2>3
  <2>4. CASE h.bitmap = old
    <3>1. h' = [[[[[h EXCEPT !.bitmap = old \cup {slot}] EXCEPT !.used = new_used] EXCEPT !.twice = new_twice]
                EXCEPT !.stored = h.stored] EXCEPT !.at = new_at]
      BY <1>1, <2>2, <2>4 DEF Exchange, BitmapType
    <3>2. /\ \A u \in Threads, j \in SlotIds : Putting(new_at, u, j) <=> Putting(h.at, u, j)
          /\ new_at[t] = Idle /\ \A u \in Threads : u # t => new_at[u] = h.at[u]
      BY <1>1, <1>9, <2>1 DEF Putting
    <3>3. ASSUME Exchanged(h.bitmap, h.used, h.at)
          PROVE  ~new_twice /\ Exchanged(old \cup {slot}, new_used, new_at)
      <4> HIDE DEF new_at
      <4>1. slot \notin h.bitmap
        BY <2>1, <2>4, <3>3 DEF Exchanged
      <4>2. slot \notin h.used /\ \A u \in Threads : ~Putting(h.at, u, slot)
        BY <2>1, <3>3, <4>1 DEF Exchanged
      <4>3. \A u \in Threads : new_at[u].do # "reread" /\ (new_at[u].do = "get" => new_at[u].slot \notin new_at[u].old)
        BY <1>9, <3>2, <3>3 DEF Exchanged
      <4>4. \A j \in SlotIds : j \in old \cup {slot} <=> j \in new_used \/ \E u \in Threads : Putting(new_at, u, j)
        BY <2>4, <3>2, <3>3 DEF Exchanged
      <4>5. \A u \in Threads, j \in SlotIds : Putting(new_at, u, j) => j \notin new_used
        BY <3>2, <3>3, <4>2 DEF Exchanged
      <4>6. \A u, v \in Threads, j \in SlotIds : Putting(new_at, u, j) /\ Putting(new_at, v, j) => u = v
        BY <3>2, <3>3 DEF Exchanged
      <4>7. QED
        BY <4>2, <4>3, <4>4, <4>5, <4>6 DEF Exchanged
    <3>4. new_used \in SUBSET SlotIds /\ new_twice \in BOOLEAN
      BY <1>1, <2>1
    <3> HIDE DEF new_used, new_twice
    <3>5. QED
      BY <1>1, <1>4, <1>9, <2>1, <3>1, <3>3, <3>4
  <2>5. QED
    BY <2>3, <2>4
<1>11. CASE ExchangeForPut(t)
  <2> DEFINE slot == h.at[t].slot
             old == h.at[t].old
             new_at == [h.at EXCEPT ![t] = Idle]
             again == [do |-> "reread", slot |-> slot]
  <2>1. /\ h.at[t].do = "put" /\ old \in Bitmaps /\ slot \in SlotIds /\ old \ {slot} \in Bitmaps
    BY <1>3, <1>11, BitsFacts DEF ExchangeForPut, AtStates, Bitmaps
  <2>2. Exchange(t, old \ {slot}, h, again)
    BY <1>11 DEF ExchangeForPut
  <2>3. CASE h.bitmap # old
    <3>1. again \in AtStates
      BY <2>1 DEF AtStates
    <3> HIDE DEF again
    <3>2. QED
      BY <1>8, <2>1, <2>2, <2>3, <3>1
  <2>4. CASE h.bitmap = old
    <3>1. h' = [[[[[h EXCEPT !.bitmap = old \ {slot}] EXCEPT !.used = h.used] EXCEPT !.twice = h.twice]
                EXCEPT !.stored = h.stored] EXCEPT !.at = new_at]
      BY <1>1, <2>2, <2>4 DEF Exchange, BitmapType
    <3>2. /\ \A u \in Threads, j \in SlotIds :
               Putting(new_at, u, j) <=> u # t /\ Putting(h.at, u, j)
          /\ Putting(h.at, t, slot)
          /\ \A j \in SlotIds : Putting(h.at, t, j) => j = slot
          /\ new_at[t] = Idle /\ \A u \in Threads : u # t => new_at[u] = h.at[u]
      BY <1>1, <1>9, <2>1 DEF Putting
    <3>3. ASSUME Exchanged(h.bitmap, h.used, h.at)
          PROVE  Exchanged(old \ {slot}, h.used, new_at)
      <4> HIDE DEF new_at
      <4>1. slot \notin h.used /\ \A u \in Threads : Putting(h.at, u, slot) => u = t
        BY <2>1, <3>2, <3>3 DEF Exchanged
      <4>3. \A u \in Threads : new_at[u].do # "reread" /\ (new_at[u].do = "get" => new_at[u].slot \notin new_at[u].old)
        BY <1>9, <3>2, <3>3 DEF Exchanged
      <4>4. \A j \in SlotIds : j \in old \ {slot} <=> j \in h.used \/ \E u \in Threads : Putting(new_at, u, j)
        BY <2>4, <3>2, <3>3, <4>1 DEF Exchanged
      <4>5. \A u \in Threads, j \in SlotIds : Putting(new_at, u, j) => j \notin h.used
        BY <3>2, <3>3 DEF Exchanged
      <4>6. \A u, v \in Threads, j \in SlotIds : Putting(new_at, u, j) /\ Putting(new_at, v, j) => u = v
        BY <3>2, <3>3 DEF Exchanged
      <4>7. QED
        BY <4>3, <4>4, <4>5, <4>6 DEF Exchanged
    <3>4. QED
      BY <1>1, <1>4, <1>9, <2>1, <3>1, <3>3
  <2>5. QED
    BY <2>3, <2>4
<1>12. QED
  BY <1>2, <1>5, <1>6, <1>7, <1>10, <1>11

LEMMA BitmapHolds == BitmapInv => BitmapWhole
<1> SUFFICES ASSUME BitmapInv, ~h.stored PROVE BitmapWhole
  BY DEF BitmapWhole
<1> DEFINE back == {h.at[t].slot : t \in {u \in Threads : h.at[u].do = "put"}}
<1>1. /\ h.bitmap \in Bitmaps /\ h.used \in SUBSET SlotIds /\ h.at \in [Threads -> AtStates]
      /\ ~h.twice /\ Exchanged(h.bitmap, h.used, h.at)
  BY DEF BitmapInv, BitmapType
<1>2. \A t \in Threads : h.at[t].do = "put" => h.at[t].slot \in SlotIds
  BY <1>1 DEF AtStates
<1>3. \A i \in SlotIds : i \in back <=> \E t \in Threads : Putting(h.at, t, i)
  BY DEF Putting
<1>4. back \subseteq SlotIds
  BY <1>2
<1>5. h.bitmap \subseteq Bits /\ 0 \in h.bitmap
  BY <1>1 DEF Bitmaps
<1> HIDE DEF back
<1>6. \A i \in Bits : i \in h.bitmap <=> i \in EmptyBitmap \cup h.used \cup back
  BY <1>1, <1>3, <1>4, <1>5, BitsFacts DEF Exchanged
<1>7. EmptyBitmap \cup h.used \cup back \subseteq Bits
  BY <1>1, <1>4, BitsFacts
<1>8. h.bitmap = EmptyBitmap \cup h.used \cup back
  BY <1>5, <1>6, <1>7
<1>9. QED
  BY <1>1, <1>8 DEF BitmapWhole, back

-----------------------------------------------------------------------------
(* Sums of slots in use, for loose in SlotHeaps *)

\* The slots that chunk c adds, and the sum of those of the chunks up to c
Added(held, n, c) == IF c \in held THEN n[c] ELSE 0
Summed(f, held, n, c) == IF c = 0 THEN 0 ELSE f[c - 1] + Added(held, n, c)
SumsTo(f, held, n, m) == f = [c \in 0 .. m |-> Summed(f, held, n, c)]

LEMMA SumsExist == ASSUME NEW held, NEW n PROVE \A m \in Nat : \E f : SumsTo(f, held, n, m)
<1> DEFINE S == {m \in Nat : \E f : SumsTo(f, held, n, m)}
           SumOf(f, c) == Summed(f, held, n, c)
<1>1. 0 \in S
  <2> DEFINE f == [c \in 0 .. 0 |-> 0]
  <2>1. f = [c \in 0 .. 0 |-> Summed(f, held, n, c)]
    BY DEF Summed
  <2> HIDE DEF f
  <2>2. QED
    BY <2>1 DEF SumsTo
<1>2. ASSUME NEW m \in Nat, m \in S
      PROVE  m + 1 \in S
  <2>1. PICK f : f = [c \in 0 .. m |-> SumOf(f, c)]
    BY <1>2 DEF SumsTo
  <2> DEFINE g == [c \in 0 .. m + 1 |-> SumOf(f, c)]
  <2>2. \A c \in 0 .. m : g[c] = f[c]
    BY <2>1
  <2>3. ASSUME NEW c \in 0 .. m + 1
        PROVE  SumOf(f, c) = SumOf(g, c)
    <3>1. c = 0 \/ c - 1 \in 0 .. m
      OBVIOUS
    <3> HIDE DEF g
    <3>2. QED
      BY <2>2, <3>1 DEF Summed
  <2> HIDE DEF SumOf
  <2>4. g = [c \in 0 .. m + 1 |-> SumOf(g, c)]
    <3>1. [c \in 0 .. m + 1 |-> SumOf(f, c)] = [c \in 0 .. m + 1 |-> SumOf(g, c)]
      BY <2>3, Zenon
    <3>2. QED
      BY <3>1
  <2> HIDE DEF g
  <2>5. QED
    BY <2>4 DEF SumsTo, SumOf
<1> HIDE DEF S
<1>3. \A m \in Nat : m \in S
  BY <1>1, <1>2, Induction
<1>4. QED
  BY <1>3 DEF S

LEMMA SumIs ==
  ASSUME NEW held, NEW n
  PROVE  /\ InUseOf(held, n)[0] = 0
         /\ \A c \in 1 .. LooseChunks :
              InUseOf(held, n)[c] = InUseOf(held, n)[c - 1] + Added(held, n, c)
<1> DEFINE f == InUseOf(held, n)
           Fits(g) == SumsTo(g, held, n, LooseChunks)
<1>1. LooseChunks \in Nat
  BY SlotHeapsAssumption
<1>2. f = CHOOSE g : Fits(g)
  BY DEF InUseOf, SumsTo, Summed, Added
<1>3. \E g : Fits(g)
  BY <1>1, SumsExist
<1> HIDE DEF Fits, f
<1>4. Fits(f)
  BY <1>2, <1>3
<1>5. f = [c \in 0 .. LooseChunks |-> Summed(f, held, n, c)]
  BY <1>4 DEF Fits, SumsTo
<1>6. \A c \in 0 .. LooseChunks : f[c] = Summed(f, held, n, c)
  BY <1>5
<1>7. f[0] = 0 /\ \A c \in 1 .. LooseChunks : f[c] = f[c - 1] + Added(held, n, c)
  BY <1>1, <1>6 DEF Summed
<1>8. QED
  BY <1>7 DEF f

\* The slots in use of the chunks held
InUseOfAll(held, n) == InUseOf(held, n)[LooseChunks]

LEMMA SumNat ==
  ASSUME NEW held, NEW n \in [1 .. LooseChunks -> Nat]
  PROVE  InUseOfAll(held, n) \in Nat
<1> DEFINE f == InUseOf(held, n)
           S == {c \in Nat : c <= LooseChunks => f[c] \in Nat}
<1>1. LooseChunks \in Nat
  BY SlotHeapsAssumption
<1>2. f[0] = 0 /\ \A c \in 1 .. LooseChunks : f[c] = f[c - 1] + Added(held, n, c)
  BY SumIs
<1>3. \A c \in 1 .. LooseChunks : Added(held, n, c) \in Nat
  BY DEF Added
<1> HIDE DEF f
<1>4. 0 \in S
  BY <1>2
<1>5. ASSUME NEW c \in Nat, c \in S PROVE c + 1 \in S
  <2> SUFFICES ASSUME c + 1 <= LooseChunks PROVE f[c + 1] \in Nat
    OBVIOUS
  <2>1. c + 1 \in 1 .. LooseChunks /\ (c + 1) - 1 = c /\ f[c] \in Nat
    BY <1>1, <1>5
  <2>2. QED
    BY <1>2, <1>3, <2>1
<1> HIDE DEF S
<1>6. \A c \in Nat : c \in S
  BY <1>4, <1>5, Induction
<1>7. QED
  BY <1>1, <1>6 DEF S, f, InUseOfAll

\* All chunks but one add what they added
SameBut(held, n, new_held, new_n, c) ==
  \A d \in 1 .. LooseChunks : d # c => Added(new_held, new_n, d) = Added(held, n, d)

\* One chunk is held or not, or its slots in use change: the sum changes by that.
LEMMA SumChanges ==
  ASSUME NEW held, NEW n \in [1 .. LooseChunks -> Nat],
         NEW new_held, NEW new_n \in [1 .. LooseChunks -> Nat], NEW c \in 1 .. LooseChunks,
         SameBut(held, n, new_held, new_n, c)
  PROVE  InUseOfAll(new_held, new_n) + Added(held, n, c) = InUseOfAll(held, n) + Added(new_held, new_n, c)
<1> DEFINE f == InUseOf(held, n)
           g == InUseOf(new_held, new_n)
           was == Added(held, n, c)
           is == Added(new_held, new_n, c)
           S == {k \in Nat : k <= LooseChunks =>
                   f[k] \in Nat /\ g[k] \in Nat /\ IF k < c THEN g[k] = f[k] ELSE g[k] + was = f[k] + is}
<1>1. LooseChunks \in Nat /\ c \in Nat /\ c >= 1 /\ c <= LooseChunks
  BY SlotHeapsAssumption
<1>2. /\ f[0] = 0 /\ \A d \in 1 .. LooseChunks : f[d] = f[d - 1] + Added(held, n, d)
      /\ g[0] = 0 /\ \A d \in 1 .. LooseChunks : g[d] = g[d - 1] + Added(new_held, new_n, d)
  BY SumIs
<1>3. \A d \in 1 .. LooseChunks : Added(held, n, d) \in Nat /\ Added(new_held, new_n, d) \in Nat
  BY DEF Added
<1>4. was \in Nat /\ is \in Nat
  BY <1>3
<1> HIDE DEF f, g
<1>5. 0 \in S
  BY <1>1, <1>2
<1>6. ASSUME NEW k \in Nat, k \in S PROVE k + 1 \in S
  <2> SUFFICES ASSUME k + 1 <= LooseChunks
               PROVE  /\ f[k + 1] \in Nat /\ g[k + 1] \in Nat
                      /\ IF k + 1 < c THEN g[k + 1] = f[k + 1] ELSE g[k + 1] + was = f[k + 1] + is
    OBVIOUS
  <2> DEFINE fa == Added(held, n, k + 1)
             ga == Added(new_held, new_n, k + 1)
  <2>1. k + 1 \in 1 .. LooseChunks /\ (k + 1) - 1 = k
    BY <1>1
  <2>2. f[k] \in Nat /\ g[k] \in Nat /\ IF k < c THEN g[k] = f[k] ELSE g[k] + was = f[k] + is
    BY <1>1, <1>6
  <2>3. f[k + 1] = f[k] + fa /\ g[k + 1] = g[k] + ga /\ fa \in Nat /\ ga \in Nat
    BY <1>2, <1>3, <2>1
  <2>4. k + 1 # c => ga = fa
    BY <2>1 DEF SameBut
  <2>5. k + 1 = c => fa = was /\ ga = is
    OBVIOUS
  <2> HIDE DEF fa, ga, was, is
  <2>6. f[k + 1] \in Nat /\ g[k + 1] \in Nat
    BY <2>2, <2>3
  <2>7. CASE k + 1 < c
    <3>1. k < c /\ ga = fa /\ g[k] = f[k]
      BY <1>1, <2>2, <2>4, <2>7
    <3>2. QED
      BY <2>3, <2>6, <2>7, <3>1
  <2>8. CASE k + 1 = c
    <3>1. k < c /\ g[k] = f[k]
      BY <1>1, <2>2, <2>8
    <3>2. g[k + 1] + was = f[k + 1] + is
      BY <1>4, <2>2, <2>3, <2>5, <2>8, <3>1
    <3>3. QED
      BY <1>1, <2>6, <2>8, <3>2
  <2>9. CASE k + 1 > c
    <3>1. ~ (k < c) /\ ~ (k + 1 < c) /\ ga = fa
      BY <1>1, <2>4, <2>9
    <3>2. g[k] + was = f[k] + is
      BY <2>2, <3>1
    <3>3. g[k + 1] + was = f[k + 1] + is
      <4>1. f[k + 1] = f[k] + ga /\ g[k + 1] = g[k] + ga
        BY <2>3, <3>1
      <4>2. f[k] \in Nat /\ g[k] \in Nat /\ ga \in Nat /\ was \in Nat /\ is \in Nat
        BY <1>4, <2>2, <2>3
      <4>3. (g[k] + ga) + was = (g[k] + was) + ga
        BY <4>2
      <4>4. (f[k] + is) + ga = (f[k] + ga) + is
        BY <4>2
      <4>5. QED
        BY <3>2, <4>1, <4>3, <4>4
    <3>4. QED
      BY <2>6, <3>1, <3>3
  <2>10. QED
    BY <1>1, <2>7, <2>8, <2>9
<1> HIDE DEF S
<1>7. \A k \in Nat : k \in S
  BY <1>5, <1>6, Induction
<1>8. LooseChunks \in S
  BY <1>1, <1>7
<1>9. QED
  BY <1>1, <1>8 DEF S, f, g, InUseOfAll

LEMMA MaxIn ==
  ASSUME NEW m \in Nat, NEW S, S \subseteq 0 .. m, S # {}
  PROVE  Max(S) \in S
<1> DEFINE T == {m - x : x \in S}
           x == m - Min(T)
<1>1. T \subseteq Nat /\ T # {}
  OBVIOUS
<1>2. Min(T) \in T /\ \A y \in T : Min(T) <= y
  BY <1>1, MinIn
<1>3. x \in S /\ \A y \in S : x >= y
  <2>1. PICK y \in S : Min(T) = m - y
    BY <1>2
  <2>2. x = y
    <3>1. y \in Nat /\ m - (m - y) = y
      OBVIOUS
    <3> HIDE DEF T
    <3>2. QED
      BY <2>1, <3>1
  <2>3. \A z \in S : m - z \in T
    OBVIOUS
  <2> HIDE DEF T
  <2>4. \A z \in S : m - y <= m - z
    BY <1>2, <2>1, <2>3
  <2>5. QED
    BY <2>2, <2>4
<1> HIDE DEF x
<1>4. QED
  BY <1>3 DEF Max

-----------------------------------------------------------------------------
(* BigChunk and the heaps over it: loose in SlotHeaps *)

LooseIds == 1 .. LooseChunks
LooseLists == [Classes -> Seq(LooseIds)]
LooseCounts == [LooseIds -> 0 .. NumSlots]
ChunksIn(list) == UNION {ToSet(list[f]) : f \in Classes}

\* Each chunk is in the list of its fullness, once
Sorted(list, n) ==
  \A f \in Classes : IsInjective(list[f]) /\ \A c \in ToSet(list[f]) : Fullness(n[c]) = f

\* What LooseWhole says, and that chunks are made in their order
LooseGood(list, inUse, space, n, top, made) ==
  /\ Sorted(list, n)
  /\ IsInjective(top) /\ ToSet(top) \cap ChunksIn(list) = {}
  /\ inUse = InUseOfAll(ChunksIn(list), n)
  /\ space = NumSlots * Cardinality(ChunksIn(list))
  /\ ChunksIn(list) \subseteq 1 .. made /\ ToSet(top) \subseteq 1 .. made
  /\ \A c \in LooseIds : c > made => n[c] = 0

LooseType ==
  h \in [kind : {"loose"}, list : LooseLists, inUse : Nat, space : Nat, n : LooseCounts,
         top : Seq(LooseIds), made : 0 .. LooseChunks, dead : BOOLEAN]

LooseInv ==
  LooseType /\ (~h.dead => LooseGood(h.list, h.inUse, h.space, h.n, h.top, h.made))

\* A step of the heap that is not dead, to these values
LooseStep(list, inUse, space, n, top, made) ==
  /\ list \in LooseLists /\ n \in LooseCounts /\ top \in Seq(LooseIds) /\ made \in 0 .. LooseChunks
  /\ LooseGood(list, inUse, space, n, top, made)
  /\ h' = [[[[[[h EXCEPT !.list = list] EXCEPT !.inUse = inUse] EXCEPT !.space = space]
              EXCEPT !.n = n] EXCEPT !.top = top] EXCEPT !.made = made]

LEMMA LooseFacts ==
  /\ NumSlots \in Nat \ {0} /\ EmptyFraction \in Nat \ {0} /\ LooseChunks \in Nat
  /\ 0 .. EmptyFraction - 1 \subseteq Classes /\ 0 \in Classes /\ 0 \in 0 .. EmptyFraction - 1
BY SlotHeapsAssumption DEF Classes

\* Only the full chunks are of the last class.
LEMMA FullnessIs ==
  ASSUME NEW n \in 0 .. NumSlots
  PROVE  /\ Fullness(n) \in Classes
         /\ Fullness(n) \in 0 .. EmptyFraction - 1 <=> n < NumSlots
         /\ Fullness(0) = 0
<1>1. NumSlots \in Nat \ {0} /\ EmptyFraction \in Nat \ {0} /\ n \in Nat /\ n <= NumSlots
  BY LooseFacts
<1> DEFINE k == EmptyFraction * n
           q == k \div NumSlots
<1>2. k \in Nat /\ q \in Int /\ NumSlots * q <= k /\ k < NumSlots * (q + 1)
  BY <1>1
<1>3. Fullness(0) = 0
  BY <1>1 DEF Fullness
<1>4. q >= 0
  <2> SUFFICES ASSUME q <= -1 PROVE FALSE
    BY <1>2
  <2>1. NumSlots * (q + 1) <= 0
    BY <1>1, <1>2
  <2>2. QED
    BY <1>1, <1>2, <2>1
<1>5. n < NumSlots => q < EmptyFraction
  <2> SUFFICES ASSUME n < NumSlots, q >= EmptyFraction PROVE FALSE
    BY <1>1, <1>2
  <2>1. k < EmptyFraction * NumSlots
    BY <1>1
  <2>2. NumSlots * q >= NumSlots * EmptyFraction
    BY <1>1, <1>2
  <2>3. QED
    BY <1>1, <1>2, <2>1, <2>2
<1>6. n = NumSlots => q = EmptyFraction
  <2> SUFFICES ASSUME n = NumSlots PROVE q = EmptyFraction
    OBVIOUS
  <2>1. q <= EmptyFraction
    <3> SUFFICES ASSUME q >= EmptyFraction + 1 PROVE FALSE
      BY <1>1, <1>2
    <3>1. NumSlots * q >= NumSlots * EmptyFraction + NumSlots
      BY <1>1, <1>2
    <3>2. QED
      BY <1>1, <1>2, <3>1
  <2>2. q >= EmptyFraction
    <3> SUFFICES ASSUME q + 1 <= EmptyFraction PROVE FALSE
      BY <1>1, <1>2
    <3>1. NumSlots * (q + 1) <= NumSlots * EmptyFraction
      BY <1>1, <1>2
    <3>2. QED
      BY <1>1, <1>2, <3>1
  <2>3. QED
    BY <1>1, <1>2, <2>1, <2>2
<1> HIDE DEF q, k
<1>7. n < NumSlots \/ n = NumSlots
  BY <1>1
<1>8. q \in Classes /\ (q \in 0 .. EmptyFraction - 1 <=> n < NumSlots)
  BY <1>1, <1>2, <1>4, <1>5, <1>6, <1>7 DEF Classes
<1>9. QED
  BY <1>3, <1>8 DEF Fullness, q, k

LEMMA StepTaken ==
  ASSUME LooseInv, NEW list, NEW inUse, NEW space, NEW n, NEW top, NEW made, ~h.dead,
         LooseStep(list, inUse, space, n, top, made)
  PROVE  LooseInv'
<1>1. /\ list \in LooseLists /\ n \in LooseCounts /\ top \in Seq(LooseIds) /\ made \in 0 .. LooseChunks
      /\ LooseGood(list, inUse, space, n, top, made)
      /\ h' = [[[[[[h EXCEPT !.list = list] EXCEPT !.inUse = inUse] EXCEPT !.space = space]
                  EXCEPT !.n = n] EXCEPT !.top = top] EXCEPT !.made = made]
      /\ LooseType
  BY DEF LooseStep, LooseInv
<1>2. n \in [1 .. LooseChunks -> Nat]
  BY <1>1, LooseFacts DEF LooseCounts, LooseIds
<1>3. inUse \in Nat
  BY <1>1, <1>2, SumNat DEF LooseGood
<1>4. space \in Nat
  <2>1. ChunksIn(list) \subseteq 1 .. made /\ space = NumSlots * Cardinality(ChunksIn(list))
    BY <1>1 DEF LooseGood
  <2>2. IsFiniteSet(1 .. made)
    <3>1. made \in Int /\ 1 \in Int
      BY <1>1, LooseFacts
    <3>2. QED
      BY <3>1, FS_Interval
  <2>3. Cardinality(ChunksIn(list)) \in Nat
    BY <2>1, <2>2, FS_Subset, FS_CardinalityType
  <2>4. QED
    BY <2>1, <2>3, LooseFacts
<1>5. /\ LooseType' /\ h'.list = list /\ h'.inUse = inUse /\ h'.space = space /\ h'.n = n
      /\ h'.top = top /\ h'.made = made
  BY <1>1, <1>3, <1>4 DEF LooseType
<1>6. QED
  BY <1>1, <1>5 DEF LooseInv

LEMMA LooseDies ==
  ASSUME LooseInv, h' = [h EXCEPT !.dead = TRUE]
  PROVE  LooseInv'
<1>1. LooseType' /\ h'.dead
  BY DEF LooseInv, LooseType
<1>2. QED
  BY <1>1 DEF LooseInv

LEMMA ChunksAre ==
  ASSUME NEW list \in LooseLists
  PROVE  /\ \A c : c \in ChunksIn(list) <=> \E f \in Classes : c \in ToSet(list[f])
         /\ ChunksIn(list) \subseteq LooseIds
<1>1. \A c : c \in ChunksIn(list) <=> \E f \in Classes : c \in ToSet(list[f])
  BY DEF ChunksIn
<1>2. \A f \in Classes : ToSet(list[f]) \subseteq LooseIds
  <2> SUFFICES ASSUME NEW f \in Classes PROVE ToSet(list[f]) \subseteq LooseIds
    OBVIOUS
  <2>1. list[f] \in Seq(LooseIds)
    BY DEF LooseLists
  <2>2. \A i \in DOMAIN list[f] : list[f][i] \in LooseIds
    BY <2>1
  <2>3. QED
    BY <2>2 DEF ToSet
<1>3. QED
  BY <1>1, <1>2

LEMMA LooseStarts == LooseInit => LooseInv
<1> SUFFICES ASSUME LooseInit PROVE LooseInv
  OBVIOUS
<1> DEFINE list == [f \in Classes |-> << >>]
           n == [c \in 1 .. LooseChunks |-> NewBigChunk]
<1>1. << >> \in Seq(LooseIds) /\ IsInjective(<< >>) /\ ToSet(<< >>) = {}
  BY DEF IsInjective, ToSet
<1>2. /\ list \in LooseLists /\ ChunksIn(list) = {} /\ \A f \in Classes : list[f] = << >>
  BY <1>1 DEF LooseLists, ChunksIn
<1>3. n \in LooseCounts /\ n \in [1 .. LooseChunks -> Nat] /\ \A c \in LooseIds : n[c] = 0
  BY LooseFacts DEF NewBigChunk, LooseCounts, LooseIds
<1>4. /\ h.list = list /\ h.inUse = 0 /\ h.space = 0 /\ h.n = n /\ h.top = << >> /\ h.made = 0
      /\ h = [kind |-> "loose", list |-> list, inUse |-> 0, space |-> 0, n |-> n,
              top |-> << >>, made |-> 0, dead |-> FALSE]
  BY DEF LooseInit
<1> HIDE DEF list, n
<1>5. LooseType
  BY <1>1, <1>2, <1>3, <1>4, LooseFacts DEF LooseType
<1>6. InUseOfAll({}, n) = 0
  <2> DEFINE f == InUseOf({}, n)
             S == {c \in Nat : c <= LooseChunks => f[c] = 0}
  <2>1. f[0] = 0 /\ \A c \in 1 .. LooseChunks : f[c] = f[c - 1] + Added({}, n, c)
    BY SumIs
  <2>2. \A c \in 1 .. LooseChunks : Added({}, n, c) = 0
    BY DEF Added
  <2> HIDE DEF f
  <2>3. 0 \in S
    BY <2>1
  <2>4. ASSUME NEW c \in Nat, c \in S PROVE c + 1 \in S
    <3> SUFFICES ASSUME c + 1 <= LooseChunks PROVE f[c + 1] = 0
      OBVIOUS
    <3>1. c + 1 \in 1 .. LooseChunks /\ (c + 1) - 1 = c /\ f[c] = 0
      BY <2>4, LooseFacts
    <3>2. QED
      BY <2>1, <2>2, <3>1
  <2> HIDE DEF S
  <2>5. \A c \in Nat : c \in S
    BY <2>3, <2>4, Induction
  <2>6. QED
    BY <2>5, LooseFacts DEF S, f, InUseOfAll
<1>7. Cardinality({}) = 0 /\ NumSlots * 0 = 0
  BY FS_EmptySet, LooseFacts
<1>8. LooseGood(list, 0, 0, n, << >>, 0)
  BY <1>1, <1>2, <1>3, <1>6, <1>7 DEF LooseGood, Sorted
<1>9. QED
  BY <1>4, <1>5, <1>8 DEF LooseInv

\* Update, with the count that changed
LEMMA Updated ==
  ASSUME NEW list \in LooseLists, NEW n \in LooseCounts, NEW c \in ChunksIn(list), Sorted(list, n),
         NEW m \in 0 .. NumSlots
  PROVE  LET new_list == Update(list, c, Fullness(n[c]), Fullness(m))
             new_n == [n EXCEPT ![c] = m]
         IN  /\ new_list \in LooseLists /\ new_n \in LooseCounts /\ Sorted(new_list, new_n)
             /\ ChunksIn(new_list) = ChunksIn(list) /\ c \in ToSet(new_list[Fullness(m)])
<1> DEFINE f == Fullness(n[c])
           g == Fullness(m)
           new_list == Update(list, c, f, g)
           new_n == [n EXCEPT ![c] = m]
<1>1. c \in LooseIds /\ n[c] \in 0 .. NumSlots
  BY ChunksAre DEF LooseCounts
<1>2. f \in Classes /\ g \in Classes /\ c \in ToSet(list[f]) /\ \A k \in Classes : c \in ToSet(list[k]) => k = f
  BY <1>1, FullnessIs, ChunksAre DEF Sorted
<1>3. /\ new_n \in LooseCounts /\ new_n[c] = m /\ \A d \in LooseIds : d # c => new_n[d] = n[d]
  BY <1>1 DEF LooseCounts
<1>4. \A k \in Classes : /\ list[k] \in Seq(LooseIds) /\ IsInjective(list[k]) /\ ToSet(list[k]) \subseteq LooseIds
                         /\ \A d \in ToSet(list[k]) : Fullness(n[d]) = k
  BY ChunksAre DEF LooseLists, Sorted
<1> HIDE DEF f, g, new_n
<1>5. CASE f = g
  <2>1. new_list = list
    BY <1>5 DEF Update
  <2>2. Fullness(m) = f
    BY <1>5 DEF g
  <2>3. ASSUME NEW k \in Classes, NEW d \in ToSet(list[k]) PROVE Fullness(new_n[d]) = k
    BY <1>2, <1>3, <1>4, <2>2, <2>3
  <2>4. Sorted(list, new_n)
    BY <1>4, <2>3 DEF Sorted
  <2>5. QED
    BY <1>2, <1>3, <1>5, <2>1, <2>4 DEF f, g, new_n
<1>6. CASE f # g
  <2> DEFINE i == CHOOSE i \in DOMAIN list[f] : list[f][i] = c
             removed == RemoveAt(list[f], i)
             pushed == <<c>> \o list[g]
  <2>1. i \in DOMAIN list[f] /\ list[f][i] = c
    <3>1. \E j \in DOMAIN list[f] : list[f][j] = c
      BY <1>2 DEF ToSet
    <3>2. QED
      BY <3>1
  <2>2. new_list = [list EXCEPT ![f] = removed, ![g] = <<c>> \o @]
    BY <1>6 DEF Update
  <2> HIDE DEF i
  <2>3. removed \in Seq(LooseIds) /\ IsInjective(removed) /\ ToSet(removed) = ToSet(list[f]) \ {c}
    BY <1>2, <1>4, <2>1, Dropped
  <2>4. c \notin ToSet(list[g])
    BY <1>2, <1>6
  <2>5. pushed \in Seq(LooseIds) /\ IsInjective(pushed) /\ ToSet(pushed) = {c} \cup ToSet(list[g])
    BY <1>1, <1>2, <1>4, <2>4, Pushed
  <2>6. /\ new_list \in LooseLists /\ new_list[f] = removed /\ new_list[g] = pushed
        /\ \A k \in Classes : k # f /\ k # g => new_list[k] = list[k]
    BY <1>2, <1>6, <2>2, <2>3, <2>5 DEF LooseLists
  <2> HIDE DEF removed, pushed, new_list
  <2>7. \A k \in Classes : IsInjective(new_list[k])
    BY <1>4, <2>3, <2>5, <2>6
  <2>8. ASSUME NEW k \in Classes, NEW d \in ToSet(new_list[k]) PROVE Fullness(new_n[d]) = k
    <3>1. CASE k = f
      BY <1>3, <1>4, <2>3, <2>6, <2>8, <3>1
    <3>2. CASE k = g
      <4>1. CASE d = c
        BY <1>3, <3>2, <4>1 DEF g
      <4>2. CASE d # c
        BY <1>3, <1>4, <2>5, <2>6, <2>8, <3>2, <4>2
      <4>3. QED
        BY <4>1, <4>2
    <3>3. CASE k # f /\ k # g
      <4>1. d \in ToSet(list[k]) /\ d # c
        BY <1>2, <2>6, <2>8, <3>3
      <4>2. QED
        BY <1>3, <1>4, <4>1
    <3>4. QED
      BY <3>1, <3>2, <3>3
  <2>9. Sorted(new_list, new_n)
    BY <2>7, <2>8 DEF Sorted
  <2>10. ASSUME NEW d PROVE d \in ChunksIn(new_list) <=> d \in ChunksIn(list)
    <3>1. d \in ChunksIn(new_list) <=> \E k \in Classes : d \in ToSet(new_list[k])
      BY <2>6, ChunksAre
    <3>2. d \in ChunksIn(list) <=> \E k \in Classes : d \in ToSet(list[k])
      BY ChunksAre
    <3>3. QED
      BY <1>2, <2>3, <2>5, <2>6, <3>1, <3>2
  <2>11. ChunksIn(new_list) = ChunksIn(list)
    BY <2>10
  <2>12. c \in ToSet(new_list[g])
    BY <2>5, <2>6
  <2>13. QED
    BY <1>3, <2>6, <2>9, <2>11, <2>12 DEF f, g, new_n, new_list
<1>7. QED
  BY <1>5, <1>6

Recounted(n, c, m, new_n) == new_n = [n EXCEPT ![c] = m]
Moved(list, n, c, m, new_list) == new_list = Update(list, c, Fullness(n[c]), Fullness(m))

\* The slots in use of one chunk that is held change.
LEMMA Changed ==
  ASSUME NEW list \in LooseLists, NEW inUse, NEW space, NEW n \in LooseCounts, NEW top, NEW made,
         LooseGood(list, inUse, space, n, top, made), NEW c \in ChunksIn(list), NEW m \in 0 .. NumSlots,
         NEW new_list, Moved(list, n, c, m, new_list), NEW new_n, Recounted(n, c, m, new_n),
         made \in 0 .. LooseChunks
  PROVE  /\ new_list \in LooseLists /\ new_n \in LooseCounts
         /\ LooseGood(new_list, (inUse + m) - n[c], space, new_n, top, made)
         /\ c \in ToSet(new_list[Fullness(m)]) /\ inUse \in Nat
<1>1. Sorted(list, n) /\ inUse = InUseOfAll(ChunksIn(list), n)
  BY DEF LooseGood
<1>2. /\ new_list \in LooseLists /\ new_n \in LooseCounts /\ Sorted(new_list, new_n)
      /\ ChunksIn(new_list) = ChunksIn(list) /\ c \in ToSet(new_list[Fullness(m)])
  BY <1>1, Updated DEF Moved, Recounted
<1>3. c \in LooseIds /\ LooseIds = 1 .. LooseChunks
  BY ChunksAre DEF LooseIds
<1>4. n \in [1 .. LooseChunks -> Nat] /\ new_n \in [1 .. LooseChunks -> Nat]
  BY <1>2, LooseFacts DEF LooseCounts, LooseIds
<1>5. new_n[c] = m /\ \A d \in LooseIds : d # c => new_n[d] = n[d]
  BY <1>3 DEF LooseCounts, Recounted
<1>6. \A d \in 1 .. LooseChunks : d # c => Added(ChunksIn(list), new_n, d) = Added(ChunksIn(list), n, d)
  BY <1>3, <1>5 DEF Added
<1>7. Added(ChunksIn(list), new_n, c) = m /\ Added(ChunksIn(list), n, c) = n[c]
  BY <1>5 DEF Added
<1>8. InUseOfAll(ChunksIn(list), new_n) + n[c] = InUseOfAll(ChunksIn(list), n) + m
  <2> DEFINE held == ChunksIn(list)
  <2>1. SameBut(held, n, held, new_n, c)
    BY <1>6 DEF SameBut
  <2>2. c \in 1 .. LooseChunks
    BY <1>3
  <2>3. Added(held, new_n, c) = m /\ Added(held, n, c) = n[c]
    BY <1>7
  <2> HIDE DEF held
  <2>4. InUseOfAll(held, new_n) + Added(held, n, c) = InUseOfAll(held, n) + Added(held, new_n, c)
    BY <1>4, <2>1, <2>2, SumChanges
  <2>5. QED
    BY <2>3, <2>4 DEF held
<1>9. InUseOfAll(ChunksIn(list), new_n) \in Nat /\ inUse \in Nat /\ n[c] \in Nat /\ m \in Nat
  <2>1. InUseOfAll(ChunksIn(list), new_n) \in Nat /\ InUseOfAll(ChunksIn(list), n) \in Nat
    BY <1>4, SumNat
  <2>2. n[c] \in Nat
    BY <1>3, <1>4
  <2>3. m \in Nat
    BY LooseFacts
  <2>4. QED
    BY <1>1, <2>1, <2>2, <2>3
<1>10. (inUse + m) - n[c] = InUseOfAll(ChunksIn(new_list), new_n)
  BY <1>1, <1>2, <1>8, <1>9
<1>11. \A d \in LooseIds : d > made => new_n[d] = 0
  <2>1. c <= made /\ made \in Nat
    BY LooseFacts DEF LooseGood
  <2>2. ASSUME NEW d \in LooseIds, d > made PROVE new_n[d] = 0
    <3>1. d # c
      BY <1>3, <2>1, <2>2
    <3>2. QED
      BY <1>5, <2>2, <3>1 DEF LooseGood
  <2>3. QED
    BY <2>2
<1>12. LooseGood(new_list, (inUse + m) - n[c], space, new_n, top, made)
  BY <1>2, <1>10, <1>11 DEF LooseGood
<1>13. QED
  BY <1>2, <1>9, <1>12

\* A chunk with no slot in use is held: a new one, or one of top.
LEMMA Gained ==
  ASSUME NEW list \in LooseLists, NEW inUse, NEW space, NEW n \in LooseCounts, NEW top, NEW made,
         LooseGood(list, inUse, space, n, top, made), made \in 0 .. LooseChunks,
         list[0] = << >>, NEW c \in LooseIds, c \notin ChunksIn(list), n[c] = 0,
         NEW new_top, IsInjective(new_top), ToSet(new_top) \subseteq ToSet(top), c \notin ToSet(new_top),
         NEW new_made \in 0 .. LooseChunks, made <= new_made, c <= new_made,
         NEW new_list, new_list = [list EXCEPT ![0] = <<c>>]
  PROVE  /\ new_list \in LooseLists /\ c \in ChunksIn(new_list)
         /\ LooseGood(new_list, inUse, space + NumSlots, n, new_top, new_made)
<1> DEFINE held == ChunksIn(list)
           new_held == ChunksIn(new_list)
<1>1. /\ <<c>> \in Seq(LooseIds) /\ IsInjective(<<c>>) /\ ToSet(<<c>>) = {c}
  BY DEF IsInjective, ToSet
<1>2. /\ new_list \in LooseLists /\ new_list[0] = <<c>> /\ \A f \in Classes : f # 0 => new_list[f] = list[f]
      /\ 0 \in Classes
  BY <1>1, LooseFacts DEF LooseLists
<1>3. ToSet(<< >>) = {}
  BY DEF ToSet
<1>4. \A d : d \in new_held <=> d = c \/ d \in held
  <2> SUFFICES ASSUME NEW d PROVE d \in new_held <=> d = c \/ d \in held
    OBVIOUS
  <2>1. d \in new_held <=> \E f \in Classes : d \in ToSet(new_list[f])
    BY <1>2, ChunksAre
  <2>2. d \in held <=> \E f \in Classes : d \in ToSet(list[f])
    BY ChunksAre
  <2> HIDE DEF held, new_held
  <2>3. QED
    BY <1>1, <1>2, <1>3, <2>1, <2>2
<1>5. new_held = held \cup {c}
  BY <1>4
<1>6. Sorted(new_list, n)
  <2>1. Fullness(n[c]) = 0
    BY FullnessIs, LooseFacts
  <2>2. QED
    BY <1>1, <1>2, <2>1 DEF Sorted, LooseGood
<1>7. inUse = InUseOfAll(new_held, n)
  <2>1. c \in 1 .. LooseChunks /\ n \in [1 .. LooseChunks -> Nat]
    BY LooseFacts DEF LooseCounts, LooseIds
  <2>2. SameBut(held, n, new_held, n, c)
    BY <1>5 DEF SameBut, Added
  <2>3. Added(held, n, c) = 0 /\ Added(new_held, n, c) = 0
    BY <1>5 DEF Added
  <2>4. inUse = InUseOfAll(held, n)
    BY DEF LooseGood
  <2> HIDE DEF held, new_held
  <2>5. InUseOfAll(new_held, n) + Added(held, n, c) = InUseOfAll(held, n) + Added(new_held, n, c)
    BY <2>1, <2>2, SumChanges
  <2>6. InUseOfAll(new_held, n) \in Nat /\ InUseOfAll(held, n) \in Nat
    BY <2>1, SumNat
  <2>7. QED
    BY <2>3, <2>4, <2>5, <2>6
<1>8. space + NumSlots = NumSlots * Cardinality(new_held)
  <2>1. held \subseteq 1 .. made /\ space = NumSlots * Cardinality(held)
    BY DEF LooseGood
  <2>2. IsFiniteSet(1 .. made)
    <3>1. made \in Int /\ 1 \in Int
      BY LooseFacts
    <3>2. QED
      BY <3>1, FS_Interval
  <2>3. IsFiniteSet(held) /\ Cardinality(held) \in Nat
    BY <2>1, <2>2, FS_Subset, FS_CardinalityType
  <2>4. c \notin held
    OBVIOUS
  <2> HIDE DEF held, new_held
  <2>5. Cardinality(new_held) = Cardinality(held) + 1
    BY <1>5, <2>3, <2>4, FS_AddElement
  <2>6. QED
    BY <2>1, <2>3, <2>5, LooseFacts
<1>9. ToSet(new_top) \cap new_held = {}
  BY <1>5 DEF LooseGood
<1>10. new_held \subseteq 1 .. new_made /\ ToSet(new_top) \subseteq 1 .. new_made
  <2>1. 1 .. made \subseteq 1 .. new_made /\ c \in 1 .. new_made
    BY LooseFacts DEF LooseIds
  <2>2. QED
    BY <1>5, <2>1 DEF LooseGood
<1>11. \A d \in LooseIds : d > new_made => n[d] = 0
  <2>1. \A d \in LooseIds : d > new_made => d > made
    BY LooseFacts DEF LooseIds
  <2>2. QED
    BY <2>1 DEF LooseGood
<1>12. QED
  BY <1>2, <1>5, <1>6, <1>7, <1>8, <1>9, <1>10, <1>11 DEF LooseGood

\* The first chunk of a list goes to top.
LEMMA GivenBack ==
  ASSUME NEW list \in LooseLists, NEW inUse, NEW space, NEW n \in LooseCounts,
         NEW top \in Seq(LooseIds), NEW made,
         LooseGood(list, inUse, space, n, top, made), made \in 0 .. LooseChunks,
         NEW f \in Classes, list[f] # << >>, NEW c, c = Head(list[f]),
         NEW new_list, new_list = [list EXCEPT ![f] = Tail(list[f])]
  PROVE  /\ new_list \in LooseLists /\ <<c>> \o top \in Seq(LooseIds) /\ c \in LooseIds
         /\ LooseGood(new_list, inUse - n[c], space - NumSlots, n, <<c>> \o top, made)
<1> DEFINE held == ChunksIn(list)
           new_held == ChunksIn(new_list)
           rest == Tail(list[f])
<1>1. list[f] \in Seq(LooseIds) /\ IsInjective(list[f])
  BY DEF LooseLists, LooseGood, Sorted
<1>2. /\ c \in LooseIds /\ rest \in Seq(LooseIds) /\ IsInjective(rest)
      /\ ToSet(list[f]) = {c} \cup ToSet(rest) /\ c \notin ToSet(rest)
  BY <1>1, Popped
<1> HIDE DEF rest
<1>3. /\ new_list \in LooseLists /\ new_list[f] = rest
      /\ \A k \in Classes : k # f => new_list[k] = list[k]
  BY <1>2 DEF LooseLists, rest
<1>4. \A k \in Classes : c \in ToSet(list[k]) => k = f
  BY <1>2 DEF LooseGood, Sorted
<1>5. c \in held
  BY <1>2, ChunksAre
<1>6. \A d : d \in new_held <=> d \in held /\ d # c
  BY <1>2, <1>3, <1>4, ChunksAre
<1>7. new_held = held \ {c}
  BY <1>6
<1>8. Sorted(new_list, n)
  BY <1>2, <1>3 DEF LooseGood, Sorted
<1>9. inUse - n[c] = InUseOfAll(new_held, n)
  <2>1. c \in 1 .. LooseChunks /\ n \in [1 .. LooseChunks -> Nat]
    BY <1>2, LooseFacts DEF LooseCounts, LooseIds
  <2>2. SameBut(held, n, new_held, n, c)
    BY <1>7 DEF SameBut, Added
  <2>3. Added(held, n, c) = n[c] /\ Added(new_held, n, c) = 0 /\ n[c] \in Nat
    BY <1>5, <1>7, <2>1 DEF Added
  <2>4. inUse = InUseOfAll(held, n)
    BY DEF LooseGood
  <2> HIDE DEF held, new_held
  <2>5. InUseOfAll(new_held, n) + Added(held, n, c) = InUseOfAll(held, n) + Added(new_held, n, c)
    BY <2>1, <2>2, SumChanges
  <2>6. InUseOfAll(new_held, n) \in Nat /\ InUseOfAll(held, n) \in Nat
    BY <2>1, SumNat
  <2>7. QED
    BY <2>3, <2>4, <2>5, <2>6
<1>10. space - NumSlots = NumSlots * Cardinality(new_held)
  <2>1. held \subseteq 1 .. made /\ space = NumSlots * Cardinality(held)
    BY DEF LooseGood
  <2>2. IsFiniteSet(1 .. made)
    <3>1. made \in Int /\ 1 \in Int
      BY LooseFacts
    <3>2. QED
      BY <3>1, FS_Interval
  <2>3. IsFiniteSet(held) /\ Cardinality(held) \in Nat
    BY <2>1, <2>2, FS_Subset, FS_CardinalityType
  <2>4. Cardinality(new_held) = Cardinality(held) - 1
    BY <1>5, <1>7, <2>3, FS_RemoveElement
  <2> HIDE DEF held, new_held
  <2>5. QED
    BY <2>1, <2>3, <2>4, LooseFacts
<1>11. c \notin ToSet(top) /\ IsInjective(top) /\ ToSet(top) \cap held = {}
  BY <1>5 DEF LooseGood
<1>12. <<c>> \o top \in Seq(LooseIds) /\ IsInjective(<<c>> \o top) /\ ToSet(<<c>> \o top) = {c} \cup ToSet(top)
  BY <1>2, <1>11, Pushed
<1>13. ToSet(<<c>> \o top) \cap new_held = {}
  BY <1>7, <1>11, <1>12
<1>14. new_held \subseteq 1 .. made /\ ToSet(<<c>> \o top) \subseteq 1 .. made
  BY <1>5, <1>7, <1>12 DEF LooseGood
<1>15. QED
  BY <1>2, <1>3, <1>8, <1>9, <1>10, <1>12, <1>13, <1>14 DEF LooseGood

TakeStep(list, space, top, made, c) ==
  h' = [[[[[[h EXCEPT !.list = list] EXCEPT !.inUse = h.inUse + 1] EXCEPT !.space = space]
          EXCEPT !.n = BigGetSlot(h.n, c)] EXCEPT !.top = top] EXCEPT !.made = made]

\* A slot is taken of a chunk that has room.
LEMMA TakenFrom ==
  ASSUME LooseInv, ~h.dead, NEW list \in LooseLists, NEW space, NEW top \in Seq(LooseIds),
         NEW made \in 0 .. LooseChunks, LooseGood(list, h.inUse, space, h.n, top, made),
         NEW c \in ChunksIn(list), h.n[c] < NumSlots,
         NEW new_list, Moved(list, h.n, c, h.n[c] + 1, new_list),
         TakeStep(new_list, space, top, made, c)
  PROVE  LooseInv'
<1> DEFINE m == h.n[c] + 1
           new_n == BigGetSlot(h.n, c)
<1>1. h.n \in LooseCounts
  BY DEF LooseInv, LooseType
<1>2. c \in LooseIds
  BY ChunksAre
<1>3. h.n[c] \in Nat /\ m \in 0 .. NumSlots
  BY <1>1, <1>2, LooseFacts DEF LooseCounts
<1>4. Recounted(h.n, c, m, new_n) /\ Moved(list, h.n, c, m, new_list)
  BY DEF Recounted, BigGetSlot
<1> DEFINE inUse == (h.inUse + m) - h.n[c]
<1>5. /\ new_list \in LooseLists /\ new_n \in LooseCounts /\ h.inUse \in Nat
      /\ LooseGood(new_list, inUse, space, new_n, top, made)
  <2> HIDE DEF m, new_n
  <2>1. QED
    BY <1>1, <1>3, <1>4, Changed
<1>6. inUse = h.inUse + 1
  BY <1>3, <1>5
<1> HIDE DEF m, new_n, inUse
<1>7. LooseStep(new_list, inUse, space, new_n, top, made)
  BY <1>5, <1>6 DEF LooseStep, TakeStep, new_n
<1>8. QED
  BY <1>7, StepTaken

LEMMA LooseKept ==
  ASSUME LooseInv, LooseNext
  PROVE  LooseInv'
<1>1. /\ LooseType /\ h.list \in LooseLists /\ h.n \in LooseCounts /\ h.top \in Seq(LooseIds)
      /\ h.made \in 0 .. LooseChunks /\ h.inUse \in Nat /\ h.space \in Nat
      /\ ~h.dead => LooseGood(h.list, h.inUse, h.space, h.n, h.top, h.made)
  BY DEF LooseInv, LooseType
<1>2. Held = ChunksIn(h.list)
  BY DEF Held, ChunksIn
<1>3. CASE LooseMalloc
  <2> DEFINE f == Max(Room)
             c == Head(h.list[f])
  <2>1. f \in 0 .. EmptyFraction - 1 /\ f \in Classes /\ h.list[f] # << >>
    <3>1. Room \subseteq 0 .. EmptyFraction - 1 /\ Room # {} /\ EmptyFraction - 1 \in Nat
      BY <1>3, LooseFacts DEF LooseMalloc, Room
    <3>2. f \in Room
      BY <3>1, MaxIn
    <3> HIDE DEF f
    <3>3. QED
      BY <3>2, LooseFacts DEF Room
  <2> HIDE DEF f
  <2>2. h.list[f] \in Seq(LooseIds)
    BY <1>1, <2>1 DEF LooseLists
  <2>3. c \in LooseIds /\ c \in ToSet(h.list[f])
    BY <2>1, <2>2, Popped
  <2>4. c \in ChunksIn(h.list)
    BY <1>1, <2>1, <2>3, ChunksAre
  <2>5. ~h.dead /\ h' = [h EXCEPT !.list = Update(h.list, c, Fullness(h.n[c]), Fullness(h.n[c] + 1)),
                          !.n = BigGetSlot(@, c), !.inUse = @ + 1, !.space = h.space]
    BY <1>3 DEF LooseMalloc, LooseTake, f
  <2> HIDE DEF c
  <2>6. h.n[c] < NumSlots
    <3>1. Fullness(h.n[c]) = f
      BY <1>1, <2>1, <2>3, <2>5 DEF LooseGood, Sorted
    <3>2. h.n[c] \in 0 .. NumSlots
      BY <1>1, <2>3 DEF LooseCounts
    <3>3. QED
      BY <2>1, <3>1, <3>2, FullnessIs
  <2> DEFINE new_list == Update(h.list, c, Fullness(h.n[c]), Fullness(h.n[c] + 1))
  <2>7. TakeStep(new_list, h.space, h.top, h.made, c)
    <3> HIDE DEF new_list
    <3>1. h' = [h EXCEPT !.list = new_list, !.n = BigGetSlot(@, c), !.inUse = @ + 1, !.space = h.space]
      BY <2>5 DEF new_list
    <3>2. QED
      BY <1>1, <3>1 DEF LooseType, TakeStep
  <2>8. Moved(h.list, h.n, c, h.n[c] + 1, new_list)
    BY DEF Moved
  <2> HIDE DEF new_list
  <2>9. QED
    BY <1>1, <2>4, <2>5, <2>6, <2>7, <2>8, TakenFrom
<1>4. ASSUME ~h.dead, Room = {}, NEW c \in LooseIds, NEW top \in Seq(LooseIds), NEW made \in 0 .. LooseChunks,
             c \notin Held, h.n[c] = 0, IsInjective(top), ToSet(top) \subseteq ToSet(h.top),
             c \notin ToSet(top), h.made <= made, c <= made,
             h' = [h EXCEPT !.list = Update([h.list EXCEPT ![0] = <<c>>], c, 0, Fullness(1)),
                            !.n = BigGetSlot(@, c), !.inUse = @ + 1, !.space = @ + NumSlots,
                            !.top = top, !.made = made]
      PROVE  LooseInv'
  <2> DEFINE list == [h.list EXCEPT ![0] = <<c>>]
             new_list == Update(list, c, 0, Fullness(1))
             space == h.space + NumSlots
  <2>1. h.list[0] = << >>
    BY <1>4, LooseFacts DEF Room
  <2>2. list \in LooseLists /\ c \in ChunksIn(list) /\ LooseGood(list, h.inUse, space, h.n, top, made)
    BY <1>1, <1>2, <1>4, <2>1, Gained
  <2>3. h.n[c] < NumSlots /\ Moved(list, h.n, c, h.n[c] + 1, new_list)
    <3>1. Fullness(0) = 0 /\ 0 + 1 = 1
      BY FullnessIs, LooseFacts
    <3>2. QED
      BY <1>4, <3>1, LooseFacts DEF Moved
  <2>4. h' = [h EXCEPT !.list = new_list, !.n = BigGetSlot(@, c), !.inUse = @ + 1, !.space = space,
                       !.top = top, !.made = made]
    BY <1>4
  <2> HIDE DEF list, new_list, space
  <2>5. TakeStep(new_list, space, top, made, c)
    BY <1>1, <2>4 DEF LooseType, TakeStep
  <2>6. QED
    BY <1>4, <2>2, <2>3, <2>5, TakenFrom
<1>5. CASE LooseMallocNew
  <2> DEFINE c == h.made + 1
  <2>1. /\ ~h.dead /\ Room = {} /\ c \in LooseIds /\ c \in 0 .. LooseChunks /\ h.made <= c /\ c > h.made
        /\ h' = [h EXCEPT !.list = Update([h.list EXCEPT ![0] = <<c>>], c, 0, Fullness(1)),
                           !.n = BigGetSlot(@, c), !.inUse = @ + 1, !.space = @ + NumSlots, !.made = c]
    BY <1>1, <1>5, LooseFacts DEF LooseMallocNew, LooseIds
  <2>2. c \notin 1 .. h.made
    BY <1>1, LooseFacts
  <2>3. c \notin Held /\ h.n[c] = 0 /\ IsInjective(h.top) /\ c \notin ToSet(h.top)
    BY <1>1, <1>2, <2>1, <2>2 DEF LooseGood
  <2>4. c <= c
    BY <1>1, LooseFacts
  <2> HIDE DEF c
  <2>5. h' = [h EXCEPT !.list = Update([h.list EXCEPT ![0] = <<c>>], c, 0, Fullness(1)),
                       !.n = BigGetSlot(@, c), !.inUse = @ + 1, !.space = @ + NumSlots,
                       !.top = h.top, !.made = c]
    BY <1>1, <2>1 DEF LooseType
  <2>6. QED
    BY <1>1, <1>4, <2>1, <2>3, <2>4, <2>5
<1>6. CASE LooseRecycle
  <2> DEFINE c == Head(h.top)
             rest == Tail(h.top)
  <2>1. ~h.dead /\ Room = {} /\ h.top # << >>
    BY <1>6 DEF LooseRecycle
  <2>2. /\ c \in LooseIds /\ rest \in Seq(LooseIds) /\ IsInjective(rest)
        /\ ToSet(h.top) = {c} \cup ToSet(rest) /\ c \notin ToSet(rest)
    BY <1>1, <2>1, Popped DEF LooseGood
  <2>3. h.n[c] \in Nat
    BY <1>1, <2>2, LooseFacts DEF LooseCounts
  <2>4. CASE h.n[c] > 0
    BY <1>6, <2>4, LooseDies DEF LooseRecycle
  <2>5. CASE ~ (h.n[c] > 0)
    <3>1. h' = [h EXCEPT !.list = Update([h.list EXCEPT ![0] = <<c>>], c, 0, Fullness(1)),
                         !.n = BigGetSlot(@, c), !.inUse = @ + 1, !.space = @ + NumSlots, !.top = rest]
      BY <1>6, <2>5 DEF LooseRecycle
    <3> HIDE DEF c, rest
    <3>2. h' = [h EXCEPT !.list = Update([h.list EXCEPT ![0] = <<c>>], c, 0, Fullness(1)),
                         !.n = BigGetSlot(@, c), !.inUse = @ + 1, !.space = @ + NumSlots,
                         !.top = rest, !.made = h.made]
      BY <1>1, <3>1 DEF LooseType
    <3>3. c \notin Held /\ c \in 1 .. h.made
      BY <1>1, <1>2, <2>1, <2>2 DEF LooseGood
    <3>4. h.n[c] = 0 /\ h.made <= h.made /\ c <= h.made
      BY <1>1, <2>3, <2>5, <3>3, LooseFacts
    <3>5. QED
      BY <1>1, <1>4, <2>1, <2>2, <3>2, <3>3, <3>4
  <2>6. QED
    BY <2>4, <2>5
<1>7. ASSUME NEW c \in 1 .. LooseChunks, LooseFree(c) PROVE LooseInv'
  <2> DEFINE m == h.n[c] - 1
             list == Update(h.list, c, Fullness(h.n[c]), Fullness(m))
             n == BigPutSlot(h.n, c)
             inUse == (h.inUse + m) - h.n[c]
  <2>1. /\ ~h.dead /\ c \in ChunksIn(h.list) /\ h.n[c] > 0
        /\ IF MayReturn(h.space, h.inUse - 1)
           THEN GiveBack(list, n, h.space, h.inUse - 1)
           ELSE h' = [h EXCEPT !.list = list, !.n = n, !.inUse = @ - 1]
    BY <1>2, <1>7 DEF LooseFree
  <2>2. h.n[c] \in 0 .. NumSlots
    BY <1>1 DEF LooseCounts, LooseIds
  <2>3. m \in 0 .. NumSlots /\ m < NumSlots /\ inUse = h.inUse - 1
    <3> HIDE DEF list, n
    <3>1. h.n[c] \in Nat /\ h.n[c] <= NumSlots /\ h.n[c] > 0 /\ h.inUse \in Nat /\ NumSlots \in Nat
      BY <1>1, <2>1, <2>2, LooseFacts
    <3>2. QED
      BY <3>1
  <2>4. Moved(h.list, h.n, c, m, list) /\ Recounted(h.n, c, m, n)
    BY DEF Moved, Recounted, BigPutSlot
  <2>5. GiveBack(list, n, h.space, inUse) \/ h' = [h EXCEPT !.list = list, !.n = n, !.inUse = inUse]
    <3> HIDE DEF list, n, m, inUse
    <3>1. QED
      BY <1>1, <2>1, <2>3 DEF LooseType
  <2> HIDE DEF m, list, n
  <2>6. /\ list \in LooseLists /\ n \in LooseCounts /\ LooseGood(list, inUse, h.space, n, h.top, h.made)
        /\ c \in ToSet(list[Fullness(m)])
    BY <1>1, <2>1, <2>3, <2>4, Changed
  <2> HIDE DEF inUse
  <2>7. CASE h' = [h EXCEPT !.list = list, !.n = n, !.inUse = inUse]
    <3>1. h' = [[[[[[h EXCEPT !.list = list] EXCEPT !.inUse = inUse] EXCEPT !.space = h.space]
                    EXCEPT !.n = n] EXCEPT !.top = h.top] EXCEPT !.made = h.made]
      BY <1>1, <2>7 DEF LooseType
    <3>2. LooseStep(list, inUse, h.space, n, h.top, h.made)
      BY <1>1, <2>6, <3>1 DEF LooseStep
    <3>3. QED
      BY <2>1, <3>2, StepTaken
  <2>8. CASE GiveBack(list, n, h.space, inUse)
    <3> DEFINE some == {g \in 0 .. EmptyFraction - 1 : list[g] # << >>}
               f == Min(some)
               d == Head(list[f])
               new_list == [list EXCEPT ![f] = Tail(list[f])]
    <3>1. Fullness(m) \in 0 .. EmptyFraction - 1
      BY <2>3, FullnessIs
    <3>2. list[Fullness(m)] # << >>
      <4>1. ToSet(<< >>) = {}
        BY DEF ToSet
      <4>2. QED
        BY <2>6, <4>1
    <3>3. some # {} /\ some \subseteq Nat
      BY <3>1, <3>2
    <3>4. f \in some
      BY <3>3, MinIn
    <3>5. f \in Classes /\ list[f] # << >>
      BY <3>4, LooseFacts
    <3>6. h' = [h EXCEPT !.list = new_list, !.n = n, !.top = <<d>> \o @,
                         !.space = h.space - NumSlots, !.inUse = inUse - n[d]]
      BY <2>8 DEF GiveBack
    <3> HIDE DEF some, f
    <3>7. /\ new_list \in LooseLists /\ <<d>> \o h.top \in Seq(LooseIds)
          /\ LooseGood(new_list, inUse - n[d], h.space - NumSlots, n, <<d>> \o h.top, h.made)
      <4> HIDE DEF d, new_list
      <4>1. d = Head(list[f]) /\ new_list = [list EXCEPT ![f] = Tail(list[f])]
        BY DEF d, new_list
      <4>2. QED
        BY <1>1, <2>6, <3>5, <4>1, GivenBack
    <3> DEFINE new_top == <<d>> \o h.top
    <3> HIDE DEF d, new_list
    <3>8. h' = [[[[[[h EXCEPT !.list = new_list] EXCEPT !.inUse = inUse - n[d]]
                     EXCEPT !.space = h.space - NumSlots]
                    EXCEPT !.n = n] EXCEPT !.top = new_top] EXCEPT !.made = h.made]
      BY <1>1, <3>6 DEF LooseType
    <3>9. LooseStep(new_list, inUse - n[d], h.space - NumSlots, n, new_top, h.made)
      BY <1>1, <2>6, <3>7, <3>8 DEF LooseStep
    <3>10. QED
      BY <2>1, <3>9, StepTaken
  <2>9. QED
    BY <2>5, <2>7, <2>8
<1>8. ASSUME NEW c \in 1 .. LooseChunks, LooseFreeLost(c) PROVE LooseInv'
  BY <1>8, LooseDies DEF LooseFreeLost
<1>9. QED
  BY <1>3, <1>5, <1>6, <1>7, <1>8 DEF LooseNext

LEMMA LooseHolds == LooseInv => LooseWhole
BY DEF LooseInv, LooseWhole, LooseGood, Sorted, ChunksIn, Held, InUseOfAll

-----------------------------------------------------------------------------
(* All of SlotHeaps *)

SlotHeapsInv == SlotsInv \/ LooseInv \/ AlignedInv \/ BitmapInv

\* Whatever the chunks are asked for, and in whatever order threads read and
\* exchange the bitmap of one, no slot is in two places, and the counts of slots
\* in use are those of what is held (Chunk, BigChunk, AlignedChunk and the heaps
\* over them).
THEOREM SlotsInOnePlace == SlotHeapsSpec => []SlotHeapsWhole
<1>1. /\ SlotsInv => h.kind = "slots"
      /\ LooseInv => h.kind = "loose"
      /\ AlignedInv => h.kind = "aligned"
      /\ BitmapInv => h.kind = "bitmap"
  BY DEF SlotsInv, SlotsType, LooseInv, LooseType, AlignedInv, AlignedType, BitmapInv, BitmapType
<1>2. SlotHeapsInit => SlotHeapsInv
  BY SlotsStarts, LooseStarts, AlignedStarts, BitmapStarts DEF SlotHeapsInit, SlotHeapsInv
<1>3. SlotHeapsInv /\ [SlotHeapsNext]_h => SlotHeapsInv'
  <2> SUFFICES ASSUME SlotHeapsInv, [SlotHeapsNext]_h PROVE SlotHeapsInv'
    OBVIOUS
  <2>1. CASE SlotHeapsNext
    BY <1>1, <2>1, SlotsKept, LooseKept, AlignedKept, BitmapKept DEF SlotHeapsNext, SlotHeapsInv
  <2>2. CASE h' = h
    <3>1. CASE SlotsInv
      BY <2>2, <3>1 DEF SlotHeapsInv, SlotsInv, SlotsType
    <3>2. CASE LooseInv
      BY <2>2, <3>2 DEF SlotHeapsInv, LooseInv, LooseType
    <3>3. CASE AlignedInv
      BY <2>2, <3>3 DEF SlotHeapsInv, AlignedInv, AlignedType
    <3>4. CASE BitmapInv
      BY <2>2, <3>4 DEF SlotHeapsInv, BitmapInv, BitmapType
    <3>5. QED
      BY <3>1, <3>2, <3>3, <3>4 DEF SlotHeapsInv
  <2>3. QED
    BY <2>1, <2>2
<1>4. SlotHeapsInv => SlotHeapsWhole
  BY <1>1, SlotsHolds, LooseHolds, AlignedHolds, BitmapHolds DEF SlotHeapsInv, SlotHeapsWhole
<1>5. QED
  BY <1>2, <1>3, <1>4, PTL DEF SlotHeapsSpec
=============================================================================

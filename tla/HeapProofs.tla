----------------------------- MODULE HeapProofs -----------------------------
(***************************************************************************)
(* Proofs about Heap, for every number of processes, every set of size     *)
(* classes and every size of arena, page and heap.                         *)
(***************************************************************************)
EXTENDS Heap, FiniteSetTheorems, TLAPS

-----------------------------------------------------------------------------
(* Sums over processes.  The sum of f is the number of pairs of a process  *)
(* p and a unit up to f[p], so that the cardinality theorems apply.        *)

Units(f) == {u \in Procs \X (1 .. HeapSize) : u[2] <= f[u[1]]}
Sum(f) == Cardinality(Units(f))
Amounts == [Procs -> 0 .. HeapSize]

\* A sum of amounts is a number.
LEMMA SumType ==
  ASSUME NEW f \in Amounts
  PROVE  IsFiniteSet(Units(f)) /\ Sum(f) \in Nat
<1>1. IsFiniteSet(Procs \X (1 .. HeapSize))
  <2>1. IsFiniteSet(1 .. HeapSize)
    BY HeapAssumption, FS_Interval
  <2>2. QED
    BY <2>1, HeapAssumption, FS_Product
<1>2. IsFiniteSet(Units(f))
  BY <1>1, FS_Subset DEF Units
<1>3. QED
  BY <1>2, FS_CardinalityType DEF Sum

\* The sum, with the amount of one process apart.
LEMMA SumSplit ==
  ASSUME NEW f \in Amounts, NEW p \in Procs
  PROVE  Sum(f) = Sum([f EXCEPT ![p] = 0]) + f[p]
<1> DEFINE g == [f EXCEPT ![p] = 0]
           own == {p} \X (1 .. f[p])
<1>1. g \in Amounts /\ f[p] \in Nat /\ f[p] <= HeapSize
  BY HeapAssumption DEF Amounts
<1>2. Units(f) = Units(g) \cup own /\ Units(g) \cap own = {}
  <2>1. \A u \in Procs \X (1 .. HeapSize) : u[2] <= f[u[1]] <=> (u[2] <= g[u[1]] \/ u \in own)
    BY HeapAssumption, <1>1 DEF Amounts
  <2>2. own \subseteq Procs \X (1 .. HeapSize)
    BY HeapAssumption, <1>1
  <2>3. \A u \in own : ~(u[2] <= g[u[1]])
    BY <1>1 DEF Amounts
  <2>4. QED
    BY <2>1, <2>2, <2>3 DEF Units
<1>3. IsFiniteSet(own) /\ Cardinality(own) = f[p]
  <2>1. IsFiniteSet({p}) /\ Cardinality({p}) = 1
    BY FS_Singleton
  <2>2. IsFiniteSet(1 .. f[p]) /\ Cardinality(1 .. f[p]) = f[p]
    <3>1. 1 \in Int /\ f[p] \in Int
      BY <1>1
    <3>2. /\ IsFiniteSet(1 .. f[p])
          /\ Cardinality(1 .. f[p]) = IF 1 > f[p] THEN 0 ELSE f[p] - 1 + 1
      BY <3>1, FS_Interval
    <3>3. QED
      BY <1>1, <3>2
  <2>3. IsFiniteSet(own) /\ Cardinality(own) = Cardinality({p}) * Cardinality(1 .. f[p])
    BY <2>1, <2>2, FS_Product
  <2>4. QED
    BY <1>1, <2>1, <2>2, <2>3
<1>4. Cardinality(Units(g) \cup own) = Cardinality(Units(g)) + Cardinality(own) - Cardinality(Units(g) \cap own)
  BY <1>1, <1>3, SumType, FS_Union
<1>5. Cardinality({}) = 0
  BY FS_EmptySet
<1>6. Sum(g) \in Nat
  BY <1>1, SumType
<1> HIDE DEF own
<1>7. Cardinality(Units(f)) = Cardinality(Units(g)) + f[p] - 0
  BY <1>2, <1>3, <1>4, <1>5
<1>8. QED
  BY <1>1, <1>6, <1>7 DEF Sum

\* Changing one amount changes the sum by the difference.
LEMMA SumChange ==
  ASSUME NEW f \in Amounts, NEW g \in Amounts, NEW p \in Procs,
         \A q \in Procs \ {p} : g[q] = f[q]
  PROVE  Sum(g) = Sum(f) - f[p] + g[p]
<1>1. [f EXCEPT ![p] = 0] = [g EXCEPT ![p] = 0]
  BY DEF Amounts
<1>2. [f EXCEPT ![p] = 0] \in Amounts /\ f[p] \in Nat /\ g[p] \in Nat
  BY HeapAssumption DEF Amounts
<1>3. QED
  BY <1>1, <1>2, SumSplit, SumType

\* A sum is at least each of its amounts, and zero when there are none.
LEMMA SumBounds ==
  ASSUME NEW f \in Amounts
  PROVE  /\ \A p \in Procs : f[p] <= Sum(f)
         /\ (\A p \in Procs : f[p] = 0) => Sum(f) = 0
<1>1. ASSUME NEW p \in Procs
      PROVE  f[p] <= Sum(f)
  <2>1. [f EXCEPT ![p] = 0] \in Amounts /\ f[p] \in Nat
    BY HeapAssumption DEF Amounts
  <2>2. QED
    BY <2>1, SumSplit, SumType
<1>2. ASSUME \A p \in Procs : f[p] = 0
      PROVE  Sum(f) = 0
  <2>1. Units(f) = {}
    BY <1>2 DEF Units
  <2>2. QED
    BY <2>1, FS_EmptySet DEF Sum
<1>3. QED
  BY <1>1, <1>2

-----------------------------------------------------------------------------
(* Type correctness.  That no pointer leaves the heap does not depend on   *)
(* the lock or on who works on which heap, but it does depend on a budget: *)
(* whatever an arena has to give out, is giving out or is about to be      *)
(* given was taken from _remaining before.                                 *)

Exists(a) == arena[a].space > 0

\* Units taken from _remaining while _position does not show it yet
Taken == [p \in Procs |-> IF pc[p] = "taken" THEN Request(req[p]) ELSE 0]

\* Units on their way to become the arena at a
Owed(a) == [p \in Procs |->
              IF pc[p] \in {"taken", "unlock"} /\ at[p] = a THEN Request(req[p]) ELSE 0]

\* Units taken from the arena at a while its pointer does not show it yet
Pending(a) == [p \in Procs |->
                 IF pc[p] = "advance" /\ this[p] = a THEN Size[req[p]] ELSE 0]

\* Where a call is, what it has in hand is a place in the heap.
InHand ==
  \A p \in Procs :
    /\ pc[p] \in {"pop", "link", "put", "taken", "unlock", "advance"} => at[p] \in 1 .. HeapSize
    /\ pc[p] \in {"taken", "unlock"} => Request(req[p]) <= HeapSize
    /\ pc[p] = "advance" =>
         /\ this[p] \in 1 .. HeapSize
         /\ Exists(this[p])
         /\ Size[req[p]] <= HeapSize
    /\ pc[p] \in {"tempAdd", "done"} => at[p] \in Addr

\* A current arena was made, and its space lies behind its record.
Made ==
  /\ \A h \in HeapIds : current[h] # 0 => Exists(current[h])
  /\ \A a \in 1 .. HeapSize : Exists(a) => arena[a].space >= a

Start(a) == IF Exists(a) THEN arena[a].space + arena[a].left ELSE a

Budget ==
  /\ position + remaining + Sum(Taken) = HeapSize + 1
  /\ \A a \in 1 .. HeapSize :
       Exists(a) \/ Sum(Owed(a)) > 0 =>
         Start(a) + Sum(Pending(a)) + Sum(Owed(a)) <= HeapSize + 1 - remaining

Bounded == TypeOK /\ InHand /\ Made /\ Budget

\* Pages that are asked for hold the record and the arena (zoneheap.h:92).
LEMMA RequestFacts ==
  ASSUME NEW c \in Classes
  PROVE  /\ Size[c] \in Nat \ {0}
         /\ ArenaSize(c) \in Nat /\ Size[c] <= ArenaSize(c)
         /\ Request(c) \in Nat \ {0} /\ ArenaHdr + ArenaSize(c) <= Request(c)
<1>1. Size[c] \in Nat \ {0} /\ ArenaSize(c) \in Nat /\ Size[c] <= ArenaSize(c)
  BY HeapAssumption DEF ArenaSize
<1>2. ASSUME NEW n \in Nat
      PROVE  RoundUp(n) \in Nat /\ n <= RoundUp(n)
  <2> DEFINE k == (n + Page - 1) \div Page
  <2>1. Page \in Nat /\ Page > 0 /\ n + Page - 1 \in Nat
    BY HeapAssumption
  <2>2. k \in Nat /\ (n + Page - 1) % Page \in 0 .. Page - 1
        /\ n + Page - 1 = Page * k + ((n + Page - 1) % Page)
    BY <2>1
  <2>3. Page * k \in Nat
    BY <2>1, <2>2
  <2> HIDE DEF k
  <2>4. n <= Page * k
    BY <2>1, <2>2, <2>3
  <2>5. QED
    BY <2>3, <2>4 DEF RoundUp, k
<1>3. ArenaHdr + ArenaSize(c) \in Nat \ {0}
  BY <1>1, HeapAssumption
<1>4. QED
  BY <1>1, <1>2, <1>3 DEF Request

\* The amounts of the budget are amounts.
LEMMA AmountTypes ==
  ASSUME TypeOK, InHand
  PROVE  /\ Taken \in Amounts
         /\ \A a : Owed(a) \in Amounts /\ Pending(a) \in Amounts
<1>1. \A p \in Procs : req[p] \in Classes
  BY DEF TypeOK
<1>2. \A p \in Procs : Request(req[p]) \in Nat /\ Size[req[p]] \in Nat
  BY <1>1, RequestFacts
<1>3. QED
  BY <1>2, HeapAssumption DEF InHand, Amounts, Taken, Owed, Pending

Counted == {"taken", "unlock", "advance"}

\* A step of a process that neither is nor comes where units are counted, and
\* that moves no pointer of an arena, keeps the budget.
LEMMA BudgetKept ==
  ASSUME Budget, NEW p \in Procs, pc[p] \notin Counted, pc'[p] \notin Counted,
         \A q \in Procs \ {p} :
           pc'[q] = pc[q] /\ at'[q] = at[q] /\ req'[q] = req[q] /\ this'[q] = this[q],
         UNCHANGED <<position, remaining, arena>>
  PROVE  Budget'
<1>1. Taken' = Taken
  BY DEF Taken, Counted
<1>2. \A a : Owed(a)' = Owed(a) /\ Pending(a)' = Pending(a)
  BY DEF Owed, Pending, Counted
<1>3. \A a : Exists(a)' = Exists(a) /\ Start(a)' = Start(a)
  BY DEF Exists, Start
<1>4. QED
  BY <1>1, <1>2, <1>3 DEF Budget

\* A process works on a heap there is.
LEMMA MineType ==
  ASSUME TypeOK, NEW p \in Procs
  PROVE  Mine(p) \in HeapIds
<1>1. tid[p] \in Nat
  BY HeapAssumption DEF TypeOK
<1>2. QED
  BY <1>1, HeapAssumption DEF Mine, HeapIds

\* What the locals of a call may be, and the rest of the types
LocalTypes ==
  /\ pc \in [Procs -> Allocating \cup Freeing \cup {"run", "exited"}]
  /\ req \in [Procs -> Classes]
  /\ at \in [Procs -> Addr \cup {0}]
  /\ this \in [Procs -> 0 .. HeapSize]

SharedTypes ==
  /\ MutexTypeOK
  /\ initialized \in BOOLEAN
  /\ current \in [HeapIds -> 0 .. HeapSize]
  /\ head \in [HeapIds -> [Classes -> 0 .. HeapSize]]
  /\ next \in [1 .. HeapSize -> 0 .. HeapSize]
  /\ temp \in Nat
  /\ held \in [Procs -> SUBSET (Addr \X Classes)]

\* The process alone moves, to where no units are counted.
Alone(p) ==
  /\ pc[p] \notin Counted /\ pc'[p] \notin Counted
  /\ pc'[p] \in {"pop", "link", "put"} => at'[p] \in 1 .. HeapSize
  /\ pc'[p] \in {"tempAdd", "done"} => at'[p] \in Addr
  /\ \A q \in Procs \ {p} :
       pc'[q] = pc[q] /\ at'[q] = at[q] /\ req'[q] = req[q] /\ this'[q] = this[q]
  /\ UNCHANGED <<tid, position, remaining, arena>>

\* Such a step keeps the bounds.
LEMMA QuietKept ==
  ASSUME Bounded, NEW p \in Procs, Alone(p), LocalTypes', SharedTypes',
         \A h \in HeapIds : current'[h] \in {0, current[h]}
  PROVE  Bounded'
<1>1. TypeOK'
  BY DEF Bounded, TypeOK, Alone, LocalTypes, SharedTypes
<1>2. InHand'
  <2> SUFFICES ASSUME NEW q \in Procs
               PROVE  /\ pc'[q] \in {"pop", "link", "put", "taken", "unlock", "advance"}
                           => at'[q] \in 1 .. HeapSize
                      /\ pc'[q] \in {"taken", "unlock"} => Request(req'[q]) <= HeapSize
                      /\ pc'[q] = "advance" =>
                           /\ this'[q] \in 1 .. HeapSize
                           /\ arena'[this'[q]].space > 0
                           /\ Size[req'[q]] <= HeapSize
                      /\ pc'[q] \in {"tempAdd", "done"} => at'[q] \in Addr
    BY DEF InHand, Exists
  <2>1. CASE q = p
    BY <2>1 DEF Alone, Counted
  <2>2. CASE q # p
    BY <2>2 DEF Alone, Bounded, InHand, Exists
  <2>3. QED
    BY <2>1, <2>2
<1>3. Made'
  BY DEF Bounded, Alone, Made, Exists
<1>4. Budget'
  BY BudgetKept DEF Bounded, Alone
<1>5. QED
  BY <1>1, <1>2, <1>3, <1>4 DEF Bounded

\* The steps of malloc and free that give out no units keep the bounds.
LEMMA QuietStep ==
  ASSUME Bounded, NEW p \in Procs,
         \/ \E c \in Classes : MallocCall(p, c)
         \/ \E q \in Procs : \E b \in held[q] : FreeCall(p, q, b) \/ FreeAborts(p, q, b)
         \/ ListGet(p) \/ ListPop(p) \/ ListLink(p) \/ ListPut(p)
         \/ ZoneMalloc(p) \/ ZoneAbort(p) \/ DropArena(p)
         \/ SourceLock(p) \/ SourceContend(p) \/ SourceExhausted(p)
         \/ TempTake(p) \/ TempExhausted(p) \/ TempAdd(p) \/ MallocReturn(p) \/ End(p)
  PROVE  Bounded'
<1> USE MineType DEF Goto, Keep, Return, sourceVars, zoneVars, listVars, progVars, callVars,
                     mutexVars, Allocating, Freeing, Counted
<1>a. LocalTypes /\ SharedTypes /\ TypeOK /\ InHand
  BY DEF Bounded, TypeOK, LocalTypes, SharedTypes
<1>b. AnyClass \in Classes /\ Mutexes = {Lock} /\ HeapSize \in Nat
  BY HeapAssumption DEF AnyClass
<1>c. 1 .. HeapSize \subseteq Addr /\ 0 .. HeapSize \subseteq Addr \cup {0}
  BY HeapAssumption DEF Addr
<1>d. \A c \in Classes : Size[c] \in Nat \ {0}
  BY HeapAssumption
<1>1. ASSUME NEW c \in Classes, MallocCall(p, c)
      PROVE  Bounded'
  <2>1. LocalTypes'
    BY <1>a, <1>b, <1>1 DEF LocalTypes, SharedTypes, InHand, MallocCall
  <2>2. SharedTypes'
    BY <1>a, <1>b, <1>1 DEF LocalTypes, SharedTypes, InHand, MutexTypeOK, MallocCall
  <2>3. Alone(p)
    BY <1>a, <1>b, <1>1 DEF LocalTypes, SharedTypes, InHand, Alone, MallocCall
  <2>4. \A h \in HeapIds : current'[h] \in {0, current[h]}
    BY <1>a, <1>1 DEF SharedTypes, MallocCall
  <2>5. QED
    BY <2>1, <2>2, <2>3, <2>4, QuietKept
<1>2. ASSUME ListGet(p)
      PROVE  Bounded'
  <2>0. head[Mine(p)][req[p]] \in Addr \cup {0}
    BY <1>a, <1>c DEF LocalTypes, SharedTypes
  <2>1. LocalTypes'
    BY <1>a, <2>0, <1>2 DEF LocalTypes, ListGet
  <2>2. SharedTypes'
    BY <1>a, <1>b, <1>2 DEF LocalTypes, SharedTypes, InHand, MutexTypeOK, ListGet
  <2>3. Alone(p)
    BY <1>a, <1>b, <1>2 DEF LocalTypes, SharedTypes, InHand, Alone, Addr, ListGet
  <2>4. \A h \in HeapIds : current'[h] \in {0, current[h]}
    BY <1>a, <1>2 DEF SharedTypes, ListGet
  <2>5. QED
    BY <2>1, <2>2, <2>3, <2>4, QuietKept
<1>3. ASSUME ListPop(p)
      PROVE  Bounded'
  <2>1. LocalTypes'
    BY <1>a, <1>b, <1>3 DEF LocalTypes, SharedTypes, InHand, ListPop
  <2>2. SharedTypes'
    BY <1>a, <1>b, <1>3 DEF LocalTypes, SharedTypes, InHand, MutexTypeOK, ListPop
  <2>3. Alone(p)
    BY <1>a, <1>b, <1>3 DEF LocalTypes, SharedTypes, InHand, Alone, ListPop
  <2>4. \A h \in HeapIds : current'[h] \in {0, current[h]}
    BY <1>a, <1>3 DEF SharedTypes, ListPop
  <2>5. QED
    BY <2>1, <2>2, <2>3, <2>4, QuietKept
<1>4. ASSUME ListLink(p)
      PROVE  Bounded'
  <2>1. LocalTypes'
    BY <1>a, <1>b, <1>4 DEF LocalTypes, SharedTypes, InHand, ListLink
  <2>2. SharedTypes'
    BY <1>a, <1>b, <1>4 DEF LocalTypes, SharedTypes, InHand, MutexTypeOK, ListLink
  <2>3. Alone(p)
    BY <1>a, <1>b, <1>4 DEF LocalTypes, SharedTypes, InHand, Alone, ListLink
  <2>4. \A h \in HeapIds : current'[h] \in {0, current[h]}
    BY <1>a, <1>4 DEF SharedTypes, ListLink
  <2>5. QED
    BY <2>1, <2>2, <2>3, <2>4, QuietKept
<1>5. ASSUME ListPut(p)
      PROVE  Bounded'
  <2>1. LocalTypes'
    BY <1>a, <1>b, <1>5 DEF LocalTypes, SharedTypes, InHand, Addr, ListPut
  <2>2. SharedTypes'
    BY <1>a, <1>b, <1>5 DEF LocalTypes, SharedTypes, InHand, MutexTypeOK, ListPut
  <2>3. Alone(p)
    BY <1>a, <1>b, <1>5 DEF LocalTypes, SharedTypes, InHand, Alone, Addr, ListPut
  <2>4. \A h \in HeapIds : current'[h] \in {0, current[h]}
    BY <1>a, <1>5 DEF SharedTypes, ListPut
  <2>5. QED
    BY <2>1, <2>2, <2>3, <2>4, QuietKept
<1>6. ASSUME ZoneMalloc(p)
      PROVE  Bounded'
  <2>1. LocalTypes'
    BY <1>a, <1>b, <1>6 DEF LocalTypes, SharedTypes, InHand, ZoneMalloc
  <2>2. SharedTypes'
    BY <1>a, <1>b, <1>6 DEF LocalTypes, SharedTypes, InHand, MutexTypeOK, ZoneMalloc
  <2>3. Alone(p)
    BY <1>a, <1>b, <1>6 DEF LocalTypes, SharedTypes, InHand, Alone, ZoneMalloc
  <2>4. \A h \in HeapIds : current'[h] \in {0, current[h]}
    BY <1>a, <1>6 DEF SharedTypes, ZoneMalloc
  <2>5. QED
    BY <2>1, <2>2, <2>3, <2>4, QuietKept
<1>7. ASSUME ZoneAbort(p)
      PROVE  Bounded'
  <2>1. LocalTypes'
    BY <1>a, <1>b, <1>7 DEF LocalTypes, SharedTypes, InHand, ZoneAbort
  <2>2. SharedTypes'
    BY <1>a, <1>b, <1>7 DEF LocalTypes, SharedTypes, InHand, MutexTypeOK, ZoneAbort
  <2>3. Alone(p)
    BY <1>a, <1>b, <1>7 DEF LocalTypes, SharedTypes, InHand, Alone, ZoneAbort
  <2>4. \A h \in HeapIds : current'[h] \in {0, current[h]}
    BY <1>a, <1>7 DEF SharedTypes, ZoneAbort
  <2>5. QED
    BY <2>1, <2>2, <2>3, <2>4, QuietKept
<1>8. ASSUME DropArena(p)
      PROVE  Bounded'
  <2>1. LocalTypes'
    BY <1>a, <1>b, <1>8 DEF LocalTypes, SharedTypes, InHand, DropArena
  <2>2. SharedTypes'
    BY <1>a, <1>b, <1>8 DEF LocalTypes, SharedTypes, InHand, MutexTypeOK, DropArena
  <2>3. Alone(p)
    BY <1>a, <1>b, <1>8 DEF LocalTypes, SharedTypes, InHand, Alone, DropArena
  <2>4. \A h \in HeapIds : current'[h] \in {0, current[h]}
    BY <1>a, <1>8 DEF SharedTypes, DropArena
  <2>5. QED
    BY <2>1, <2>2, <2>3, <2>4, QuietKept
<1>9. ASSUME SourceLock(p)
      PROVE  Bounded'
  <2>1. LocalTypes'
    BY <1>a, <1>b, <1>9 DEF LocalTypes, SharedTypes, InHand, SourceLock, AcquireFirst
  <2>2. SharedTypes'
    BY <1>a, <1>b, <1>9 DEF LocalTypes, SharedTypes, InHand, MutexTypeOK, SourceLock, AcquireFirst
  <2>3. Alone(p)
    BY <1>a, <1>b, <1>9 DEF LocalTypes, SharedTypes, InHand, Alone, SourceLock, AcquireFirst
  <2>4. \A h \in HeapIds : current'[h] \in {0, current[h]}
    BY <1>a, <1>9 DEF SharedTypes, SourceLock, AcquireFirst
  <2>5. QED
    BY <2>1, <2>2, <2>3, <2>4, QuietKept
<1>10. ASSUME SourceContend(p)
      PROVE  Bounded'
  <2>1. LocalTypes'
    BY <1>a, <1>b, <1>10 DEF LocalTypes, SharedTypes, InHand, SourceContend, AcquireLater, FallAsleep
  <2>2. SharedTypes'
    BY <1>a, <1>b, <1>10 DEF LocalTypes, SharedTypes, InHand, MutexTypeOK, SourceContend, AcquireLater, FallAsleep
  <2>3. Alone(p)
    BY <1>a, <1>b, <1>10 DEF LocalTypes, SharedTypes, InHand, Alone, SourceContend, AcquireLater, FallAsleep
  <2>4. \A h \in HeapIds : current'[h] \in {0, current[h]}
    BY <1>a, <1>10 DEF SharedTypes, SourceContend, AcquireLater, FallAsleep
  <2>5. QED
    BY <2>1, <2>2, <2>3, <2>4, QuietKept
<1>11. ASSUME SourceExhausted(p)
      PROVE  Bounded'
  <2>1. LocalTypes'
    BY <1>a, <1>b, <1>11 DEF LocalTypes, SharedTypes, InHand, SourceExhausted
  <2>2. SharedTypes'
    BY <1>a, <1>b, <1>11 DEF LocalTypes, SharedTypes, InHand, MutexTypeOK, SourceExhausted
  <2>3. Alone(p)
    BY <1>a, <1>b, <1>11 DEF LocalTypes, SharedTypes, InHand, Alone, SourceExhausted
  <2>4. \A h \in HeapIds : current'[h] \in {0, current[h]}
    BY <1>a, <1>11 DEF SharedTypes, SourceExhausted
  <2>5. QED
    BY <2>1, <2>2, <2>3, <2>4, QuietKept
<1>12. ASSUME TempTake(p)
      PROVE  Bounded'
  <2>0. TempBase + temp \in Addr
    <3>1. temp \in Nat /\ Size[req[p]] \in Nat \ {0} /\ temp + Size[req[p]] <= TempSize
      BY <1>a, <1>d, <1>12 DEF LocalTypes, SharedTypes, TempTake
    <3>2. QED
      BY <3>1, HeapAssumption DEF TempBase, Addr
  <2>1. LocalTypes'
    BY <1>a, <2>0, <1>12 DEF LocalTypes, TempTake
  <2>2. SharedTypes'
    BY <1>a, <1>b, <1>12 DEF LocalTypes, SharedTypes, InHand, MutexTypeOK, TempTake
  <2>3. Alone(p)
    BY <1>a, <2>0, <1>12 DEF LocalTypes, Alone, TempTake
  <2>4. \A h \in HeapIds : current'[h] \in {0, current[h]}
    BY <1>a, <1>12 DEF SharedTypes, TempTake
  <2>5. QED
    BY <2>1, <2>2, <2>3, <2>4, QuietKept
<1>13. ASSUME TempExhausted(p)
      PROVE  Bounded'
  <2>1. LocalTypes'
    BY <1>a, <1>b, <1>13 DEF LocalTypes, SharedTypes, InHand, TempExhausted
  <2>2. SharedTypes'
    BY <1>a, <1>b, <1>13 DEF LocalTypes, SharedTypes, InHand, MutexTypeOK, TempExhausted
  <2>3. Alone(p)
    BY <1>a, <1>b, <1>13 DEF LocalTypes, SharedTypes, InHand, Alone, TempExhausted
  <2>4. \A h \in HeapIds : current'[h] \in {0, current[h]}
    BY <1>a, <1>13 DEF SharedTypes, TempExhausted
  <2>5. QED
    BY <2>1, <2>2, <2>3, <2>4, QuietKept
<1>14. ASSUME TempAdd(p)
      PROVE  Bounded'
  <2>1. LocalTypes'
    BY <1>a, <1>b, <1>14 DEF LocalTypes, SharedTypes, InHand, TempAdd
  <2>0. temp + Size[req[p]] \in Nat
    BY <1>a, <1>d DEF LocalTypes, SharedTypes
  <2>2. SharedTypes'
    BY <1>a, <2>0, <1>14 DEF LocalTypes, SharedTypes, InHand, MutexTypeOK, TempAdd
  <2>3. Alone(p)
    BY <1>a, <1>b, <1>14 DEF LocalTypes, SharedTypes, InHand, Alone, TempAdd
  <2>4. \A h \in HeapIds : current'[h] \in {0, current[h]}
    BY <1>a, <1>14 DEF SharedTypes, TempAdd
  <2>5. QED
    BY <2>1, <2>2, <2>3, <2>4, QuietKept
<1>15. ASSUME MallocReturn(p)
      PROVE  Bounded'
  <2>1. LocalTypes'
    BY <1>a, <1>b, <1>15 DEF LocalTypes, SharedTypes, InHand, MallocReturn
  <2>2. SharedTypes'
    BY <1>a, <1>b, <1>15 DEF LocalTypes, SharedTypes, InHand, MutexTypeOK, MallocReturn
  <2>3. Alone(p)
    BY <1>a, <1>b, <1>15 DEF LocalTypes, SharedTypes, InHand, Alone, MallocReturn
  <2>4. \A h \in HeapIds : current'[h] \in {0, current[h]}
    BY <1>a, <1>15 DEF SharedTypes, MallocReturn
  <2>5. QED
    BY <2>1, <2>2, <2>3, <2>4, QuietKept
<1>16. ASSUME End(p)
      PROVE  Bounded'
  <2>1. LocalTypes'
    BY <1>a, <1>b, <1>16 DEF LocalTypes, SharedTypes, InHand, End
  <2>2. SharedTypes'
    BY <1>a, <1>b, <1>16 DEF LocalTypes, SharedTypes, InHand, MutexTypeOK, End
  <2>3. Alone(p)
    BY <1>a, <1>b, <1>16 DEF LocalTypes, SharedTypes, InHand, Alone, End
  <2>4. \A h \in HeapIds : current'[h] \in {0, current[h]}
    BY <1>a, <1>16 DEF SharedTypes, End
  <2>5. QED
    BY <2>1, <2>2, <2>3, <2>4, QuietKept
<1>17. ASSUME NEW q \in Procs, NEW b \in held[q], FreeCall(p, q, b)
      PROVE  Bounded'
  <2>0. b[1] \in Addr /\ b[2] \in Classes /\ (initialized => b[1] \in 1 .. HeapSize)
    <3>1. b \in Addr \X Classes
      BY <1>a DEF SharedTypes
    <3>2. initialized => b[1] < TempBase
      BY <1>17 DEF FreeCall
    <3>3. QED
      BY <3>1, <3>2, HeapAssumption DEF Addr, TempBase
  <2>1. LocalTypes'
    BY <1>a, <2>0, <1>17 DEF LocalTypes, FreeCall
  <2>2. SharedTypes'
    BY <1>a, <1>b, <1>17 DEF LocalTypes, SharedTypes, InHand, MutexTypeOK, FreeCall
  <2>3. Alone(p)
    BY <1>a, <2>0, <1>17 DEF LocalTypes, Alone, FreeCall
  <2>4. \A h \in HeapIds : current'[h] \in {0, current[h]}
    BY <1>a, <1>17 DEF SharedTypes, FreeCall
  <2>5. QED
    BY <2>1, <2>2, <2>3, <2>4, QuietKept
<1>18. ASSUME NEW q \in Procs, NEW b \in held[q], FreeAborts(p, q, b)
      PROVE  Bounded'
  <2>1. LocalTypes'
    BY <1>a, <1>b, <1>18 DEF LocalTypes, SharedTypes, InHand, FreeAborts
  <2>2. SharedTypes'
    BY <1>a, <1>b, <1>18 DEF LocalTypes, SharedTypes, InHand, MutexTypeOK, FreeAborts
  <2>3. Alone(p)
    BY <1>a, <1>b, <1>18 DEF LocalTypes, SharedTypes, InHand, Alone, FreeAborts
  <2>4. \A h \in HeapIds : current'[h] \in {0, current[h]}
    BY <1>a, <1>18 DEF SharedTypes, FreeAborts
  <2>5. QED
    BY <2>1, <2>2, <2>3, <2>4, QuietKept
<1>19. QED
  BY <1>1, <1>2, <1>3, <1>4, <1>5, <1>6, <1>7, <1>8, <1>9, <1>10, <1>11, <1>12, <1>13, <1>14, <1>15, <1>16, <1>17, <1>18

\* The amounts of the budget after a step.
LEMMA AmountTypesNext ==
  ASSUME TypeOK', InHand'
  PROVE  /\ Taken' \in Amounts
         /\ \A a : Owed(a)' \in Amounts /\ Pending(a)' \in Amounts
<1>1. \A p \in Procs : req'[p] \in Classes
  BY DEF TypeOK
<1>2. \A p \in Procs : Request(req'[p]) \in Nat /\ Size[req'[p]] \in Nat
  BY <1>1, RequestFacts
<1>3. QED
  BY <1>2, HeapAssumption DEF InHand, Amounts, Taken, Owed, Pending

\* Arena::malloc takes the units of the block from the arena's account.
LEMMA CarveStep ==
  ASSUME Bounded, NEW p \in Procs, ArenaCarve(p)
  PROVE  Bounded'
<1> USE DEF Goto, Keep, sourceVars, zoneVars, listVars, progVars, callVars, mutexVars
<1> SUFFICES ASSUME NEW a, a = current[Mine(p)], NEW s, s = Size[req[p]]
             PROVE  Bounded'
  OBVIOUS
<1>a. TypeOK /\ InHand /\ Made /\ Budget
  BY DEF Bounded
<1>b. HeapSize \in Nat /\ req[p] \in Classes /\ s \in Nat \ {0} /\ Mine(p) \in HeapIds
  BY <1>a, MineType, HeapAssumption DEF TypeOK
<1>c. /\ a \in 1 .. HeapSize /\ Exists(a)
      /\ arena[a].left \in 0 .. HeapSize /\ arena[a].left >= s
      /\ arena[a].space \in 1 .. HeapSize + 1
  <2>1. a \in 0 .. HeapSize /\ Left(p) >= s
    BY <1>a, <1>b DEF TypeOK, ArenaCarve
  <2>2. a # 0
    BY <1>b, <2>1 DEF Left
  <2>3. a \in 1 .. HeapSize /\ Exists(a)
    BY <1>a, <1>b, <2>1, <2>2 DEF Made
  <2>4. QED
    BY <1>a, <2>1, <2>2, <2>3 DEF TypeOK, Left, Exists
<1>d. /\ Taken \in Amounts
      /\ \A b : Owed(b) \in Amounts /\ Pending(b) \in Amounts
  BY <1>a, AmountTypes
<1>e. /\ Sum(Taken) \in Nat
      /\ \A b : Sum(Owed(b)) \in Nat /\ Sum(Pending(b)) \in Nat
  BY <1>d, SumType
<1>f. arena[a].space + arena[a].left + Sum(Pending(a)) + Sum(Owed(a)) <= HeapSize + 1 - remaining
  BY <1>a, <1>c DEF Budget, Start
<1>g. remaining \in 0 .. HeapSize /\ position \in 1 .. HeapSize + 1
  BY <1>a DEF TypeOK
<1>h. arena[a].space \in 1 .. HeapSize
  BY <1>b, <1>c, <1>e, <1>f, <1>g
<1>1. TypeOK'
  <2>1. arena' \in [1 .. HeapSize -> [left : 0 .. HeapSize, space : 0 .. HeapSize + 1]]
    <3>1. arena[a].left - s \in 0 .. HeapSize
      BY <1>b, <1>c
    <3>2. arena \in [1 .. HeapSize -> [left : 0 .. HeapSize, space : 0 .. HeapSize + 1]]
      BY <1>a DEF TypeOK
    <3>3. arena' = [arena EXCEPT ![a].left = arena[a].left - s]
      BY DEF ArenaCarve
    <3>4. QED
      BY <3>1, <3>2, <3>3
  <2>2. at' \in [Procs -> Addr \cup {0}]
    <3>1. arena[a].space \in Addr
      BY <1>h, HeapAssumption DEF Addr
    <3>2. QED
      BY <1>a, <3>1 DEF TypeOK, ArenaCarve
  <2>3. this' \in [Procs -> 0 .. HeapSize] /\ pc' \in [Procs -> Allocating \cup Freeing \cup {"run", "exited"}]
    BY <1>a, <1>c DEF TypeOK, ArenaCarve, Allocating
  <2>4. QED
    BY <1>a, <2>1, <2>2, <2>3 DEF TypeOK, ArenaCarve, MutexTypeOK
<1>2. /\ \A b \in 1 .. HeapSize : arena'[b].space = arena[b].space
      /\ \A b \in 1 .. HeapSize \ {a} : arena'[b] = arena[b]
      /\ arena'[a].left = arena[a].left - s
  BY <1>a, <1>c DEF TypeOK, ArenaCarve
<1>3. /\ pc[p] = "carve" /\ pc'[p] = "advance" /\ at'[p] = arena[a].space /\ this'[p] = a
      /\ req' = req /\ current' = current /\ position' = position /\ remaining' = remaining
      /\ \A q \in Procs \ {p} : pc'[q] = pc[q] /\ at'[q] = at[q] /\ this'[q] = this[q]
  BY <1>a DEF TypeOK, ArenaCarve
<1>4. InHand'
  <2> SUFFICES ASSUME NEW q \in Procs
               PROVE  /\ pc'[q] \in {"pop", "link", "put", "taken", "unlock", "advance"}
                           => at'[q] \in 1 .. HeapSize
                      /\ pc'[q] \in {"taken", "unlock"} => Request(req'[q]) <= HeapSize
                      /\ pc'[q] = "advance" =>
                           /\ this'[q] \in 1 .. HeapSize
                           /\ arena'[this'[q]].space > 0
                           /\ Size[req'[q]] <= HeapSize
                      /\ pc'[q] \in {"tempAdd", "done"} => at'[q] \in Addr
    BY DEF InHand, Exists
  <2>1. CASE q = p
    BY <2>1, <1>b, <1>c, <1>h, <1>2, <1>3
  <2>2. CASE q # p
    BY <1>a, <2>2, <1>2, <1>3 DEF InHand, Exists
  <2>3. QED
    BY <2>1, <2>2
<1>5. Made'
  <2>1. \A b \in 1 .. HeapSize : Exists(b)' = Exists(b) /\ arena'[b].space = arena[b].space
    BY <1>2 DEF Exists
  <2>2. \A h \in HeapIds : current[h] # 0 => current[h] \in 1 .. HeapSize
    BY <1>a, <1>b DEF TypeOK
  <2>3. QED
    BY <1>a, <1>3, <2>1, <2>2 DEF Made
<1>6. Budget'
  <2>1. Taken' = Taken
    BY <1>3 DEF Taken
  <2>2. \A b : Owed(b)' = Owed(b)
    BY <1>3 DEF Owed
  <2>3. \A b : b # a => Pending(b)' = Pending(b)
    BY <1>3 DEF Pending
  <2>4. Sum(Pending(a)') = Sum(Pending(a)) + s
    <3>1. Pending(a)' \in Amounts
      BY <1>1, <1>4, AmountTypesNext
    <3>2. Pending(a)[p] = 0 /\ Pending(a)'[p] = s
      BY <1>3 DEF Pending
    <3>3. \A q \in Procs \ {p} : Pending(a)'[q] = Pending(a)[q]
      BY <1>3 DEF Pending
    <3>4. Sum(Pending(a)') = Sum(Pending(a)) - Pending(a)[p] + Pending(a)'[p]
      BY <1>d, <3>1, <3>3, SumChange
    <3>5. QED
      BY <1>b, <1>e, <3>2, <3>4
  <2>5. \A b \in 1 .. HeapSize : Exists(b)' = Exists(b) /\ (b # a => Start(b)' = Start(b))
    BY <1>2 DEF Exists, Start
  <2>6. Exists(a)' /\ Start(a)' = arena[a].space + arena[a].left - s
    BY <1>c, <1>2, <1>b DEF Exists, Start
  <2>7. ASSUME NEW b \in 1 .. HeapSize, Exists(b)' \/ Sum(Owed(b)') > 0
        PROVE  Start(b)' + Sum(Pending(b)') + Sum(Owed(b)') <= HeapSize + 1 - remaining'
    <3>1. CASE b = a
      <4>1. Start(a)' + Sum(Pending(a)') = arena[a].space + arena[a].left + Sum(Pending(a))
        BY <1>b, <1>c, <1>e, <2>4, <2>6
      <4>2. QED
        BY <3>1, <4>1, <1>3, <1>f, <2>2
    <3>2. CASE b # a
      BY <1>a, <3>2, <2>7, <2>2, <2>3, <2>5, <1>3 DEF Budget
    <3>3. QED
      BY <3>1, <3>2
  <2>8. QED
    BY <1>a, <2>1, <2>7, <1>3 DEF Budget
<1>7. QED
  BY <1>1, <1>4, <1>5, <1>6 DEF Bounded

\* Arena::malloc moves the pointer past the block it has taken.
LEMMA AdvanceStep ==
  ASSUME Bounded, NEW p \in Procs, ArenaAdvance(p)
  PROVE  Bounded'
<1> USE DEF Goto, Keep, sourceVars, zoneVars, listVars, progVars, callVars, mutexVars
<1> SUFFICES ASSUME NEW a, a = this[p], NEW s, s = Size[req[p]]
             PROVE  Bounded'
  OBVIOUS
<1>a. TypeOK /\ InHand /\ Made /\ Budget
  BY DEF Bounded
<1>b. HeapSize \in Nat /\ req[p] \in Classes /\ s \in Nat \ {0} /\ s <= HeapSize
  BY <1>a, HeapAssumption DEF TypeOK, InHand, ArenaAdvance
<1>c. /\ a \in 1 .. HeapSize /\ Exists(a) /\ at[p] \in 1 .. HeapSize
      /\ arena[a].left \in 0 .. HeapSize
      /\ arena[a].space \in 1 .. HeapSize + 1
  BY <1>a, <1>b DEF TypeOK, Exists, InHand, ArenaAdvance
<1>d. /\ Taken \in Amounts
      /\ \A b : Owed(b) \in Amounts /\ Pending(b) \in Amounts
  BY <1>a, AmountTypes
<1>e. /\ Sum(Taken) \in Nat
      /\ \A b : Sum(Owed(b)) \in Nat /\ Sum(Pending(b)) \in Nat
  BY <1>d, SumType
<1>f. arena[a].space + arena[a].left + Sum(Pending(a)) + Sum(Owed(a)) <= HeapSize + 1 - remaining
  BY <1>a, <1>c DEF Budget, Start
<1>g. remaining \in 0 .. HeapSize /\ position \in 1 .. HeapSize + 1
  BY <1>a DEF TypeOK
<1>h. s <= Sum(Pending(a))
  <2>1. Pending(a)[p] = s
    BY DEF Pending, ArenaAdvance
  <2>2. QED
    BY <1>d, <2>1, SumBounds
<1>i. arena[a].space + s \in 1 .. HeapSize + 1
  BY <1>b, <1>c, <1>e, <1>f, <1>g, <1>h
<1>1. TypeOK'
  <2>1. arena' \in [1 .. HeapSize -> [left : 0 .. HeapSize, space : 0 .. HeapSize + 1]]
    <3>1. arena \in [1 .. HeapSize -> [left : 0 .. HeapSize, space : 0 .. HeapSize + 1]]
      BY <1>a DEF TypeOK
    <3>2. arena' = [arena EXCEPT ![a].space = arena[a].space + s]
      BY DEF ArenaAdvance
    <3>3. arena'[a] = [arena[a] EXCEPT !.space = arena[a].space + s]
      BY <1>c, <3>1, <3>2
    <3>4. arena'[a] \in [left : 0 .. HeapSize, space : 0 .. HeapSize + 1]
      <4>1. arena[a] \in [left : 0 .. HeapSize, space : 0 .. HeapSize + 1]
        BY <1>c, <3>1
      <4>2. arena[a].space + s \in 0 .. HeapSize + 1
        BY <1>b, <1>i
      <4>3. QED
        BY <3>3, <4>1, <4>2
    <3>5. QED
      BY <3>1, <3>2, <3>4
  <2>2. pc' \in [Procs -> Allocating \cup Freeing \cup {"run", "exited"}]
    BY <1>a DEF TypeOK, ArenaAdvance, Allocating
  <2>3. QED
    BY <1>a, <2>1, <2>2 DEF TypeOK, ArenaAdvance, MutexTypeOK
<1>2. /\ \A b \in 1 .. HeapSize : arena'[b].left = arena[b].left
      /\ \A b \in 1 .. HeapSize \ {a} : arena'[b] = arena[b]
      /\ arena'[a].space = arena[a].space + s
  BY <1>a, <1>c DEF TypeOK, ArenaAdvance
<1>3. /\ pc[p] = "advance" /\ pc'[p] = "done"
      /\ req' = req /\ current' = current /\ position' = position /\ remaining' = remaining
      /\ at' = at /\ this' = this
      /\ \A q \in Procs \ {p} : pc'[q] = pc[q]
  BY <1>a DEF TypeOK, ArenaAdvance
<1>j. \A b \in 1 .. HeapSize : Exists(b)' = Exists(b) /\ arena'[b].space >= arena[b].space
  <2>1. \A b \in 1 .. HeapSize : arena[b].space \in Nat
    BY <1>a DEF TypeOK
  <2>2. QED
    BY <1>b, <1>c, <1>2, <2>1 DEF Exists
<1>4. InHand'
  <2> SUFFICES ASSUME NEW q \in Procs
               PROVE  /\ pc'[q] \in {"pop", "link", "put", "taken", "unlock", "advance"}
                           => at'[q] \in 1 .. HeapSize
                      /\ pc'[q] \in {"taken", "unlock"} => Request(req'[q]) <= HeapSize
                      /\ pc'[q] = "advance" =>
                           /\ this'[q] \in 1 .. HeapSize
                           /\ arena'[this'[q]].space > 0
                           /\ Size[req'[q]] <= HeapSize
                      /\ pc'[q] \in {"tempAdd", "done"} => at'[q] \in Addr
    BY DEF InHand, Exists
  <2>0. at[p] \in Addr
    BY <1>c, HeapAssumption DEF Addr
  <2>1. CASE q = p
    BY <2>0, <2>1, <1>3
  <2>2. CASE q # p
    BY <1>a, <2>2, <1>j, <1>3 DEF InHand, Exists
  <2>3. QED
    BY <2>1, <2>2
<1>5. Made'
  <2>1. \A h \in HeapIds : current[h] # 0 => current[h] \in 1 .. HeapSize
    <3>1. current \in [HeapIds -> 0 .. HeapSize] /\ HeapSize \in Nat
      BY <1>a, HeapAssumption DEF TypeOK
    <3>2. QED
      BY <3>1
  <2>2. ASSUME NEW b \in 1 .. HeapSize, Exists(b)'
        PROVE  arena'[b].space >= b
    <3>1. arena[b].space >= b /\ arena[b].space \in Nat /\ arena'[b].space \in Nat
      BY <1>a, <1>b, <1>1, <1>j, <2>2 DEF Made, TypeOK
    <3>2. QED
      BY <1>j, <3>1
  <2>3. QED
    BY <1>a, <1>3, <1>j, <2>1, <2>2 DEF Made
<1>6. Budget'
  <2>1. Taken' = Taken
    BY <1>3 DEF Taken
  <2>2. \A b : Owed(b)' = Owed(b)
    BY <1>3 DEF Owed
  <2>3. \A b : b # a => Pending(b)' = Pending(b)
    BY <1>3 DEF Pending
  <2>4. Sum(Pending(a)') = Sum(Pending(a)) - s
    <3>1. Pending(a)' \in Amounts
      BY <1>1, <1>4, AmountTypesNext
    <3>2. Pending(a)[p] = s /\ Pending(a)'[p] = 0
      BY <1>3 DEF Pending
    <3>3. \A q \in Procs \ {p} : Pending(a)'[q] = Pending(a)[q]
      BY <1>3 DEF Pending
    <3>4. Sum(Pending(a)') = Sum(Pending(a)) - Pending(a)[p] + Pending(a)'[p]
      BY <1>d, <3>1, <3>3, SumChange
    <3>5. QED
      BY <1>b, <1>e, <3>2, <3>4
  <2>5. \A b \in 1 .. HeapSize : b # a => Start(b)' = Start(b)
    BY <1>2 DEF Exists, Start
  <2>6. Exists(a)' /\ Start(a)' = arena[a].space + s + arena[a].left
    BY <1>c, <1>j, <1>2 DEF Exists, Start
  <2>7. ASSUME NEW b \in 1 .. HeapSize, Exists(b)' \/ Sum(Owed(b)') > 0
        PROVE  Start(b)' + Sum(Pending(b)') + Sum(Owed(b)') <= HeapSize + 1 - remaining'
    <3>1. CASE b = a
      <4>1. Start(a)' + Sum(Pending(a)') = arena[a].space + arena[a].left + Sum(Pending(a))
        BY <1>b, <1>c, <1>e, <2>4, <2>6
      <4>2. QED
        BY <3>1, <4>1, <1>3, <1>f, <2>2
    <3>2. CASE b # a
      BY <1>a, <3>2, <2>7, <2>2, <2>3, <2>5, <1>j, <1>3 DEF Budget
    <3>3. QED
      BY <3>1, <3>2
  <2>8. QED
    BY <1>a, <2>1, <2>7, <1>3 DEF Budget
<1>7. QED
  BY <1>1, <1>4, <1>5, <1>6 DEF Bounded

\* xheap::malloc takes the pages from _remaining.
LEMMA TakeStep ==
  ASSUME Bounded, NEW p \in Procs, SourceTake(p)
  PROVE  Bounded'
<1> USE DEF Goto, Keep, sourceVars, zoneVars, listVars, progVars, callVars, mutexVars
<1> SUFFICES ASSUME NEW a, a = position, NEW s, s = Request(req[p])
             PROVE  Bounded'
  OBVIOUS
<1>a. TypeOK /\ InHand /\ Made /\ Budget
  BY DEF Bounded
<1>b. HeapSize \in Nat /\ req[p] \in Classes /\ s \in Nat \ {0}
  BY <1>a, RequestFacts, HeapAssumption DEF TypeOK
<1>d. /\ Taken \in Amounts
      /\ \A b : Owed(b) \in Amounts /\ Pending(b) \in Amounts
  BY <1>a, AmountTypes
<1>e. /\ Sum(Taken) \in Nat
      /\ \A b : Sum(Owed(b)) \in Nat /\ Sum(Pending(b)) \in Nat
  BY <1>d, SumType
<1>g. remaining \in 0 .. HeapSize /\ a \in 1 .. HeapSize + 1 /\ remaining >= s
  BY <1>a DEF TypeOK, SourceTake
<1>f. a + remaining + Sum(Taken) = HeapSize + 1
  BY <1>a DEF Budget
<1>h. a \in 1 .. HeapSize /\ s <= HeapSize /\ remaining - s \in 0 .. HeapSize
  BY <1>b, <1>e, <1>f, <1>g
<1>1. TypeOK'
  <2>1. a \in Addr
    BY <1>h, HeapAssumption DEF Addr
  <2>2. at' \in [Procs -> Addr \cup {0}] /\ remaining' \in 0 .. HeapSize
    BY <1>a, <1>h, <2>1 DEF TypeOK, SourceTake
  <2>3. pc' \in [Procs -> Allocating \cup Freeing \cup {"run", "exited"}]
    BY <1>a DEF TypeOK, SourceTake, Allocating
  <2>4. QED
    BY <1>a, <2>2, <2>3 DEF TypeOK, SourceTake, MutexTypeOK
<1>3. /\ pc[p] = "take" /\ pc'[p] = "taken" /\ at'[p] = a /\ remaining' = remaining - s
      /\ req' = req /\ current' = current /\ position' = position
      /\ arena' = arena /\ this' = this
      /\ \A q \in Procs \ {p} : pc'[q] = pc[q] /\ at'[q] = at[q]
  BY <1>a DEF TypeOK, SourceTake
<1>j. \A b : Exists(b)' = Exists(b) /\ Start(b)' = Start(b)
  BY <1>3 DEF Exists, Start
<1>4. InHand'
  <2> SUFFICES ASSUME NEW q \in Procs
               PROVE  /\ pc'[q] \in {"pop", "link", "put", "taken", "unlock", "advance"}
                           => at'[q] \in 1 .. HeapSize
                      /\ pc'[q] \in {"taken", "unlock"} => Request(req'[q]) <= HeapSize
                      /\ pc'[q] = "advance" =>
                           /\ this'[q] \in 1 .. HeapSize
                           /\ arena'[this'[q]].space > 0
                           /\ Size[req'[q]] <= HeapSize
                      /\ pc'[q] \in {"tempAdd", "done"} => at'[q] \in Addr
    BY DEF InHand, Exists
  <2>1. CASE q = p
    BY <2>1, <1>h, <1>3
  <2>2. CASE q # p
    BY <1>a, <2>2, <1>3 DEF InHand, Exists
  <2>3. QED
    BY <2>1, <2>2
<1>5. Made'
  BY <1>a, <1>3 DEF Made, Exists
<1>6. Budget'
  <2>1. Sum(Taken') = Sum(Taken) + s
    <3>1. Taken' \in Amounts
      BY <1>1, <1>4, AmountTypesNext
    <3>2. Taken[p] = 0 /\ Taken'[p] = s
      BY <1>3 DEF Taken
    <3>3. \A q \in Procs \ {p} : Taken'[q] = Taken[q]
      BY <1>3 DEF Taken
    <3>4. Sum(Taken') = Sum(Taken) - Taken[p] + Taken'[p]
      BY <1>d, <3>1, <3>3, SumChange
    <3>5. QED
      BY <1>b, <1>e, <3>2, <3>4
  <2>2. \A b : b # a => Owed(b)' = Owed(b)
    BY <1>3 DEF Owed
  <2>3. \A b : Pending(b)' = Pending(b)
    BY <1>3 DEF Pending
  <2>4. Sum(Owed(a)') = Sum(Owed(a)) + s
    <3>1. Owed(a)' \in Amounts
      BY <1>1, <1>4, AmountTypesNext
    <3>2. Owed(a)[p] = 0 /\ Owed(a)'[p] = s
      BY <1>3 DEF Owed
    <3>3. \A q \in Procs \ {p} : Owed(a)'[q] = Owed(a)[q]
      BY <1>3 DEF Owed
    <3>4. Sum(Owed(a)') = Sum(Owed(a)) - Owed(a)[p] + Owed(a)'[p]
      BY <1>d, <3>1, <3>3, SumChange
    <3>5. QED
      BY <1>b, <1>e, <3>2, <3>4
  <2>5. position' + remaining' + Sum(Taken') = HeapSize + 1
    BY <1>b, <1>e, <1>f, <1>g, <1>3, <2>1
  <2>6. ASSUME NEW b \in 1 .. HeapSize
        PROVE  Start(b) \in Nat
    <3>1. arena[b].left \in Nat /\ arena[b].space \in Nat
      BY <1>a, <1>b DEF TypeOK
    <3>2. QED
      BY <3>1 DEF Start
  <2>7. ASSUME NEW b \in 1 .. HeapSize, Exists(b)' \/ Sum(Owed(b)') > 0
        PROVE  Start(b)' + Sum(Pending(b)') + Sum(Owed(b)') <= HeapSize + 1 - remaining'
    <3>1. CASE b = a /\ (Exists(a) \/ Sum(Owed(a)) > 0)
      <4>1. Start(a) + Sum(Pending(a)) + Sum(Owed(a)) <= HeapSize + 1 - remaining
        BY <1>a, <1>h, <3>1 DEF Budget
      <4>2. QED
        BY <3>1, <4>1, <1>3, <1>b, <1>e, <1>g, <1>j, <2>3, <2>4, <2>6
    <3>2. CASE b = a /\ ~(Exists(a) \/ Sum(Owed(a)) > 0)
      <4>1. Start(a) = a /\ Sum(Owed(a)) = 0
        BY <1>e, <3>2 DEF Start
      <4>2. \A q \in Procs : Pending(a)[q] = 0
        BY <1>a, <3>2 DEF Pending, InHand
      <4>3. Sum(Pending(a)) = 0
        BY <1>d, <4>2, SumBounds
      <4>4. QED
        BY <3>2, <4>1, <4>3, <1>3, <1>b, <1>e, <1>f, <1>g, <1>j, <2>3, <2>4
    <3>3. CASE b # a
      <4>1. Start(b) + Sum(Pending(b)) + Sum(Owed(b)) <= HeapSize + 1 - remaining
        BY <1>a, <3>3, <2>7, <2>2, <1>j DEF Budget
      <4>2. QED
        BY <3>3, <4>1, <1>3, <1>b, <1>e, <1>g, <1>j, <2>2, <2>3, <2>6
    <3>4. QED
      BY <3>1, <3>2, <3>3
  <2>8. QED
    BY <2>5, <2>7 DEF Budget
<1>7. QED
  BY <1>1, <1>4, <1>5, <1>6 DEF Bounded

\* xheap::malloc moves _position past the pages it has taken.
LEMMA PositionStep ==
  ASSUME Bounded, NEW p \in Procs, SourceAdvance(p)
  PROVE  Bounded'
<1> USE DEF Goto, Keep, sourceVars, zoneVars, listVars, progVars, callVars, mutexVars
<1> SUFFICES ASSUME NEW s, s = Request(req[p])
             PROVE  Bounded'
  OBVIOUS
<1>a. TypeOK /\ InHand /\ Made /\ Budget
  BY DEF Bounded
<1>b. HeapSize \in Nat /\ req[p] \in Classes /\ s \in Nat \ {0} /\ s <= HeapSize
  BY <1>a, RequestFacts, HeapAssumption DEF TypeOK, InHand, SourceAdvance
<1>d. /\ Taken \in Amounts
      /\ \A b : Owed(b) \in Amounts /\ Pending(b) \in Amounts
  BY <1>a, AmountTypes
<1>e. /\ Sum(Taken) \in Nat
      /\ \A b : Sum(Owed(b)) \in Nat /\ Sum(Pending(b)) \in Nat
  BY <1>d, SumType
<1>g. remaining \in 0 .. HeapSize /\ position \in 1 .. HeapSize + 1
  BY <1>a DEF TypeOK
<1>f. position + remaining + Sum(Taken) = HeapSize + 1
  BY <1>a DEF Budget
<1>h. s <= Sum(Taken)
  <2>1. Taken[p] = s
    BY DEF Taken, SourceAdvance
  <2>2. QED
    BY <1>d, <2>1, SumBounds
<1>i. position + s \in 1 .. HeapSize + 1
  BY <1>b, <1>e, <1>f, <1>g, <1>h
<1>1. TypeOK'
  <2>1. pc' \in [Procs -> Allocating \cup Freeing \cup {"run", "exited"}]
    BY <1>a DEF TypeOK, SourceAdvance, Allocating
  <2>2. QED
    BY <1>a, <1>i, <2>1 DEF TypeOK, SourceAdvance, MutexTypeOK
<1>3. /\ pc[p] = "taken" /\ pc'[p] = "unlock" /\ position' = position + s
      /\ req' = req /\ current' = current /\ remaining' = remaining
      /\ arena' = arena /\ this' = this /\ at' = at
      /\ \A q \in Procs \ {p} : pc'[q] = pc[q]
  BY <1>a DEF TypeOK, SourceAdvance
<1>4. InHand'
  <2> SUFFICES ASSUME NEW q \in Procs
               PROVE  /\ pc'[q] \in {"pop", "link", "put", "taken", "unlock", "advance"}
                           => at'[q] \in 1 .. HeapSize
                      /\ pc'[q] \in {"taken", "unlock"} => Request(req'[q]) <= HeapSize
                      /\ pc'[q] = "advance" =>
                           /\ this'[q] \in 1 .. HeapSize
                           /\ arena'[this'[q]].space > 0
                           /\ Size[req'[q]] <= HeapSize
                      /\ pc'[q] \in {"tempAdd", "done"} => at'[q] \in Addr
    BY DEF InHand, Exists
  <2>1. CASE q = p
    BY <1>a, <2>1, <1>b, <1>3 DEF InHand
  <2>2. CASE q # p
    BY <1>a, <2>2, <1>3 DEF InHand, Exists
  <2>3. QED
    BY <2>1, <2>2
<1>5. Made'
  BY <1>a, <1>3 DEF Made, Exists
<1>6. Budget'
  <2>1. Sum(Taken') = Sum(Taken) - s
    <3>1. Taken' \in Amounts
      BY <1>1, <1>4, AmountTypesNext
    <3>2. Taken[p] = s /\ Taken'[p] = 0
      BY <1>3 DEF Taken
    <3>3. \A q \in Procs \ {p} : Taken'[q] = Taken[q]
      BY <1>3 DEF Taken
    <3>4. Sum(Taken') = Sum(Taken) - Taken[p] + Taken'[p]
      BY <1>d, <3>1, <3>3, SumChange
    <3>5. QED
      BY <1>b, <1>e, <3>2, <3>4
  <2>2. \A b : Owed(b)' = Owed(b) /\ Pending(b)' = Pending(b)
    BY <1>3 DEF Owed, Pending
  <2>3. \A b : Exists(b)' = Exists(b) /\ Start(b)' = Start(b)
    BY <1>3 DEF Exists, Start
  <2>4. position' + remaining' + Sum(Taken') = HeapSize + 1
    BY <1>b, <1>e, <1>f, <1>g, <1>3, <2>1
  <2>5. QED
    BY <1>a, <1>3, <2>2, <2>3, <2>4 DEF Budget
<1>7. QED
  BY <1>1, <1>4, <1>5, <1>6 DEF Bounded

\* The new arena has what was taken for it.
LEMMA NewArenaStep ==
  ASSUME Bounded, NEW p \in Procs, NewArena(p)
  PROVE  Bounded'
<1> USE DEF Goto, Keep, sourceVars, zoneVars, listVars, progVars, callVars, mutexVars
<1> SUFFICES ASSUME NEW a, a = at[p], NEW s, s = Request(req[p]), NEW n, n = ArenaSize(req[p])
             PROVE  Bounded'
  OBVIOUS
<1>a. TypeOK /\ InHand /\ Made /\ Budget
  BY DEF Bounded
<1>b. /\ HeapSize \in Nat /\ req[p] \in Classes /\ ArenaHdr \in Nat \ {0}
      /\ s \in Nat \ {0} /\ s <= HeapSize /\ n \in Nat /\ ArenaHdr + n <= s
      /\ a \in 1 .. HeapSize /\ Mine(p) \in HeapIds
  BY <1>a, RequestFacts, MineType, HeapAssumption DEF TypeOK, InHand, NewArena
<1>d. /\ Taken \in Amounts
      /\ \A b : Owed(b) \in Amounts /\ Pending(b) \in Amounts
  BY <1>a, AmountTypes
<1>e. /\ Sum(Taken) \in Nat
      /\ \A b : Sum(Owed(b)) \in Nat /\ Sum(Pending(b)) \in Nat
  BY <1>d, SumType
<1>g. remaining \in 0 .. HeapSize /\ position \in 1 .. HeapSize + 1
  BY <1>a DEF TypeOK
<1>h. s <= Sum(Owed(a))
  <2>1. Owed(a)[p] = s
    BY DEF Owed, NewArena
  <2>2. QED
    BY <1>d, <2>1, SumBounds
<1>f. a + Sum(Pending(a)) + Sum(Owed(a)) <= HeapSize + 1 - remaining
  <2>1. Start(a) + Sum(Pending(a)) + Sum(Owed(a)) <= HeapSize + 1 - remaining
    BY <1>a, <1>b, <1>e, <1>h DEF Budget
  <2>2. arena[a].left \in Nat /\ arena[a].space \in Nat
    <3>1. arena[a] \in [left : 0 .. HeapSize, space : 0 .. HeapSize + 1]
      BY <1>a, <1>b DEF TypeOK
    <3>2. QED
      BY <1>b, <3>1
  <2>3. Start(a) \in Nat /\ Start(a) >= a
    BY <1>a, <1>b, <2>2 DEF Start, Made
  <2>4. QED
    BY <1>b, <1>e, <1>g, <2>1, <2>3
<1>i. n \in 0 .. HeapSize /\ a + ArenaHdr \in 1 .. HeapSize + 1
  BY <1>b, <1>e, <1>f, <1>g, <1>h
<1>1. TypeOK'
  <2>1. pc' \in [Procs -> Allocating \cup Freeing \cup {"run", "exited"}]
    BY <1>a DEF TypeOK, NewArena, Allocating
  <2>2. arena' \in [1 .. HeapSize -> [left : 0 .. HeapSize, space : 0 .. HeapSize + 1]]
    <3>1. arena \in [1 .. HeapSize -> [left : 0 .. HeapSize, space : 0 .. HeapSize + 1]]
      BY <1>a DEF TypeOK
    <3>2. arena' = [arena EXCEPT ![a] = [left |-> n, space |-> a + ArenaHdr]]
      BY DEF NewArena
    <3>3. [left |-> n, space |-> a + ArenaHdr] \in [left : 0 .. HeapSize, space : 0 .. HeapSize + 1]
      BY <1>i, <1>b
    <3>4. QED
      BY <3>1, <3>2, <3>3
  <2>3. current' \in [HeapIds -> 0 .. HeapSize]
    <3>1. a \in 0 .. HeapSize
      BY <1>b
    <3>2. QED
      BY <1>a, <3>1 DEF TypeOK, NewArena
  <2>4. MutexTypeOK'
    <3>1. MutexTypeOK /\ Lock \in Mutexes
      BY <1>a, HeapAssumption DEF TypeOK
    <3>2. CASE initialized
      BY <3>1, <3>2 DEF MutexTypeOK, NewArena, Release
    <3>3. CASE ~initialized
      BY <3>1, <3>3 DEF MutexTypeOK, NewArena
    <3>4. QED
      BY <3>2, <3>3
  <2>5. QED
    BY <1>a, <2>1, <2>2, <2>3, <2>4 DEF TypeOK, NewArena
<1>2. /\ \A b \in 1 .. HeapSize \ {a} : arena'[b] = arena[b]
      /\ arena'[a].space = a + ArenaHdr /\ arena'[a].left = n
  BY <1>a, <1>b DEF TypeOK, NewArena
<1>3. /\ pc[p] = "unlock" /\ pc'[p] = "carve" /\ position' = position
      /\ req' = req /\ remaining' = remaining /\ this' = this /\ at' = at
      /\ current'[Mine(p)] = a
      /\ \A h \in HeapIds \ {Mine(p)} : current'[h] = current[h]
      /\ \A q \in Procs \ {p} : pc'[q] = pc[q]
  BY <1>a, <1>b DEF TypeOK, NewArena
<1>j. Exists(a)' /\ \A b \in 1 .. HeapSize : b # a => Exists(b)' = Exists(b)
  BY <1>b, <1>2 DEF Exists
<1>4. InHand'
  <2> SUFFICES ASSUME NEW q \in Procs
               PROVE  /\ pc'[q] \in {"pop", "link", "put", "taken", "unlock", "advance"}
                           => at'[q] \in 1 .. HeapSize
                      /\ pc'[q] \in {"taken", "unlock"} => Request(req'[q]) <= HeapSize
                      /\ pc'[q] = "advance" =>
                           /\ this'[q] \in 1 .. HeapSize
                           /\ arena'[this'[q]].space > 0
                           /\ Size[req'[q]] <= HeapSize
                      /\ pc'[q] \in {"tempAdd", "done"} => at'[q] \in Addr
    BY DEF InHand, Exists
  <2>1. CASE q = p
    BY <2>1, <1>3
  <2>2. CASE q # p
    BY <1>a, <2>2, <1>3, <1>j DEF InHand, Exists
  <2>3. QED
    BY <2>1, <2>2
<1>5. Made'
  <2>1. \A h \in HeapIds : current[h] # 0 => current[h] \in 1 .. HeapSize
    <3>1. current \in [HeapIds -> 0 .. HeapSize] /\ HeapSize \in Nat
      BY <1>a, HeapAssumption DEF TypeOK
    <3>2. QED
      BY <3>1
  <2>2. \A h \in HeapIds : current'[h] # 0 => arena'[current'[h]].space > 0
    BY <1>a, <1>b, <1>3, <1>j, <2>1 DEF Made, Exists
  <2>3. \A b \in 1 .. HeapSize : Exists(b)' => arena'[b].space >= b
    BY <1>a, <1>b, <1>2, <1>j DEF Made
  <2>4. QED
    BY <2>2, <2>3 DEF Made, Exists
<1>6. Budget'
  <2>1. Taken' = Taken
    BY <1>3 DEF Taken
  <2>2. \A b : Pending(b)' = Pending(b) /\ (b # a => Owed(b)' = Owed(b))
    BY <1>3 DEF Owed, Pending
  <2>3. Sum(Owed(a)') = Sum(Owed(a)) - s
    <3>1. Owed(a)' \in Amounts
      BY <1>1, <1>4, AmountTypesNext
    <3>2. Owed(a)[p] = s /\ Owed(a)'[p] = 0
      BY <1>3 DEF Owed
    <3>3. \A q \in Procs \ {p} : Owed(a)'[q] = Owed(a)[q]
      BY <1>3 DEF Owed
    <3>4. Sum(Owed(a)') = Sum(Owed(a)) - Owed(a)[p] + Owed(a)'[p]
      BY <1>d, <3>1, <3>3, SumChange
    <3>5. QED
      BY <1>b, <1>e, <3>2, <3>4
  <2>4. Start(a)' = a + ArenaHdr + n /\ \A b \in 1 .. HeapSize \ {a} : Start(b)' = Start(b)
    BY <1>2, <1>j DEF Exists, Start
  <2>5. ASSUME NEW b \in 1 .. HeapSize, Exists(b)' \/ Sum(Owed(b)') > 0
        PROVE  Start(b)' + Sum(Pending(b)') + Sum(Owed(b)') <= HeapSize + 1 - remaining'
    <3>1. CASE b = a
      BY <3>1, <1>3, <1>b, <1>e, <1>f, <1>g, <2>2, <2>3, <2>4
    <3>2. CASE b # a
      BY <1>a, <3>2, <2>5, <2>2, <2>4, <1>j, <1>3 DEF Budget
    <3>3. QED
      BY <3>1, <3>2
  <2>6. QED
    BY <1>a, <1>3, <2>1, <2>5 DEF Budget
<1>7. QED
  BY <1>1, <1>4, <1>5, <1>6 DEF Bounded

\* The heap starts within its bounds: all of it remains.
LEMMA BoundedInit == Init => Bounded
<1> SUFFICES ASSUME Init
             PROVE  Bounded
  OBVIOUS
<1>a. /\ HeapSize \in Nat /\ TempSize \in Nat /\ AnyClass \in Classes
      /\ \A c \in Classes : Size[c] \in Nat \ {0}
  BY HeapAssumption DEF AnyClass
<1>1. TypeOK
  <2>1. PICK p \in Procs, early \in EarlyBlocks :
          /\ held = [q \in Procs |-> IF q = p THEN early ELSE {}]
          /\ temp = IF early = {} THEN 0 ELSE Size[(CHOOSE b \in early : TRUE)[2]]
    BY DEF Init
  <2>2. early \in SUBSET (Addr \X Classes) /\ temp \in Nat
    <3>1. CASE early = {}
      BY <2>1, <3>1
    <3>2. CASE early # {}
      <4>1. PICK c \in Classes : Size[c] <= TempSize /\ early = {<<TempBase, c>>}
        BY <3>2 DEF EarlyBlocks
      <4>2. TempBase \in Addr
        BY <1>a, <4>1 DEF TempBase, Addr
      <4> DEFINE first == CHOOSE b \in early : TRUE
      <4>3. first = <<TempBase, c>>
        BY <4>1
      <4>4. temp = Size[first[2]]
        BY <2>1, <3>2
      <4> HIDE DEF first
      <4>6. first[2] = c
        BY <4>3
      <4>5. QED
        BY <1>a, <4>1, <4>2, <4>4, <4>6
    <3>3. QED
      BY <3>1, <3>2
  <2>3. MutexTypeOK
    BY DEF Init, MutexTypeOK, Kinds
  <2>4. arena \in [1 .. HeapSize -> [left : 0 .. HeapSize, space : 0 .. HeapSize + 1]]
    <3>1. 0 \in 0 .. HeapSize /\ 0 \in 0 .. HeapSize + 1
      BY <1>a
    <3>2. QED
      BY <3>1 DEF Init
  <2>5. position \in 1 .. HeapSize + 1 /\ remaining \in 0 .. HeapSize /\ 0 \in 0 .. HeapSize
    BY <1>a DEF Init
  <2>6. held \in [Procs -> SUBSET (Addr \X Classes)]
    BY <2>1, <2>2
  <2>7. QED
    BY <1>a, <2>2, <2>3, <2>4, <2>5, <2>6 DEF Init, TypeOK, Allocating
<1>2. InHand
  BY DEF InHand, Init
<1>3. \A a \in 1 .. HeapSize : ~Exists(a)
  BY DEF Init, Exists
<1>4. Made
  BY <1>3 DEF Init, Made
<1>5. Budget
  <2>1. Taken \in Amounts /\ \A a : Owed(a) \in Amounts
    BY <1>1, <1>2, AmountTypes
  <2>2. Sum(Taken) = 0
    <3>1. \A p \in Procs : Taken[p] = 0
      BY DEF Init, Taken
    <3>2. QED
      BY <2>1, <3>1, SumBounds
  <2>3. \A a : Sum(Owed(a)) = 0
    <3>1. \A a : \A p \in Procs : Owed(a)[p] = 0
      BY DEF Init, Owed
    <3>2. QED
      BY <2>1, <3>1, SumBounds
  <2>4. QED
    BY <1>a, <1>3, <2>2, <2>3 DEF Budget, Init
<1>6. QED
  BY <1>1, <1>2, <1>4, <1>5 DEF Bounded

\* No step of any process leaves the bounds.
LEMMA BoundedStep == Bounded /\ [Next]_vars => Bounded'
<1> SUFFICES ASSUME Bounded, [Next]_vars
             PROVE  Bounded'
  OBVIOUS
<1>1. CASE Next
  BY <1>1, QuietStep, CarveStep, AdvanceStep, TakeStep, PositionStep, NewArenaStep
     DEF Next, AllocStep
<1>2. CASE UNCHANGED vars
  <2> USE <1>2 DEF vars, sourceVars, zoneVars, listVars, progVars, callVars, mutexVars
  <2>1. TypeOK'
    BY DEF Bounded, TypeOK, MutexTypeOK
  <2>2. InHand' /\ Made'
    BY DEF Bounded, InHand, Made, Exists
  <2>3. Budget'
    <3>1. Taken' = Taken /\ \A a : Owed(a)' = Owed(a) /\ Pending(a)' = Pending(a)
      BY DEF Taken, Owed, Pending
    <3>2. \A a : Exists(a)' = Exists(a) /\ Start(a)' = Start(a)
      BY DEF Exists, Start
    <3>3. QED
      BY <3>1, <3>2 DEF Bounded, Budget
  <2>4. QED
    BY <2>1, <2>2, <2>3 DEF Bounded
<1>3. QED
  BY <1>1, <1>2

\* No pointer of the allocator ever leaves the memory it points into: not the
\* bump pointer of xheap::malloc (xheap.h:96), not that of an arena
\* (zoneheap.h:92), not a link of a free list, whatever the sizes, however many
\* processes share a heap, and with the lock or, after the destructor, without.
THEOREM HeapTyping == Spec => []TypeOK
<1>1. Bounded => TypeOK
  BY DEF Bounded
<1>2. QED
  BY <1>1, BoundedInit, BoundedStep, PTL DEF Spec

-----------------------------------------------------------------------------
(***************************************************************************)
(* Proofs that Heap gives out no memory twice, for every number of         *)
(* processes, every set of size classes and every size of arena, page and  *)
(* heap, as long as the library is up.                                     *)
(***************************************************************************)

-----------------------------------------------------------------------------
(* The source heap, whoever works on which heap above it.                  *)

Holding == {"take", "taken", "unlock"}

\* One process at a time is between lock() and unlock(), and every Arena record
\* lies before the pages it is being handed.
PagesInv ==
  /\ \A p \in Procs : pc[p] \in Holding =>
       /\ word[Lock] # 0
       /\ \A q \in Procs \ {p} : pc[q] \notin Holding
  /\ \A p \in Procs : pc[p] = "taken" => at[p] = position
  /\ \A p \in Procs : pc[p] = "unlock" => at[p] + Request(req[p]) = position
  /\ \A a \in 1 .. HeapSize : Exists(a) =>
       /\ a < position
       /\ \A p \in Procs : pc[p] = "unlock" => a < at[p]

-----------------------------------------------------------------------------
(* Who owns which unit of the heap, when every process has its own heap.   *)
(* A unit belongs to an object the program has, to the object a process    *)
(* has in hand inside malloc or free, to an object on a free list, to an   *)
(* Arena record, to the space of an arena, or to no one yet.               *)

HeldTag(p, b) == <<"held", p, b>>
HandTag(p)    == <<"hand", p, p>>
FreeTag(h, b) == <<"free", h, b>>
RecordTag(a)  == <<"record", a, a>>
SpaceTag(a)   == <<"space", a, a>>
RestTag       == <<"rest", 0, 0>>

Owns(owner, first, n, tag) ==
  \A x \in first .. first + n - 1 : x \in 1 .. HeapSize /\ owner[x] = tag

OnList(owner, h, c) == {a \in 1 .. HeapSize : owner[a] = FreeTag(h, <<a, c>>)}

InHandAt == {"advance", "done", "link", "put"}

\* Objects lie in units of their own.
ObjectsOwn(owner) ==
  /\ \A p \in Procs : \A b \in held[p] :
       b[1] < TempBase => Owns(owner, b[1], Size[b[2]], HeldTag(p, b))
  /\ \A p \in Procs : pc[p] \in InHandAt => Owns(owner, at[p], Size[req[p]], HandTag(p))

\* So do free objects.  Each is the head of its list or the next of exactly one
\* other, never both.
FreeOwn(owner) ==
  \A h \in HeapIds, c \in Classes :
    /\ \A a \in OnList(owner, h, c) :
         /\ Owns(owner, a, Size[c], FreeTag(h, <<a, c>>))
         /\ next[a] # 0 =>
              /\ next[a] \in OnList(owner, h, c)
              /\ next[a] # head[h][c]
              /\ \A b \in OnList(owner, h, c) : next[b] = next[a] => b = a
    /\ head[h][c] # 0 => head[h][c] \in OnList(owner, h, c)

\* So do arenas, and what the source heap has left.  While a process moves the
\* pointer of its arena, the space of the arena starts behind what it has taken.
ArenasOwn(owner) ==
  /\ \A a \in 1 .. HeapSize : Exists(a) =>
       /\ Owns(owner, a, ArenaHdr, RecordTag(a))
       /\ (\A p \in Procs : pc[p] = "advance" => this[p] # a) =>
            Owns(owner, arena[a].space, arena[a].left, SpaceTag(a))
  /\ \A p \in Procs : pc[p] = "advance" =>
       Owns(owner, at[p] + Size[req[p]], arena[this[p]].left, SpaceTag(this[p]))
  /\ Owns(owner, position, HeapSize + 1 - position, RestTag)
  /\ \A p \in Procs : pc[p] = "unlock" =>
       Owns(owner, at[p], HeapSize + 1 - at[p], RestTag)

\* What a process has read of its own heap is still so.
OwnReads ==
  \A p \in Procs :
    /\ pc[p] = "pop" => at[p] = head[Mine(p)][req[p]]
    /\ pc[p] = "put" => next[at[p]] = head[Mine(p)][req[p]]
    /\ pc[p] = "advance" => this[p] = current[Mine(p)] /\ at[p] = arena[this[p]].space

\* No two heaps work on one arena, and there is one block of tempmalloc at most.
OwnCurrent ==
  \A h, k \in HeapIds : current[h] = current[k] /\ current[h] # 0 => h = k
OneTemp ==
  /\ \A p \in Procs : pc[p] \notin {"temp", "tempAdd"}
  /\ \A p, q \in Procs : \A b \in held[p], d \in held[q] :
       b[1] >= TempBase /\ d[1] >= TempBase => p = q /\ b = d

Shared(owner) == ObjectsOwn(owner) /\ FreeOwn(owner) /\ ArenasOwn(owner)

OwnInv == OwnReads /\ OwnCurrent /\ OneTemp /\ \E owner : Shared(owner)

\* The inductive invariant.
Inv == Bounded /\ (initialized => PagesInv) /\ (initialized /\ OwnHeaps => OwnInv)

-----------------------------------------------------------------------------
(* The steps of one process                                                *)

Step(p) ==
  \/ \E c \in Classes : MallocCall(p, c)
  \/ \E q \in Procs : \E b \in held[q] : FreeCall(p, q, b) \/ FreeAborts(p, q, b)
  \/ AllocStep(p) \/ ListLink(p) \/ ListPut(p)
  \/ End(p)

\* A process moves alone: the locals of the others stay.
Local(p) ==
  /\ \A q \in Procs \ {p} :
       pc'[q] = pc[q] /\ at'[q] = at[q] /\ req'[q] = req[q] /\ this'[q] = this[q]
  /\ tid' = tid

\* Every step is local to its process.
LEMMA Locality ==
  ASSUME TypeOK, NEW p \in Procs, Step(p)
  PROVE  Local(p)
<1> USE DEF TypeOK, Local, Goto, Keep, Return, progVars, callVars
<1>1. ASSUME NEW c \in Classes, MallocCall(p, c)
      PROVE  Local(p)
  BY <1>1 DEF MallocCall
<1>2. ASSUME NEW q \in Procs, NEW b \in held[q], FreeCall(p, q, b)
      PROVE  Local(p)
  BY <1>2 DEF FreeCall
<1>3. ASSUME NEW q \in Procs, NEW b \in held[q], FreeAborts(p, q, b)
      PROVE  Local(p)
  BY <1>3 DEF FreeAborts
<1>4. ASSUME ListGet(p) \/ ListPop(p) \/ ListLink(p) \/ ListPut(p)
      PROVE  Local(p)
  BY <1>4 DEF ListGet, ListPop, ListLink, ListPut
<1>5. ASSUME ZoneMalloc(p) \/ ArenaAdvance(p) \/ ZoneAbort(p) \/ DropArena(p)
      PROVE  Local(p)
  BY <1>5 DEF ZoneMalloc, ArenaAdvance, ZoneAbort, DropArena
<1>6. ASSUME ArenaCarve(p)
      PROVE  Local(p)
  BY <1>6 DEF ArenaCarve
<1>7. ASSUME SourceLock(p) \/ SourceContend(p)
      PROVE  Local(p)
  BY <1>7 DEF SourceLock, SourceContend
<1>8. ASSUME SourceTake(p) \/ SourceExhausted(p) \/ SourceAdvance(p) \/ NewArena(p)
      PROVE  Local(p)
  BY <1>8 DEF SourceTake, SourceExhausted, SourceAdvance, NewArena
<1>9. ASSUME TempTake(p) \/ TempExhausted(p) \/ TempAdd(p) \/ MallocReturn(p) \/ End(p)
      PROVE  Local(p)
  BY <1>9 DEF TempTake, TempExhausted, TempAdd, MallocReturn, End
<1>10. QED
  BY <1>1, <1>2, <1>3, <1>4, <1>5, <1>6, <1>7, <1>8, <1>9 DEF Step, AllocStep

-----------------------------------------------------------------------------
(* The lock and the pages                                                  *)

\* A step that stays outside the lock and makes no arena keeps PagesInv.
LEMMA PagesOutside ==
  ASSUME PagesInv, NEW p \in Procs, Local(p),
         pc[p] \notin Holding, pc'[p] \notin Holding,
         word'[Lock] = 0 => word[Lock] = 0, position' = position,
         \A a \in 1 .. HeapSize : Exists(a)' => Exists(a)
  PROVE  PagesInv'
<1>1. \A q \in Procs : pc'[q] \in Holding =>
        q # p /\ pc[q] = pc'[q] /\ at'[q] = at[q] /\ req'[q] = req[q]
  BY DEF Local
<1>2. \A q \in Procs : pc'[q] \in Holding <=> pc[q] \in Holding
  BY DEF Local
<1>3. QED
  BY <1>1, <1>2 DEF PagesInv, Holding

\* While the library is up, the lock of xheap keeps the bump pointer to one
\* process (xheap.h:151).
LEMMA PagesStep ==
  ASSUME Bounded, PagesInv, initialized, initialized', NEW p \in Procs, Step(p)
  PROVE  PagesInv'
<1> USE DEF Goto, Keep, Return, sourceVars, zoneVars, listVars, progVars, callVars, mutexVars
<1>a. TypeOK /\ Local(p) /\ HeapSize \in Nat /\ Lock \in Mutexes
  BY Locality, HeapAssumption DEF Bounded
<1>1. ASSUME \/ \E c \in Classes : MallocCall(p, c)
             \/ \E q \in Procs : \E b \in held[q] : FreeCall(p, q, b) \/ FreeAborts(p, q, b)
             \/ ListGet(p) \/ ListPop(p) \/ ListLink(p) \/ ListPut(p)
             \/ ZoneMalloc(p) \/ ZoneAbort(p) \/ DropArena(p)
             \/ TempTake(p) \/ TempExhausted(p) \/ TempAdd(p) \/ MallocReturn(p)
      PROVE  PagesInv'
  <2>1. UNCHANGED <<word, position, arena>>
    BY <1>1 DEF MallocCall, FreeCall, FreeAborts, ListGet, ListPop, ListLink, ListPut,
                ZoneMalloc, ZoneAbort, DropArena, TempTake, TempExhausted, TempAdd, MallocReturn
  <2>2. pc[p] \notin Holding
    BY <1>1 DEF MallocCall, FreeCall, FreeAborts, ListGet, ListPop, ListLink, ListPut, Holding,
                ZoneMalloc, ZoneAbort, DropArena, TempTake, TempExhausted, TempAdd, MallocReturn
  <2>3. pc'[p] \notin Holding
    BY <1>1, <1>a, <2>2
       DEF MallocCall, FreeCall, FreeAborts, ListGet, ListPop, ListLink, ListPut, Holding, TypeOK,
                ZoneMalloc, ZoneAbort, DropArena, TempTake, TempExhausted, TempAdd, MallocReturn
  <2>4. \A a \in 1 .. HeapSize : Exists(a)' => Exists(a)
    BY <2>1 DEF Exists
  <2>5. QED
    BY <1>a, <2>1, <2>2, <2>3, <2>4, PagesOutside
<1>2. ASSUME ArenaCarve(p)
      PROVE  PagesInv'
  <2>1. \A a \in 1 .. HeapSize : Exists(a)' => Exists(a)
    BY <1>a, <1>2 DEF Exists, ArenaCarve, TypeOK
  <2>2. UNCHANGED <<word, position>> /\ pc[p] \notin Holding /\ pc'[p] \notin Holding
    BY <1>a, <1>2 DEF ArenaCarve, TypeOK, Holding
  <2>3. QED
    BY <1>a, <2>1, <2>2, PagesOutside
<1>3. ASSUME ArenaAdvance(p)
      PROVE  PagesInv'
  <2>1. Exists(this[p])
    BY <1>3 DEF ArenaAdvance, Bounded, InHand
  <2>2. \A a \in 1 .. HeapSize : Exists(a)' => Exists(a)
    BY <1>a, <1>3, <2>1 DEF Exists, ArenaAdvance, TypeOK
  <2>3. UNCHANGED <<word, position>> /\ pc[p] \notin Holding /\ pc'[p] \notin Holding
    BY <1>a, <1>3 DEF ArenaAdvance, TypeOK, Holding
  <2>4. QED
    BY <1>a, <2>2, <2>3, PagesOutside
<1>4. ASSUME SourceLock(p) \/ SourceContend(p)
      PROVE  PagesInv'
  <2>1. UNCHANGED <<position, arena>> /\ pc[p] \notin Holding
    BY <1>4 DEF SourceLock, SourceContend, Holding
  <2>2. \A a \in 1 .. HeapSize : Exists(a)' = Exists(a)
    BY <2>1 DEF Exists
  <2>3. CASE pc'[p] \notin Holding
    <3>1. word'[Lock] = 0 => word[Lock] = 0
      BY <1>4, <1>a, <2>3
         DEF SourceLock, SourceContend, AcquireFirst, AcquireLater, FallAsleep, TypeOK, MutexTypeOK, Holding
    <3>2. QED
      BY <1>a, <2>1, <2>2, <2>3, <3>1, PagesOutside
  <2>4. CASE pc'[p] \in Holding
    <3>1. word[Lock] = 0 /\ word'[Lock] # 0 /\ pc'[p] = "take"
      BY <1>4, <1>a, <2>4
         DEF SourceLock, SourceContend, AcquireFirst, AcquireLater, FallAsleep, TypeOK, MutexTypeOK, Holding
    <3>2. \A q \in Procs \ {p} : pc[q] \notin Holding /\ pc'[q] \notin Holding
      BY <1>a, <3>1 DEF PagesInv, Local
    <3>3. \A q \in Procs : pc'[q] # "taken" /\ pc'[q] # "unlock"
      BY <3>1, <3>2 DEF Holding
    <3>4. QED
      BY <2>1, <2>2, <3>1, <3>2, <3>3 DEF PagesInv
  <2>5. QED
    BY <2>3, <2>4
<1>5. ASSUME SourceTake(p)
      PROVE  PagesInv'
  <2>1. UNCHANGED <<word, position, arena>> /\ pc[p] = "take" /\ pc'[p] = "taken" /\ at'[p] = position
    BY <1>5, <1>a DEF SourceTake, TypeOK
  <2>2. word[Lock] # 0 /\ \A q \in Procs \ {p} : pc[q] \notin Holding /\ pc'[q] \notin Holding
    BY <1>a, <2>1 DEF PagesInv, Local, Holding
  <2>3. \A q \in Procs : pc'[q] # "unlock" /\ (pc'[q] = "taken" => q = p)
    BY <2>1, <2>2 DEF Holding
  <2>4. \A a \in 1 .. HeapSize : Exists(a)' = Exists(a)
    BY <2>1 DEF Exists
  <2>5. QED
    BY <2>1, <2>2, <2>3, <2>4 DEF PagesInv
<1>6. ASSUME SourceAdvance(p)
      PROVE  PagesInv'
  <2>1. /\ UNCHANGED <<word, arena, at, req>> /\ pc[p] = "taken" /\ pc'[p] = "unlock"
        /\ position' = position + Request(req[p])
    BY <1>6, <1>a DEF SourceAdvance, TypeOK
  <2>2. word[Lock] # 0 /\ \A q \in Procs \ {p} : pc[q] \notin Holding /\ pc'[q] \notin Holding
    BY <1>a, <2>1 DEF PagesInv, Local, Holding
  <2>3. \A q \in Procs : pc'[q] # "taken" /\ (pc'[q] = "unlock" => q = p)
    BY <2>1, <2>2 DEF Holding
  <2>4. \A a \in 1 .. HeapSize : Exists(a)' = Exists(a)
    BY <2>1 DEF Exists
  <2>5. at[p] = position
    BY <2>1 DEF PagesInv
  <2>6. position \in Nat /\ Request(req[p]) \in Nat
    BY <1>a, RequestFacts DEF TypeOK
  <2>7. \A a \in 1 .. HeapSize : Exists(a)' => a < position' /\ a < at[p]
    BY <2>1, <2>4, <2>5, <2>6 DEF PagesInv
  <2>8. QED
    BY <2>1, <2>2, <2>3, <2>5, <2>7 DEF PagesInv
<1>7. ASSUME NewArena(p)
      PROVE  PagesInv'
  <2>1. /\ UNCHANGED <<position, at, req>> /\ pc[p] = "unlock" /\ pc'[p] = "carve"
        /\ at[p] \in 1 .. HeapSize
    BY <1>7, <1>a DEF NewArena, TypeOK, Bounded, InHand
  <2>2. \A a \in 1 .. HeapSize : Exists(a)' => Exists(a) \/ a = at[p]
    BY <1>7, <1>a DEF NewArena, TypeOK, Exists
  <2>3. \A q \in Procs : pc'[q] \notin Holding
    BY <1>a, <2>1 DEF PagesInv, Local, Holding
  <2>4. at[p] < position
    <3>1. at[p] + Request(req[p]) = position /\ position \in Nat /\ Request(req[p]) \in Nat \ {0}
      BY <1>a, <2>1, RequestFacts DEF PagesInv, TypeOK
    <3>2. QED
      BY <2>1, <3>1
  <2>5. QED
    BY <2>1, <2>2, <2>3, <2>4 DEF PagesInv, Holding
<1>8. ASSUME SourceExhausted(p) \/ End(p)
      PROVE  PagesInv'
  BY <1>8 DEF SourceExhausted, End
<1>9. QED
  BY <1>1, <1>2, <1>3, <1>4, <1>5, <1>6, <1>7, <1>8 DEF Step, AllocStep

-----------------------------------------------------------------------------
(* Owners.  A step hands on one stretch of units, from one owner to        *)
(* another.                                                                *)

HandOn(owner, first, n, tag) ==
  [x \in 1 .. HeapSize |-> IF x \in first .. first + n - 1 THEN tag ELSE owner[x]]

\* Different owners have different tags.
LEMMA Tags ==
  /\ \A p, q, b, d : HeldTag(p, b) = HeldTag(q, d) => p = q /\ b = d
  /\ \A p, q : HandTag(p) = HandTag(q) => p = q
  /\ \A h, k, a, b, c, d : FreeTag(h, <<a, c>>) = FreeTag(k, <<b, d>>) => h = k /\ a = b /\ c = d
  /\ \A a, b : RecordTag(a) = RecordTag(b) => a = b
  /\ \A a, b : SpaceTag(a) = SpaceTag(b) => a = b
  /\ \A p, b, q : HeldTag(p, b) # HandTag(q)
  /\ \A p, b, h, d : HeldTag(p, b) # FreeTag(h, d)
  /\ \A p, b, a : HeldTag(p, b) # RecordTag(a)
  /\ \A p, b, a : HeldTag(p, b) # SpaceTag(a)
  /\ \A p, b : HeldTag(p, b) # RestTag
  /\ \A p, h, d : HandTag(p) # FreeTag(h, d)
  /\ \A p, a : HandTag(p) # RecordTag(a)
  /\ \A p, a : HandTag(p) # SpaceTag(a)
  /\ \A p : HandTag(p) # RestTag
  /\ \A h, d, a : FreeTag(h, d) # RecordTag(a)
  /\ \A h, d, a : FreeTag(h, d) # SpaceTag(a)
  /\ \A h, d : FreeTag(h, d) # RestTag
  /\ \A a, b : RecordTag(a) # SpaceTag(b)
  /\ \A a : RecordTag(a) # RestTag
  /\ \A a : SpaceTag(a) # RestTag
BY DEF HeldTag, HandTag, FreeTag, RecordTag, SpaceTag, RestTag

\* The stretch has its new owner, and every other owner keeps what it has.
LEMMA HandedOn ==
  ASSUME NEW owner, NEW first, NEW n, NEW old, NEW new,
         Owns(owner, first, n, old)
  PROVE  /\ Owns(HandOn(owner, first, n, new), first, n, new)
         /\ \A f, k, tag : Owns(owner, f, k, tag) /\ tag # old =>
                            Owns(HandOn(owner, first, n, new), f, k, tag)
BY DEF Owns, HandOn

\* What lies apart from the stretch keeps its owner.
LEMMA HandedApart ==
  ASSUME NEW owner, NEW first \in Nat, NEW n \in Nat, NEW new, NEW f \in Nat, NEW k \in Nat, NEW tag,
         Owns(owner, f, k, tag), f + k <= first \/ first + n <= f
  PROVE  Owns(HandOn(owner, first, n, new), f, k, tag)
BY DEF Owns, HandOn

\* A part of what one owns, one owns.
LEMMA OwnsPart ==
  ASSUME NEW owner, NEW f \in Nat, NEW n \in Nat, NEW g \in Nat, NEW k \in Nat, NEW tag,
         Owns(owner, f, n, tag), f <= g, g + k <= f + n
  PROVE  Owns(owner, g, k, tag)
BY DEF Owns

\* Stretches of different owners share no unit.
LEMMA OwnersApart ==
  ASSUME NEW owner, NEW f, NEW n, NEW g, NEW k, NEW tag, NEW other,
         Owns(owner, f, n, tag), Owns(owner, g, k, other), tag # other
  PROVE  (f .. f + n - 1) \cap (g .. g + k - 1) = {}
BY DEF Owns

\* A hand-over between owners that are no free lists leaves the lists alone.
LEMMA ListsAlone ==
  ASSUME NEW owner, NEW first, NEW n, NEW old, NEW new, Owns(owner, first, n, old),
         \A h, d : old # FreeTag(h, d) /\ new # FreeTag(h, d), NEW h, NEW c
  PROVE  OnList(HandOn(owner, first, n, new), h, c) = OnList(owner, h, c)
BY DEF Owns, OnList, HandOn

\* Taking an object off its list takes it from that list only.
LEMMA ListTaken ==
  ASSUME NEW owner, NEW a \in 1 .. HeapSize, NEW n \in Nat \ {0}, NEW h, NEW c, NEW new,
         Owns(owner, a, n, FreeTag(h, <<a, c>>)),
         \A k, d : new # FreeTag(k, d), NEW k, NEW d
  PROVE  OnList(HandOn(owner, a, n, new), k, d) =
           IF <<k, d>> = <<h, c>> THEN OnList(owner, k, d) \ {a} ELSE OnList(owner, k, d)
<1> DEFINE after == HandOn(owner, a, n, new)
<1>1. ASSUME NEW x \in 1 .. HeapSize, after[x] = FreeTag(k, <<x, d>>)
      PROVE  owner[x] = FreeTag(k, <<x, d>>) /\ x # a
  BY <1>1, HeapAssumption DEF HandOn
<1>2. ASSUME NEW x \in 1 .. HeapSize, owner[x] = FreeTag(k, <<x, d>>), x # a
      PROVE  after[x] = FreeTag(k, <<x, d>>)
  <2>1. CASE x \in a .. a + n - 1
    <3>1. FreeTag(k, <<x, d>>) = FreeTag(h, <<a, c>>)
      BY <1>2, <2>1 DEF Owns
    <3>2. x = a
      BY <3>1 DEF FreeTag
    <3>3. QED
      BY <1>2, <3>2
  <2>2. CASE x \notin a .. a + n - 1
    BY <1>2, <2>2 DEF HandOn
  <2>3. QED
    BY <2>1, <2>2
<1>3. owner[a] = FreeTag(h, <<a, c>>)
  BY HeapAssumption DEF Owns
<1>4. <<k, d>> # <<h, c>> => a \notin OnList(owner, k, d)
  BY <1>3, Tags DEF OnList
<1> HIDE DEF after
<1>5. OnList(after, k, d) = OnList(owner, k, d) \ {a}
  BY <1>1, <1>2 DEF OnList
<1>6. QED
  BY <1>4, <1>5 DEF after

-----------------------------------------------------------------------------
(* Steps that hand on no unit                                              *)

Busy == InHandAt \cup {"unlock", "temp", "tempAdd"}

\* A step that moves nothing but the process, and may drop its arena, leaves
\* all owners as they are.
LEMMA OwnersStay ==
  ASSUME TypeOK, OwnHeaps, OwnInv, NEW p \in Procs, Local(p),
         pc[p] \notin Busy, pc'[p] \notin Busy,
         pc'[p] = "pop" => at'[p] = head[Mine(p)][req'[p]],
         UNCHANGED <<head, next, arena, position, held>>,
         \A h \in HeapIds \ {Mine(p)} : current'[h] = current[h],
         current'[Mine(p)] \in {0, current[Mine(p)]}
  PROVE  OwnInv'
<1>a. \A q \in Procs : Mine(q)' = Mine(q) /\ Mine(q) \in HeapIds /\ (q # p => Mine(q) # Mine(p))
  BY MineType DEF Local, Mine, OwnHeaps
<1>b. \A q \in Procs : pc'[q] \in Busy => q # p
  OBVIOUS
<1>c. \A q \in Procs : q # p => pc'[q] = pc[q] /\ at'[q] = at[q] /\ req'[q] = req[q] /\ this'[q] = this[q]
  BY DEF Local
<1>1. OwnReads'
  <2> SUFFICES ASSUME NEW q \in Procs
               PROVE  /\ pc'[q] = "pop" => at'[q] = head[Mine(q)][req'[q]]
                      /\ pc'[q] = "put" => next[at'[q]] = head[Mine(q)][req'[q]]
                      /\ pc'[q] = "advance" =>
                           this'[q] = current'[Mine(q)] /\ at'[q] = arena[this'[q]].space
    BY <1>a DEF OwnReads
  <2>1. CASE q = p
    BY <2>1 DEF Busy, InHandAt
  <2>2. CASE q # p
    BY <2>2, <1>a, <1>c DEF OwnInv, OwnReads
  <2>3. QED
    BY <2>1, <2>2
<1>2. OwnCurrent'
  BY DEF OwnInv, OwnCurrent
<1>3. OneTemp'
  BY <1>c DEF OwnInv, OneTemp, Busy
<1>4. \E owner : Shared(owner)'
  <2>1. PICK owner : Shared(owner)
    BY DEF OwnInv
  <2>2. ObjectsOwn(owner)'
    <3>1. \A q \in Procs : pc'[q] \in InHandAt => q # p
      BY DEF Busy
    <3>2. QED
      BY <2>1, <3>1, <1>c DEF Shared, ObjectsOwn, Owns
  <2>3. FreeOwn(owner)'
    BY <2>1 DEF Shared, FreeOwn
  <2>4. ArenasOwn(owner)'
    <3>1. \A q \in Procs : pc'[q] \in {"advance", "unlock"} => q # p
      BY DEF Busy, InHandAt
    <3>2. \A a : (\A q \in Procs : pc'[q] = "advance" => this'[q] # a) =>
                 (\A q \in Procs : pc[q] = "advance" => this[q] # a)
      BY <1>c DEF Busy, InHandAt
    <3>3. \A a \in 1 .. HeapSize : Exists(a)' = Exists(a)
      BY DEF Exists
    <3>4. ASSUME NEW a \in 1 .. HeapSize, Exists(a)'
          PROVE  /\ Owns(owner, a, ArenaHdr, RecordTag(a))
                 /\ (\A q \in Procs : pc'[q] = "advance" => this'[q] # a) =>
                      Owns(owner, arena'[a].space, arena'[a].left, SpaceTag(a))
      BY <2>1, <3>2, <3>3, <3>4 DEF Shared, ArenasOwn
    <3>5. ASSUME NEW q \in Procs
          PROVE  /\ pc'[q] = "advance" =>
                      Owns(owner, at'[q] + Size[req'[q]], arena'[this'[q]].left, SpaceTag(this'[q]))
                 /\ pc'[q] = "unlock" => Owns(owner, at'[q], HeapSize + 1 - at'[q], RestTag)
      BY <2>1, <3>1, <1>c DEF Shared, ArenasOwn
    <3>6. Owns(owner, position', HeapSize + 1 - position', RestTag)
      BY <2>1 DEF Shared, ArenasOwn
    <3>7. QED
      BY <3>4, <3>5, <3>6 DEF ArenasOwn, Owns
  <2>5. QED
    BY <2>2, <2>3, <2>4 DEF Shared
<1>5. QED
  BY <1>1, <1>2, <1>3, <1>4 DEF OwnInv

\* Calls, reads, checks and the lock hand on nothing.
LEMMA QuietOwners ==
  ASSUME TypeOK, OwnHeaps, OwnInv, initialized, NEW p \in Procs,
         \/ \E c \in Classes : MallocCall(p, c)
         \/ \E q \in Procs : \E b \in held[q] : FreeAborts(p, q, b)
         \/ ListGet(p) \/ ZoneMalloc(p) \/ ZoneAbort(p) \/ DropArena(p)
         \/ SourceLock(p) \/ SourceContend(p) \/ SourceTake(p)
  PROVE  OwnInv'
<1> USE DEF Goto, Keep, sourceVars, zoneVars, listVars, progVars, callVars, mutexVars
<1>1. Local(p)
  BY Locality DEF Step, AllocStep
<1>2. UNCHANGED <<head, next, arena, position, held>>
  BY DEF MallocCall, FreeAborts, ListGet, ZoneMalloc, ZoneAbort, DropArena,
         SourceLock, SourceContend, SourceTake
<1>3. pc[p] \notin Busy
  BY DEF MallocCall, FreeAborts, ListGet, ZoneMalloc, ZoneAbort, DropArena,
         SourceLock, SourceContend, SourceTake, Busy, InHandAt
<1>4. pc'[p] \notin Busy
  BY <1>3 DEF MallocCall, FreeAborts, ListGet, ZoneMalloc, ZoneAbort, DropArena, TypeOK,
         SourceLock, SourceContend, SourceTake, Busy, InHandAt
<1>5. pc'[p] = "pop" => at'[p] = head[Mine(p)][req'[p]]
  <2>1. pc'[p] = "pop" => ListGet(p)
    BY DEF MallocCall, FreeAborts, ZoneMalloc, ZoneAbort, DropArena, TypeOK,
           SourceLock, SourceContend, SourceTake
  <2>2. ListGet(p) /\ pc'[p] = "pop" => at'[p] = head[Mine(p)][req'[p]]
    BY DEF ListGet, TypeOK
  <2>3. QED
    BY <2>1, <2>2
<1>6. /\ \A h \in HeapIds \ {Mine(p)} : current'[h] = current[h]
      /\ current'[Mine(p)] \in {0, current[Mine(p)]}
  BY MineType DEF MallocCall, FreeAborts, ListGet, ZoneMalloc, ZoneAbort, DropArena, TypeOK,
         SourceLock, SourceContend, SourceTake
<1>7. QED
  BY <1>1, <1>2, <1>3, <1>4, <1>5, <1>6, OwnersStay

\* xheap::malloc moves _position: the pages stay no one's until they are an arena.
LEMMA PositionOwners ==
  ASSUME Bounded, PagesInv, OwnHeaps, OwnInv, initialized, NEW p \in Procs, SourceAdvance(p)
  PROVE  OwnInv'
<1> USE DEF Goto, Keep, Return, sourceVars, zoneVars, listVars, progVars, callVars, mutexVars
<1>a. /\ TypeOK /\ InHand /\ Made /\ Local(p) /\ HeapSize \in Nat
      /\ OwnReads /\ OwnCurrent /\ OneTemp
  BY Locality, HeapAssumption DEF Bounded, OwnInv, Step, AllocStep
<1>b. \A q \in Procs : Mine(q)' = Mine(q) /\ Mine(q) \in HeapIds /\ (q # p => Mine(q) # Mine(p))
  BY <1>a, MineType DEF Local, Mine, OwnHeaps
<1>c. \A q \in Procs : q # p => pc'[q] = pc[q] /\ at'[q] = at[q] /\ req'[q] = req[q] /\ this'[q] = this[q]
  BY <1>a DEF Local
<1>d. \A q \in Procs : req[q] \in Classes /\ Size[req[q]] \in Nat \ {0}
  BY <1>a, HeapAssumption DEF TypeOK
<1>e. PICK owner : Shared(owner)
  BY DEF OwnInv
<1>f. ObjectsOwn(owner) /\ FreeOwn(owner) /\ ArenasOwn(owner)
  BY <1>e DEF Shared
<1>1. /\ UNCHANGED <<head, next, arena, current, held, at, req, this>>
      /\ pc[p] = "taken" /\ pc'[p] = "unlock" /\ at[p] = position
      /\ position' = position + Request(req[p])
  BY <1>a DEF SourceAdvance, TypeOK, PagesInv
<1>2. OwnReads'
  <2> SUFFICES ASSUME NEW q \in Procs
               PROVE  /\ pc'[q] = "pop" => at'[q] = head'[Mine(q)][req'[q]]
                      /\ pc'[q] = "put" => next'[at'[q]] = head'[Mine(q)][req'[q]]
                      /\ pc'[q] = "advance" =>
                           this'[q] = current'[Mine(q)] /\ at'[q] = arena'[this'[q]].space
    BY <1>b DEF OwnReads
  <2>1. CASE q = p
    BY <2>1, <1>1
  <2>2. CASE q # p
    BY <2>2, <1>1, <1>a, <1>c DEF OwnReads
  <2>3. QED
    BY <2>1, <2>2
<1>3. OwnCurrent' /\ OneTemp'
  BY <1>1, <1>a, <1>c DEF OwnCurrent, OneTemp
<1>4. ObjectsOwn(owner)'
  BY <1>1, <1>c, <1>f DEF ObjectsOwn, InHandAt
<1>5. FreeOwn(owner)'
  BY <1>1, <1>f DEF FreeOwn
<1>6. ArenasOwn(owner)'
  <2> SUFFICES /\ \A a \in 1 .. HeapSize : Exists(a)' =>
                    /\ Owns(owner, a, ArenaHdr, RecordTag(a))
                    /\ (\A q \in Procs : pc'[q] = "advance" => this'[q] # a) =>
                         Owns(owner, arena'[a].space, arena'[a].left, SpaceTag(a))
               /\ \A q \in Procs : pc'[q] = "advance" =>
                    Owns(owner, at'[q] + Size[req'[q]], arena'[this'[q]].left, SpaceTag(this'[q]))
               /\ Owns(owner, position', HeapSize + 1 - position', RestTag)
               /\ \A q \in Procs : pc'[q] = "unlock" =>
                    Owns(owner, at'[q], HeapSize + 1 - at'[q], RestTag)
    BY DEF ArenasOwn
  <2>1. \A a \in 1 .. HeapSize : Exists(a)' = Exists(a)
    BY <1>1 DEF Exists
  <2>2. \A q \in Procs : pc'[q] = "advance" <=> pc[q] = "advance"
    BY <1>1, <1>c
  <2>3. Owns(owner, position', HeapSize + 1 - position', RestTag)
    <3>1. position \in Nat /\ position' \in Nat /\ position <= position'
      BY <1>1, <1>a, <1>d, RequestFacts DEF TypeOK
    <3>2. position' <= HeapSize + 1
      BY BoundedStep DEF Bounded, TypeOK, Next, AllocStep
    <3>3. Owns(owner, position, HeapSize + 1 - position, RestTag)
      BY <1>f DEF ArenasOwn
    <3>4. QED
      BY <1>a, <3>1, <3>2, <3>3, OwnsPart
  <2>4. \A q \in Procs : pc'[q] = "unlock" => Owns(owner, at'[q], HeapSize + 1 - at'[q], RestTag)
    BY <1>1, <1>c, <1>f DEF ArenasOwn
  <2>5. QED
    BY <1>1, <1>f, <2>1, <2>2, <2>3, <2>4 DEF ArenasOwn
<1>7. QED
  BY <1>2, <1>3, <1>4, <1>5, <1>6 DEF OwnInv, Shared

\* SLList::insert writes its link into the object in hand, which is on no list.
LEMMA LinkOwners ==
  ASSUME Bounded, PagesInv, OwnHeaps, OwnInv, initialized, NEW p \in Procs, ListLink(p)
  PROVE  OwnInv'
<1> USE DEF Goto, Keep, Return, sourceVars, zoneVars, listVars, progVars, callVars, mutexVars
<1>a. /\ TypeOK /\ InHand /\ Made /\ Local(p) /\ HeapSize \in Nat
      /\ OwnReads /\ OwnCurrent /\ OneTemp
  BY Locality, HeapAssumption DEF Bounded, OwnInv, Step, AllocStep
<1>b. \A q \in Procs : Mine(q)' = Mine(q) /\ Mine(q) \in HeapIds /\ (q # p => Mine(q) # Mine(p))
  BY <1>a, MineType DEF Local, Mine, OwnHeaps
<1>c. \A q \in Procs : q # p => pc'[q] = pc[q] /\ at'[q] = at[q] /\ req'[q] = req[q] /\ this'[q] = this[q]
  BY <1>a DEF Local
<1>d. \A q \in Procs : req[q] \in Classes /\ Size[req[q]] \in Nat \ {0}
  BY <1>a, HeapAssumption DEF TypeOK
<1>e. PICK owner : Shared(owner)
  BY DEF OwnInv
<1>f. ObjectsOwn(owner) /\ FreeOwn(owner) /\ ArenasOwn(owner)
  BY <1>e DEF Shared
<1>1. /\ UNCHANGED <<head, arena, current, held, at, req, this, position>>
      /\ pc[p] = "link" /\ pc'[p] = "put" /\ at[p] \in 1 .. HeapSize
      /\ next' = [next EXCEPT ![at[p]] = head[Mine(p)][req[p]]]
  BY <1>a DEF ListLink, TypeOK, InHand
<1>g. owner[at[p]] = HandTag(p)
  BY <1>1, <1>d, <1>f DEF ObjectsOwn, InHandAt, Owns
<1>h. \A a \in 1 .. HeapSize : a # at[p] => next'[a] = next[a]
  BY <1>1, <1>a DEF TypeOK
<1>2. OwnReads'
  <2> SUFFICES ASSUME NEW q \in Procs
               PROVE  /\ pc'[q] = "pop" => at'[q] = head'[Mine(q)][req'[q]]
                      /\ pc'[q] = "put" => next'[at'[q]] = head'[Mine(q)][req'[q]]
                      /\ pc'[q] = "advance" =>
                           this'[q] = current'[Mine(q)] /\ at'[q] = arena'[this'[q]].space
    BY <1>b DEF OwnReads
  <2>1. CASE q = p
    <3>1. next'[at[p]] = head[Mine(p)][req[p]]
      BY <1>1, <1>a DEF TypeOK
    <3>2. QED
      BY <2>1, <1>1, <3>1
  <2>2. CASE q # p
    <3>1. pc[q] = "put" => owner[at[q]] = HandTag(q) /\ at[q] \in 1 .. HeapSize
      BY <1>a, <1>d, <1>f DEF ObjectsOwn, InHandAt, Owns, InHand
    <3>2. pc[q] = "put" => at[q] # at[p]
      BY <2>2, <3>1, <1>g, Tags
    <3>3. QED
      BY <2>2, <3>1, <3>2, <1>1, <1>a, <1>c, <1>h DEF OwnReads
  <2>3. QED
    BY <2>1, <2>2
<1>3. OwnCurrent' /\ OneTemp'
  BY <1>1, <1>a, <1>c DEF OwnCurrent, OneTemp
<1>4. ObjectsOwn(owner)'
  BY <1>1, <1>c, <1>f DEF ObjectsOwn, InHandAt
<1>5. FreeOwn(owner)'
  <2>1. \A h \in HeapIds, c \in Classes : \A a \in OnList(owner, h, c) : next'[a] = next[a]
    BY <1>g, <1>h, Tags DEF OnList
  <2>2. QED
    BY <1>1, <1>f, <2>1 DEF FreeOwn
<1>6. ArenasOwn(owner)'
  <2> SUFFICES /\ \A a \in 1 .. HeapSize : Exists(a)' =>
                    /\ Owns(owner, a, ArenaHdr, RecordTag(a))
                    /\ (\A q \in Procs : pc'[q] = "advance" => this'[q] # a) =>
                         Owns(owner, arena'[a].space, arena'[a].left, SpaceTag(a))
               /\ \A q \in Procs : pc'[q] = "advance" =>
                    Owns(owner, at'[q] + Size[req'[q]], arena'[this'[q]].left, SpaceTag(this'[q]))
               /\ Owns(owner, position', HeapSize + 1 - position', RestTag)
               /\ \A q \in Procs : pc'[q] = "unlock" =>
                    Owns(owner, at'[q], HeapSize + 1 - at'[q], RestTag)
    BY DEF ArenasOwn
  <2>1. \A a \in 1 .. HeapSize : Exists(a)' = Exists(a)
    BY <1>1 DEF Exists
  <2>2. \A q \in Procs : /\ pc'[q] = "advance" <=> pc[q] = "advance"
                         /\ pc'[q] = "unlock" <=> pc[q] = "unlock"
    BY <1>1, <1>c
  <2>3. QED
    BY <1>1, <1>f, <2>1, <2>2 DEF ArenasOwn
<1>7. QED
  BY <1>2, <1>3, <1>4, <1>5, <1>6 DEF OwnInv, Shared

\* Arena::malloc moves the pointer of its arena, on which no one else works.
LEMMA AdvanceOwners ==
  ASSUME Bounded, PagesInv, OwnHeaps, OwnInv, initialized, NEW p \in Procs, ArenaAdvance(p)
  PROVE  OwnInv'
<1> USE DEF Goto, Keep, Return, sourceVars, zoneVars, listVars, progVars, callVars, mutexVars
<1>a. /\ TypeOK /\ InHand /\ Made /\ Local(p) /\ HeapSize \in Nat
      /\ OwnReads /\ OwnCurrent /\ OneTemp
  BY Locality, HeapAssumption DEF Bounded, OwnInv, Step, AllocStep
<1>b. \A q \in Procs : Mine(q)' = Mine(q) /\ Mine(q) \in HeapIds /\ (q # p => Mine(q) # Mine(p))
  BY <1>a, MineType DEF Local, Mine, OwnHeaps
<1>c. \A q \in Procs : q # p => pc'[q] = pc[q] /\ at'[q] = at[q] /\ req'[q] = req[q] /\ this'[q] = this[q]
  BY <1>a DEF Local
<1>d. \A q \in Procs : req[q] \in Classes /\ Size[req[q]] \in Nat \ {0}
  BY <1>a, HeapAssumption DEF TypeOK
<1>e. PICK owner : Shared(owner)
  BY DEF OwnInv
<1>f. ObjectsOwn(owner) /\ FreeOwn(owner) /\ ArenasOwn(owner)
  BY <1>e DEF Shared
<1>1. /\ UNCHANGED <<head, next, current, held, at, req, this, position>>
      /\ pc[p] = "advance" /\ pc'[p] = "done"
      /\ this[p] \in 1 .. HeapSize /\ Exists(this[p])
      /\ arena'[this[p]].space = arena[this[p]].space + Size[req[p]]
      /\ arena'[this[p]].left = arena[this[p]].left
      /\ \A a \in 1 .. HeapSize \ {this[p]} : arena'[a] = arena[a]
  BY <1>a DEF ArenaAdvance, TypeOK, InHand
<1>g. \A q \in Procs : q # p /\ pc[q] = "advance" => this[q] # this[p] /\ this[q] \in 1 .. HeapSize
  <2>1. \A q \in Procs : pc[q] = "advance" => this[q] = current[Mine(q)] /\ this[q] \in 1 .. HeapSize
    BY <1>a DEF OwnReads, InHand
  <2>2. \A q \in Procs : q # p => current[Mine(q)] # current[Mine(p)] \/ current[Mine(p)] = 0
    BY <1>a, <1>b DEF OwnCurrent
  <2>3. QED
    BY <1>1, <2>1, <2>2
<1>2. OwnReads'
  <2> SUFFICES ASSUME NEW q \in Procs
               PROVE  /\ pc'[q] = "pop" => at'[q] = head'[Mine(q)][req'[q]]
                      /\ pc'[q] = "put" => next'[at'[q]] = head'[Mine(q)][req'[q]]
                      /\ pc'[q] = "advance" =>
                           this'[q] = current'[Mine(q)] /\ at'[q] = arena'[this'[q]].space
    BY <1>b DEF OwnReads
  <2>1. CASE q = p
    BY <2>1, <1>1
  <2>2. CASE q # p
    BY <2>2, <1>1, <1>a, <1>c, <1>g DEF OwnReads
  <2>3. QED
    BY <2>1, <2>2
<1>3. OwnCurrent' /\ OneTemp'
  BY <1>1, <1>a, <1>c DEF OwnCurrent, OneTemp
<1>4. ObjectsOwn(owner)'
  BY <1>1, <1>c, <1>f DEF ObjectsOwn, InHandAt
<1>5. FreeOwn(owner)'
  BY <1>1, <1>f DEF FreeOwn
<1>6. ArenasOwn(owner)'
  <2> SUFFICES /\ \A a \in 1 .. HeapSize : Exists(a)' =>
                    /\ Owns(owner, a, ArenaHdr, RecordTag(a))
                    /\ (\A q \in Procs : pc'[q] = "advance" => this'[q] # a) =>
                         Owns(owner, arena'[a].space, arena'[a].left, SpaceTag(a))
               /\ \A q \in Procs : pc'[q] = "advance" =>
                    Owns(owner, at'[q] + Size[req'[q]], arena'[this'[q]].left, SpaceTag(this'[q]))
               /\ Owns(owner, position', HeapSize + 1 - position', RestTag)
               /\ \A q \in Procs : pc'[q] = "unlock" =>
                    Owns(owner, at'[q], HeapSize + 1 - at'[q], RestTag)
    BY DEF ArenasOwn
  <2>1. \A a \in 1 .. HeapSize : Exists(a)' => Exists(a)
    BY <1>1 DEF Exists
  <2>2. \A q \in Procs : pc'[q] \in {"advance", "unlock"} => q # p /\ pc'[q] = pc[q]
    BY <1>1, <1>c
  <2>3. ASSUME NEW a \in 1 .. HeapSize, Exists(a)'
        PROVE  /\ Owns(owner, a, ArenaHdr, RecordTag(a))
               /\ (\A q \in Procs : pc'[q] = "advance" => this'[q] # a) =>
                    Owns(owner, arena'[a].space, arena'[a].left, SpaceTag(a))
    <3>1. CASE a = this[p]
      <4>1. at[p] = arena[a].space
        BY <1>a, <1>1, <3>1 DEF OwnReads
      <4>2. Owns(owner, at[p] + Size[req[p]], arena[a].left, SpaceTag(a))
        BY <1>1, <1>f, <3>1 DEF ArenasOwn
      <4>3. QED
        BY <1>1, <1>f, <2>1, <2>3, <3>1, <4>1, <4>2 DEF ArenasOwn
    <3>2. CASE a # this[p]
      <4>1. (\A q \in Procs : pc'[q] = "advance" => this'[q] # a) =>
              (\A q \in Procs : pc[q] = "advance" => this[q] # a)
        BY <1>1, <1>c, <3>2
      <4>2. QED
        BY <1>1, <1>f, <2>1, <2>3, <3>2, <4>1 DEF ArenasOwn
    <3>3. QED
      BY <3>1, <3>2
  <2>4. \A q \in Procs : pc'[q] = "advance" =>
          Owns(owner, at'[q] + Size[req'[q]], arena'[this'[q]].left, SpaceTag(this'[q]))
    BY <1>1, <1>f, <1>g, <2>2 DEF ArenasOwn
  <2>5. QED
    BY <1>1, <1>f, <2>2, <2>3, <2>4 DEF ArenasOwn
<1>7. QED
  BY <1>2, <1>3, <1>4, <1>5, <1>6 DEF OwnInv, Shared

\* What FreeOwn says of one list.
LEMMA ListLinks ==
  ASSUME NEW owner, FreeOwn(owner), NEW h \in HeapIds, NEW c \in Classes
  PROVE  \A x \in OnList(owner, h, c) : next[x] # 0 =>
            /\ next[x] \in OnList(owner, h, c) /\ next[x] # head[h][c]
            /\ \A b \in OnList(owner, h, c) : next[b] = next[x] => b = x
BY DEF FreeOwn

-----------------------------------------------------------------------------
(* Steps that hand on units                                                *)

\* The object malloc returns becomes the program's.
LEMMA ReturnOwners ==
  ASSUME Bounded, PagesInv, OwnHeaps, OwnInv, initialized, NEW p \in Procs, MallocReturn(p)
  PROVE  OwnInv'
<1> SUFFICES ASSUME NEW a, a = at[p], NEW r, r = req[p], NEW g, g = Mine(p)
             PROVE  OwnInv'
  OBVIOUS
<1> USE DEF Goto, Keep, Return, sourceVars, zoneVars, listVars, progVars, callVars, mutexVars
<1>a. /\ TypeOK /\ InHand /\ Made /\ Local(p) /\ HeapSize \in Nat
      /\ OwnReads /\ OwnCurrent /\ OneTemp
  BY Locality, HeapAssumption DEF Bounded, OwnInv, Step, AllocStep
<1>b. \A q \in Procs : Mine(q)' = Mine(q) /\ Mine(q) \in HeapIds /\ (q # p => Mine(q) # Mine(p))
  BY <1>a, MineType DEF Local, Mine, OwnHeaps
<1>c. \A q \in Procs : q # p => pc'[q] = pc[q] /\ at'[q] = at[q] /\ req'[q] = req[q] /\ this'[q] = this[q]
  BY <1>a DEF Local
<1>d. \A q \in Procs : req[q] \in Classes /\ Size[req[q]] \in Nat \ {0}
  BY <1>a, HeapAssumption DEF TypeOK
<1>e. PICK owner : Shared(owner)
  BY DEF OwnInv
<1>f. ObjectsOwn(owner) /\ FreeOwn(owner) /\ ArenasOwn(owner)
  BY <1>e DEF Shared
<1>1. /\ UNCHANGED <<head, next, arena, current, position>>
      /\ pc[p] = "done" /\ pc'[p] = "run"
      /\ held'[p] = held[p] \cup {<<a, r>>} /\ \A q \in Procs \ {p} : held'[q] = held[q]
  BY <1>a DEF MallocReturn, TypeOK
<1>j. Owns(owner, a, Size[r], HandTag(p))
  BY <1>1, <1>f DEF ObjectsOwn, InHandAt
<1>g. a \in 1 .. HeapSize
  <2>1. a \in Nat
    BY <1>a, HeapAssumption DEF TypeOK, Addr
  <2>2. QED
    BY <1>d, <1>j, <2>1 DEF Owns
<1> DEFINE after == HandOn(owner, a, Size[r], HeldTag(p, <<a, r>>))
<1>k. /\ Owns(after, a, Size[r], HeldTag(p, <<a, r>>))
      /\ \A f, m, tag : Owns(owner, f, m, tag) /\ tag # HandTag(p) => Owns(after, f, m, tag)
  BY <1>j, HandedOn
<1>2. OwnReads'
  <2> SUFFICES ASSUME NEW q \in Procs
               PROVE  /\ pc'[q] = "pop" => at'[q] = head'[Mine(q)][req'[q]]
                      /\ pc'[q] = "put" => next'[at'[q]] = head'[Mine(q)][req'[q]]
                      /\ pc'[q] = "advance" =>
                           this'[q] = current'[Mine(q)] /\ at'[q] = arena'[this'[q]].space
    BY <1>b DEF OwnReads
  <2>1. CASE q = p
    BY <2>1, <1>1
  <2>2. CASE q # p
    BY <2>2, <1>1, <1>a, <1>c DEF OwnReads
  <2>3. QED
    BY <2>1, <2>2
<1>3. OwnCurrent' /\ OneTemp'
  <2>1. OwnCurrent'
    BY <1>1, <1>a DEF OwnCurrent
  <2>2. \A q \in Procs : \A b \in held'[q] : b[1] >= TempBase => b \in held[q]
    <3>1. ~(a >= TempBase)
      BY <1>a, <1>g DEF TempBase
    <3>2. <<a, r>>[1] = a
      OBVIOUS
    <3>3. QED
      BY <1>1, <3>1, <3>2
  <2>3. OneTemp'
    BY <1>1, <1>a, <1>c, <2>2 DEF OneTemp
  <2>4. QED
    BY <2>1, <2>3
<1> HIDE DEF after
<1>4. ObjectsOwn(after)'
  <2> SUFFICES /\ \A q \in Procs : \A b \in held'[q] :
                    b[1] < TempBase => Owns(after, b[1], Size[b[2]], HeldTag(q, b))
               /\ \A q \in Procs : pc'[q] \in InHandAt => Owns(after, at'[q], Size[req'[q]], HandTag(q))
    BY DEF ObjectsOwn
  <2>1. ASSUME NEW q \in Procs, NEW b \in held'[q], b[1] < TempBase
        PROVE  Owns(after, b[1], Size[b[2]], HeldTag(q, b))
    <3>1. CASE b \in held[q]
      <4>1. Owns(owner, b[1], Size[b[2]], HeldTag(q, b))
        BY <1>f, <2>1, <3>1 DEF ObjectsOwn
      <4>2. QED
        BY <1>k, <4>1, Tags
    <3>2. CASE b \notin held[q]
      <4>1. q = p /\ b = <<a, r>>
        BY <1>1, <2>1, <3>2
      <4>2. b[1] = a /\ b[2] = r
        BY <4>1
      <4>3. QED
        BY <1>k, <4>1, <4>2
    <3>3. QED
      BY <3>1, <3>2
  <2>2. ASSUME NEW q \in Procs, pc'[q] \in InHandAt
        PROVE  Owns(after, at'[q], Size[req'[q]], HandTag(q))
    <3>1. CASE q = p
      BY <1>1, <2>2, <3>1 DEF InHandAt
    <3>2. CASE q # p
      <4>1. Owns(owner, at[q], Size[req[q]], HandTag(q))
        BY <1>c, <1>f, <2>2, <3>2 DEF ObjectsOwn
      <4>2. QED
        BY <1>c, <1>k, <3>2, <4>1, Tags
    <3>3. QED
      BY <3>1, <3>2
  <2>3. QED
    BY <2>1, <2>2
<1> USE DEF after
<1>5. FreeOwn(after)'
  <2>1. \A h, c : OnList(after, h, c) = OnList(owner, h, c)
    BY <1>j, ListsAlone, Tags
  <2> SUFFICES ASSUME NEW h \in HeapIds, NEW c \in Classes
               PROVE  /\ \A x \in OnList(after, h, c) :
                           /\ Owns(after, x, Size[c], FreeTag(h, <<x, c>>))
                           /\ next'[x] # 0 =>
                                /\ next'[x] \in OnList(after, h, c)
                                /\ next'[x] # head'[h][c]
                                /\ \A b \in OnList(after, h, c) : next'[b] = next'[x] => b = x
                      /\ head'[h][c] # 0 => head'[h][c] \in OnList(after, h, c)
    BY DEF FreeOwn
  <2> HIDE DEF after
  <2>2. ASSUME NEW x \in OnList(owner, h, c)
        PROVE  Owns(after, x, Size[c], FreeTag(h, <<x, c>>))
    <3>1. Owns(owner, x, Size[c], FreeTag(h, <<x, c>>))
      BY <1>f DEF FreeOwn
    <3>2. QED
      BY <1>k, <3>1, Tags
  <2>3. QED
    BY <1>1, <1>f, <2>1, <2>2 DEF FreeOwn
<1> HIDE DEF after
<1>6. ArenasOwn(after)'
  <2> SUFFICES /\ \A x \in 1 .. HeapSize : Exists(x)' =>
                    /\ Owns(after, x, ArenaHdr, RecordTag(x))
                    /\ (\A q \in Procs : pc'[q] = "advance" => this'[q] # x) =>
                         Owns(after, arena'[x].space, arena'[x].left, SpaceTag(x))
               /\ \A q \in Procs : pc'[q] = "advance" =>
                    Owns(after, at'[q] + Size[req'[q]], arena'[this'[q]].left, SpaceTag(this'[q]))
               /\ Owns(after, position', HeapSize + 1 - position', RestTag)
               /\ \A q \in Procs : pc'[q] = "unlock" =>
                    Owns(after, at'[q], HeapSize + 1 - at'[q], RestTag)
    BY DEF ArenasOwn
  <2>1. \A x \in 1 .. HeapSize : Exists(x)' = Exists(x)
    BY <1>1 DEF Exists
  <2>2. \A q \in Procs : /\ pc'[q] = "advance" <=> (pc[q] = "advance" /\ q # p)
                         /\ pc'[q] = "unlock" <=> (pc[q] = "unlock" /\ q # p)
    BY <1>1, <1>c
  <2>3. pc[p] # "advance" /\ pc[p] # "unlock"
    BY <1>1
  <2>4. \A x \in 1 .. HeapSize : Exists(x) => Owns(owner, x, ArenaHdr, RecordTag(x))
    BY <1>f DEF ArenasOwn
  <2>5. \A x \in 1 .. HeapSize : Exists(x)' => Owns(after, x, ArenaHdr, RecordTag(x))
    BY <1>k, <2>1, <2>4, Tags
  <2>6. ASSUME NEW x \in 1 .. HeapSize, Exists(x)', \A q \in Procs : pc'[q] = "advance" => this'[q] # x
        PROVE  Owns(after, arena'[x].space, arena'[x].left, SpaceTag(x))
    <3>1. \A q \in Procs : pc[q] = "advance" => this[q] # x
      BY <1>c, <2>2, <2>3, <2>6
    <3>2. Owns(owner, arena[x].space, arena[x].left, SpaceTag(x))
      BY <1>f, <2>1, <2>6, <3>1 DEF ArenasOwn
    <3>3. QED
      BY <1>1, <1>k, <3>2, Tags
  <2>7. ASSUME NEW q \in Procs, pc'[q] = "advance"
        PROVE  Owns(after, at'[q] + Size[req'[q]], arena'[this'[q]].left, SpaceTag(this'[q]))
    <3>1. Owns(owner, at[q] + Size[req[q]], arena[this[q]].left, SpaceTag(this[q]))
      BY <1>f, <2>2, <2>7 DEF ArenasOwn
    <3>2. QED
      BY <1>1, <1>c, <1>k, <2>2, <2>7, <3>1, Tags
  <2>8. Owns(after, position', HeapSize + 1 - position', RestTag)
    <3>1. Owns(owner, position, HeapSize + 1 - position, RestTag)
      BY <1>f DEF ArenasOwn
    <3>2. QED
      BY <1>1, <1>k, <3>1, Tags
  <2>9. ASSUME NEW q \in Procs, pc'[q] = "unlock"
        PROVE  Owns(after, at'[q], HeapSize + 1 - at'[q], RestTag)
    <3>1. Owns(owner, at[q], HeapSize + 1 - at[q], RestTag)
      BY <1>f, <2>2, <2>9 DEF ArenasOwn
    <3>2. QED
      BY <1>1, <1>c, <1>k, <2>2, <2>9, <3>1, Tags
  <2>10. QED
    BY <2>5, <2>6, <2>7, <2>8, <2>9
<1>7. Shared(after)'
  BY <1>4, <1>5, <1>6 DEF Shared
<1>8. QED
  BY <1>2, <1>3, <1>7 DEF OwnInv

\* The object free is given is the program's no more.
LEMMA FreeOwners ==
  ASSUME Bounded, PagesInv, OwnHeaps, OwnInv, initialized,
         NEW p \in Procs, NEW o \in Procs, NEW b0 \in held[o], FreeCall(p, o, b0)
  PROVE  OwnInv'
<1> SUFFICES ASSUME NEW a, a = b0[1], NEW r, r = b0[2], NEW t, t = HeldTag(o, b0)
             PROVE  OwnInv'
  OBVIOUS
<1> USE DEF Goto, Keep, Return, sourceVars, zoneVars, listVars, progVars, callVars, mutexVars
<1>a. /\ TypeOK /\ InHand /\ Made /\ Local(p) /\ HeapSize \in Nat
      /\ OwnReads /\ OwnCurrent /\ OneTemp
  BY Locality, HeapAssumption DEF Bounded, OwnInv, Step, AllocStep
<1>b. \A q \in Procs : Mine(q)' = Mine(q) /\ Mine(q) \in HeapIds /\ (q # p => Mine(q) # Mine(p))
  BY <1>a, MineType DEF Local, Mine, OwnHeaps
<1>c. \A q \in Procs : q # p => pc'[q] = pc[q] /\ at'[q] = at[q] /\ req'[q] = req[q] /\ this'[q] = this[q]
  BY <1>a DEF Local
<1>d. \A q \in Procs : req[q] \in Classes /\ Size[req[q]] \in Nat \ {0}
  BY <1>a, HeapAssumption DEF TypeOK
<1>e. PICK owner : Shared(owner)
  BY DEF OwnInv
<1>f. ObjectsOwn(owner) /\ FreeOwn(owner) /\ ArenasOwn(owner)
  BY <1>e DEF Shared
<1>1. /\ UNCHANGED <<head, next, arena, current, position>>
      /\ pc[p] = "run" /\ pc'[p] = "link" /\ at'[p] = a /\ req'[p] = r /\ a < TempBase
      /\ held'[o] = held[o] \ {b0} /\ \A q \in Procs \ {o} : held'[q] = held[q]
  BY <1>a DEF FreeCall, TypeOK
<1>j. Owns(owner, a, Size[r], t)
  BY <1>1, <1>f DEF ObjectsOwn
<1> DEFINE after == HandOn(owner, a, Size[r], HandTag(p))
<1>k. /\ Owns(after, a, Size[r], HandTag(p))
      /\ \A f, m, tag : Owns(owner, f, m, tag) /\ tag # t => Owns(after, f, m, tag)
  BY <1>j, HandedOn
<1>2. OwnReads'
  <2> SUFFICES ASSUME NEW q \in Procs
               PROVE  /\ pc'[q] = "pop" => at'[q] = head'[Mine(q)][req'[q]]
                      /\ pc'[q] = "put" => next'[at'[q]] = head'[Mine(q)][req'[q]]
                      /\ pc'[q] = "advance" =>
                           this'[q] = current'[Mine(q)] /\ at'[q] = arena'[this'[q]].space
    BY <1>b DEF OwnReads
  <2>1. CASE q = p
    BY <2>1, <1>1
  <2>2. CASE q # p
    BY <2>2, <1>1, <1>a, <1>c DEF OwnReads
  <2>3. QED
    BY <2>1, <2>2
<1>3. OwnCurrent' /\ OneTemp'
  <2>1. OwnCurrent'
    BY <1>1, <1>a DEF OwnCurrent
  <2>2. \A q \in Procs : held'[q] \subseteq held[q]
    BY <1>1
  <2>3. OneTemp'
    BY <1>1, <1>a, <1>c, <2>2 DEF OneTemp
  <2>4. QED
    BY <2>1, <2>3
<1> HIDE DEF after
<1>4. ObjectsOwn(after)'
  <2> SUFFICES /\ \A q \in Procs : \A b \in held'[q] :
                    b[1] < TempBase => Owns(after, b[1], Size[b[2]], HeldTag(q, b))
               /\ \A q \in Procs : pc'[q] \in InHandAt => Owns(after, at'[q], Size[req'[q]], HandTag(q))
    BY DEF ObjectsOwn
  <2>1. ASSUME NEW q \in Procs, NEW b \in held'[q], b[1] < TempBase
        PROVE  Owns(after, b[1], Size[b[2]], HeldTag(q, b))
    <3>1. b \in held[q] /\ (q = o => b # b0)
      BY <1>1, <2>1
    <3>2. Owns(owner, b[1], Size[b[2]], HeldTag(q, b))
      BY <1>f, <2>1, <3>1 DEF ObjectsOwn
    <3>3. HeldTag(q, b) # t
      BY <3>1, Tags
    <3>4. QED
      BY <1>k, <3>2, <3>3
  <2>2. ASSUME NEW q \in Procs, pc'[q] \in InHandAt
        PROVE  Owns(after, at'[q], Size[req'[q]], HandTag(q))
    <3>1. CASE q = p
      BY <1>1, <1>k, <3>1
    <3>2. CASE q # p
      <4>1. Owns(owner, at[q], Size[req[q]], HandTag(q))
        BY <1>c, <1>f, <2>2, <3>2 DEF ObjectsOwn
      <4>2. QED
        BY <1>c, <1>k, <3>2, <4>1, Tags
    <3>3. QED
      BY <3>1, <3>2
  <2>3. QED
    BY <2>1, <2>2
<1> USE DEF after
<1>5. FreeOwn(after)'
  <2>1. \A h, c : OnList(after, h, c) = OnList(owner, h, c)
    BY <1>j, ListsAlone, Tags
  <2> SUFFICES ASSUME NEW h \in HeapIds, NEW c \in Classes
               PROVE  /\ \A x \in OnList(after, h, c) :
                           /\ Owns(after, x, Size[c], FreeTag(h, <<x, c>>))
                           /\ next'[x] # 0 =>
                                /\ next'[x] \in OnList(after, h, c)
                                /\ next'[x] # head'[h][c]
                                /\ \A b \in OnList(after, h, c) : next'[b] = next'[x] => b = x
                      /\ head'[h][c] # 0 => head'[h][c] \in OnList(after, h, c)
    BY DEF FreeOwn
  <2> HIDE DEF after
  <2>2. ASSUME NEW x \in OnList(owner, h, c)
        PROVE  Owns(after, x, Size[c], FreeTag(h, <<x, c>>))
    <3>1. Owns(owner, x, Size[c], FreeTag(h, <<x, c>>))
      BY <1>f DEF FreeOwn
    <3>2. QED
      BY <1>k, <3>1, Tags
  <2>3. QED
    BY <1>1, <1>f, <2>1, <2>2 DEF FreeOwn
<1> HIDE DEF after
<1>6. ArenasOwn(after)'
  <2> SUFFICES /\ \A x \in 1 .. HeapSize : Exists(x)' =>
                    /\ Owns(after, x, ArenaHdr, RecordTag(x))
                    /\ (\A q \in Procs : pc'[q] = "advance" => this'[q] # x) =>
                         Owns(after, arena'[x].space, arena'[x].left, SpaceTag(x))
               /\ \A q \in Procs : pc'[q] = "advance" =>
                    Owns(after, at'[q] + Size[req'[q]], arena'[this'[q]].left, SpaceTag(this'[q]))
               /\ Owns(after, position', HeapSize + 1 - position', RestTag)
               /\ \A q \in Procs : pc'[q] = "unlock" =>
                    Owns(after, at'[q], HeapSize + 1 - at'[q], RestTag)
    BY DEF ArenasOwn
  <2>1. \A x \in 1 .. HeapSize : Exists(x)' = Exists(x)
    BY <1>1 DEF Exists
  <2>2. \A q \in Procs : /\ pc'[q] = "advance" <=> (pc[q] = "advance" /\ q # p)
                         /\ pc'[q] = "unlock" <=> (pc[q] = "unlock" /\ q # p)
    BY <1>1, <1>c
  <2>3. pc[p] # "advance" /\ pc[p] # "unlock"
    BY <1>1
  <2>4. \A x \in 1 .. HeapSize : Exists(x) => Owns(owner, x, ArenaHdr, RecordTag(x))
    BY <1>f DEF ArenasOwn
  <2>5. \A x \in 1 .. HeapSize : Exists(x)' => Owns(after, x, ArenaHdr, RecordTag(x))
    BY <1>k, <2>1, <2>4, Tags
  <2>6. ASSUME NEW x \in 1 .. HeapSize, Exists(x)', \A q \in Procs : pc'[q] = "advance" => this'[q] # x
        PROVE  Owns(after, arena'[x].space, arena'[x].left, SpaceTag(x))
    <3>1. \A q \in Procs : pc[q] = "advance" => this[q] # x
      BY <1>c, <2>2, <2>3, <2>6
    <3>2. Owns(owner, arena[x].space, arena[x].left, SpaceTag(x))
      BY <1>f, <2>1, <2>6, <3>1 DEF ArenasOwn
    <3>3. QED
      BY <1>1, <1>k, <3>2, Tags
  <2>7. ASSUME NEW q \in Procs, pc'[q] = "advance"
        PROVE  Owns(after, at'[q] + Size[req'[q]], arena'[this'[q]].left, SpaceTag(this'[q]))
    <3>1. Owns(owner, at[q] + Size[req[q]], arena[this[q]].left, SpaceTag(this[q]))
      BY <1>f, <2>2, <2>7 DEF ArenasOwn
    <3>2. QED
      BY <1>1, <1>c, <1>k, <2>2, <2>7, <3>1, Tags
  <2>8. Owns(after, position', HeapSize + 1 - position', RestTag)
    <3>1. Owns(owner, position, HeapSize + 1 - position, RestTag)
      BY <1>f DEF ArenasOwn
    <3>2. QED
      BY <1>1, <1>k, <3>1, Tags
  <2>9. ASSUME NEW q \in Procs, pc'[q] = "unlock"
        PROVE  Owns(after, at'[q], HeapSize + 1 - at'[q], RestTag)
    <3>1. Owns(owner, at[q], HeapSize + 1 - at[q], RestTag)
      BY <1>f, <2>2, <2>9 DEF ArenasOwn
    <3>2. QED
      BY <1>1, <1>c, <1>k, <2>2, <2>9, <3>1, Tags
  <2>10. QED
    BY <2>5, <2>6, <2>7, <2>8, <2>9
<1>7. Shared(after)'
  BY <1>4, <1>5, <1>6 DEF Shared
<1>8. QED
  BY <1>2, <1>3, <1>7 DEF OwnInv

\* SLList::get takes the head off its list.
LEMMA PopOwners ==
  ASSUME Bounded, PagesInv, OwnHeaps, OwnInv, initialized, NEW p \in Procs, ListPop(p)
  PROVE  OwnInv'
<1> SUFFICES ASSUME NEW a, a = at[p], NEW r, r = req[p], NEW g, g = Mine(p)
             PROVE  OwnInv'
  OBVIOUS
<1> USE DEF Goto, Keep, Return, sourceVars, zoneVars, listVars, progVars, callVars, mutexVars
<1>a. /\ TypeOK /\ InHand /\ Made /\ Local(p) /\ HeapSize \in Nat
      /\ OwnReads /\ OwnCurrent /\ OneTemp
  BY Locality, HeapAssumption DEF Bounded, OwnInv, Step, AllocStep
<1>b. \A q \in Procs : Mine(q)' = Mine(q) /\ Mine(q) \in HeapIds /\ (q # p => Mine(q) # Mine(p))
  BY <1>a, MineType DEF Local, Mine, OwnHeaps
<1>c. \A q \in Procs : q # p => pc'[q] = pc[q] /\ at'[q] = at[q] /\ req'[q] = req[q] /\ this'[q] = this[q]
  BY <1>a DEF Local
<1>d. \A q \in Procs : req[q] \in Classes /\ Size[req[q]] \in Nat \ {0}
  BY <1>a, HeapAssumption DEF TypeOK
<1>e. PICK owner : Shared(owner)
  BY DEF OwnInv
<1>f. ObjectsOwn(owner) /\ FreeOwn(owner) /\ ArenasOwn(owner)
  BY <1>e DEF Shared
<1>1. /\ UNCHANGED <<next, arena, current, position, held, at, req, this>>
      /\ pc[p] = "pop" /\ pc'[p] = "done" /\ a \in 1 .. HeapSize /\ a = head[g][r]
      /\ r \in Classes /\ g \in HeapIds
      /\ head'[g][r] = next[a]
      /\ \A h \in HeapIds, c \in Classes : <<h, c>> # <<g, r>> => head'[h][c] = head[h][c]
  BY <1>a, <1>b DEF ListPop, TypeOK, InHand, OwnReads
<1>l. a \in OnList(owner, g, r)
  BY <1>1, <1>f DEF FreeOwn
<1>j. Owns(owner, a, Size[r], FreeTag(g, <<a, r>>))
  BY <1>1, <1>f, <1>l DEF FreeOwn
<1> DEFINE after == HandOn(owner, a, Size[r], HandTag(p))
<1>k. /\ Owns(after, a, Size[r], HandTag(p))
      /\ \A f, m, tag : Owns(owner, f, m, tag) /\ tag # FreeTag(g, <<a, r>>) => Owns(after, f, m, tag)
  BY <1>j, HandedOn
<1>2. OwnReads'
  <2> SUFFICES ASSUME NEW q \in Procs
               PROVE  /\ pc'[q] = "pop" => at'[q] = head'[Mine(q)][req'[q]]
                      /\ pc'[q] = "put" => next'[at'[q]] = head'[Mine(q)][req'[q]]
                      /\ pc'[q] = "advance" =>
                           this'[q] = current'[Mine(q)] /\ at'[q] = arena'[this'[q]].space
    BY <1>b DEF OwnReads
  <2>1. CASE q = p
    BY <2>1, <1>1
  <2>2. CASE q # p
    BY <2>2, <1>1, <1>a, <1>b, <1>c, <1>d DEF OwnReads
  <2>3. QED
    BY <2>1, <2>2
<1>3. OwnCurrent' /\ OneTemp'
  BY <1>1, <1>a, <1>c DEF OwnCurrent, OneTemp
<1> HIDE DEF after
<1>4. ObjectsOwn(after)'
  <2> SUFFICES /\ \A q \in Procs : \A b \in held'[q] :
                    b[1] < TempBase => Owns(after, b[1], Size[b[2]], HeldTag(q, b))
               /\ \A q \in Procs : pc'[q] \in InHandAt => Owns(after, at'[q], Size[req'[q]], HandTag(q))
    BY DEF ObjectsOwn
  <2>1. ASSUME NEW q \in Procs, NEW b \in held'[q], b[1] < TempBase
        PROVE  Owns(after, b[1], Size[b[2]], HeldTag(q, b))
    <3>1. Owns(owner, b[1], Size[b[2]], HeldTag(q, b))
      BY <1>1, <1>f, <2>1 DEF ObjectsOwn
    <3>2. QED
      BY <1>k, <3>1, Tags
  <2>2. ASSUME NEW q \in Procs, pc'[q] \in InHandAt
        PROVE  Owns(after, at'[q], Size[req'[q]], HandTag(q))
    <3>1. CASE q = p
      BY <1>1, <1>k, <3>1
    <3>2. CASE q # p
      <4>1. Owns(owner, at[q], Size[req[q]], HandTag(q))
        BY <1>c, <1>f, <2>2, <3>2 DEF ObjectsOwn
      <4>2. QED
        BY <1>c, <1>k, <3>2, <4>1, Tags
    <3>3. QED
      BY <3>1, <3>2
  <2>3. QED
    BY <2>1, <2>2
<1>5. FreeOwn(after)'
  <2> SUFFICES ASSUME NEW h \in HeapIds, NEW c \in Classes
               PROVE  /\ \A x \in OnList(after, h, c) :
                           /\ Owns(after, x, Size[c], FreeTag(h, <<x, c>>))
                           /\ next'[x] # 0 =>
                                /\ next'[x] \in OnList(after, h, c)
                                /\ next'[x] # head'[h][c]
                                /\ \A b \in OnList(after, h, c) : next'[b] = next'[x] => b = x
                      /\ head'[h][c] # 0 => head'[h][c] \in OnList(after, h, c)
    BY DEF FreeOwn
  <2>1. OnList(after, h, c) =
          IF <<h, c>> = <<g, r>> THEN OnList(owner, h, c) \ {a} ELSE OnList(owner, h, c)
    <3>1. \A k, d : HandTag(p) # FreeTag(k, d)
      BY Tags
    <3>2. Size[r] \in Nat \ {0} /\ a \in 1 .. HeapSize
      BY <1>1, <1>d
    <3>3. QED
      BY <1>j, <3>1, <3>2, ListTaken DEF after
  <2>2. ASSUME NEW x \in OnList(after, h, c)
        PROVE  Owns(after, x, Size[c], FreeTag(h, <<x, c>>))
    <3>1. x \in OnList(owner, h, c) /\ <<h, x, c>> # <<g, a, r>>
      BY <2>1
    <3>2. Owns(owner, x, Size[c], FreeTag(h, <<x, c>>))
      BY <1>f, <3>1 DEF FreeOwn
    <3>3. FreeTag(h, <<x, c>>) # FreeTag(g, <<a, r>>)
      BY <3>1 DEF FreeTag
    <3>4. QED
      BY <1>k, <3>2, <3>3
  <2>3. CASE <<h, c>> = <<g, r>>
    <3>1. h = g /\ c = r /\ OnList(after, h, c) = OnList(owner, g, r) \ {a}
      BY <2>1, <2>3
    <3>2. \A x \in OnList(owner, g, r) : next[x] # 0 =>
            /\ next[x] \in OnList(owner, g, r) /\ next[x] # head[g][r]
            /\ \A b \in OnList(owner, g, r) : next[b] = next[x] => b = x
      BY <1>1, <1>f, ListLinks
    <3>3. QED
      BY <1>1, <1>l, <2>2, <3>1, <3>2
  <2>4. CASE <<h, c>> # <<g, r>>
    BY <1>1, <1>f, <2>1, <2>2, <2>4 DEF FreeOwn
  <2>5. QED
    BY <2>3, <2>4
<1>6. ArenasOwn(after)'
  <2> SUFFICES /\ \A x \in 1 .. HeapSize : Exists(x)' =>
                    /\ Owns(after, x, ArenaHdr, RecordTag(x))
                    /\ (\A q \in Procs : pc'[q] = "advance" => this'[q] # x) =>
                         Owns(after, arena'[x].space, arena'[x].left, SpaceTag(x))
               /\ \A q \in Procs : pc'[q] = "advance" =>
                    Owns(after, at'[q] + Size[req'[q]], arena'[this'[q]].left, SpaceTag(this'[q]))
               /\ Owns(after, position', HeapSize + 1 - position', RestTag)
               /\ \A q \in Procs : pc'[q] = "unlock" =>
                    Owns(after, at'[q], HeapSize + 1 - at'[q], RestTag)
    BY DEF ArenasOwn
  <2>1. \A x \in 1 .. HeapSize : Exists(x)' = Exists(x)
    BY <1>1 DEF Exists
  <2>2. \A q \in Procs : /\ pc'[q] = "advance" <=> (pc[q] = "advance" /\ q # p)
                         /\ pc'[q] = "unlock" <=> (pc[q] = "unlock" /\ q # p)
    BY <1>1, <1>c
  <2>3. pc[p] # "advance" /\ pc[p] # "unlock"
    BY <1>1
  <2>4. \A x \in 1 .. HeapSize : Exists(x) => Owns(owner, x, ArenaHdr, RecordTag(x))
    BY <1>f DEF ArenasOwn
  <2>5. \A x \in 1 .. HeapSize : Exists(x)' => Owns(after, x, ArenaHdr, RecordTag(x))
    BY <1>k, <2>1, <2>4, Tags
  <2>6. ASSUME NEW x \in 1 .. HeapSize, Exists(x)', \A q \in Procs : pc'[q] = "advance" => this'[q] # x
        PROVE  Owns(after, arena'[x].space, arena'[x].left, SpaceTag(x))
    <3>1. \A q \in Procs : pc[q] = "advance" => this[q] # x
      BY <1>c, <2>2, <2>3, <2>6
    <3>2. Owns(owner, arena[x].space, arena[x].left, SpaceTag(x))
      BY <1>f, <2>1, <2>6, <3>1 DEF ArenasOwn
    <3>3. QED
      BY <1>1, <1>k, <3>2, Tags
  <2>7. ASSUME NEW q \in Procs, pc'[q] = "advance"
        PROVE  Owns(after, at'[q] + Size[req'[q]], arena'[this'[q]].left, SpaceTag(this'[q]))
    <3>1. Owns(owner, at[q] + Size[req[q]], arena[this[q]].left, SpaceTag(this[q]))
      BY <1>f, <2>2, <2>7 DEF ArenasOwn
    <3>2. QED
      BY <1>1, <1>c, <1>k, <2>2, <2>7, <3>1, Tags
  <2>8. Owns(after, position', HeapSize + 1 - position', RestTag)
    <3>1. Owns(owner, position, HeapSize + 1 - position, RestTag)
      BY <1>f DEF ArenasOwn
    <3>2. QED
      BY <1>1, <1>k, <3>1, Tags
  <2>9. ASSUME NEW q \in Procs, pc'[q] = "unlock"
        PROVE  Owns(after, at'[q], HeapSize + 1 - at'[q], RestTag)
    <3>1. Owns(owner, at[q], HeapSize + 1 - at[q], RestTag)
      BY <1>f, <2>2, <2>9 DEF ArenasOwn
    <3>2. QED
      BY <1>1, <1>c, <1>k, <2>2, <2>9, <3>1, Tags
  <2>10. QED
    BY <2>5, <2>6, <2>7, <2>8, <2>9
<1>7. Shared(after)'
  BY <1>4, <1>5, <1>6 DEF Shared
<1>8. QED
  BY <1>2, <1>3, <1>7 DEF OwnInv

\* SLList::insert puts the object in hand on its list.
LEMMA PutOwners ==
  ASSUME Bounded, PagesInv, OwnHeaps, OwnInv, initialized, NEW p \in Procs, ListPut(p)
  PROVE  OwnInv'
<1> SUFFICES ASSUME NEW a, a = at[p], NEW r, r = req[p], NEW g, g = Mine(p)
             PROVE  OwnInv'
  OBVIOUS
<1> USE DEF Goto, Keep, Return, sourceVars, zoneVars, listVars, progVars, callVars, mutexVars
<1>a. /\ TypeOK /\ InHand /\ Made /\ Local(p) /\ HeapSize \in Nat
      /\ OwnReads /\ OwnCurrent /\ OneTemp
  BY Locality, HeapAssumption DEF Bounded, OwnInv, Step, AllocStep
<1>b. \A q \in Procs : Mine(q)' = Mine(q) /\ Mine(q) \in HeapIds /\ (q # p => Mine(q) # Mine(p))
  BY <1>a, MineType DEF Local, Mine, OwnHeaps
<1>c. \A q \in Procs : q # p => pc'[q] = pc[q] /\ at'[q] = at[q] /\ req'[q] = req[q] /\ this'[q] = this[q]
  BY <1>a DEF Local
<1>d. \A q \in Procs : req[q] \in Classes /\ Size[req[q]] \in Nat \ {0}
  BY <1>a, HeapAssumption DEF TypeOK
<1>e. PICK owner : Shared(owner)
  BY DEF OwnInv
<1>f. ObjectsOwn(owner) /\ FreeOwn(owner) /\ ArenasOwn(owner)
  BY <1>e DEF Shared
<1>1. /\ UNCHANGED <<next, arena, current, position, held>>
      /\ pc[p] = "put" /\ pc'[p] = "run" /\ a \in 1 .. HeapSize /\ next[a] = head[g][r]
      /\ r \in Classes /\ g \in HeapIds
      /\ head'[g][r] = a
      /\ \A h \in HeapIds, c \in Classes : <<h, c>> # <<g, r>> => head'[h][c] = head[h][c]
  BY <1>a, <1>b DEF ListPut, TypeOK, InHand, OwnReads
<1>j. Owns(owner, a, Size[r], HandTag(p))
  BY <1>1, <1>f DEF ObjectsOwn, InHandAt
<1>l. a \notin OnList(owner, g, r)
  <2>1. owner[a] = HandTag(p)
    BY <1>1, <1>d, <1>j DEF Owns
  <2>2. QED
    BY <2>1, Tags DEF OnList
<1> DEFINE after == HandOn(owner, a, Size[r], FreeTag(g, <<a, r>>))
<1>k. /\ Owns(after, a, Size[r], FreeTag(g, <<a, r>>))
      /\ \A f, m, tag : Owns(owner, f, m, tag) /\ tag # HandTag(p) => Owns(after, f, m, tag)
  BY <1>j, HandedOn
<1>2. OwnReads'
  <2> SUFFICES ASSUME NEW q \in Procs
               PROVE  /\ pc'[q] = "pop" => at'[q] = head'[Mine(q)][req'[q]]
                      /\ pc'[q] = "put" => next'[at'[q]] = head'[Mine(q)][req'[q]]
                      /\ pc'[q] = "advance" =>
                           this'[q] = current'[Mine(q)] /\ at'[q] = arena'[this'[q]].space
    BY <1>b DEF OwnReads
  <2>1. CASE q = p
    BY <2>1, <1>1
  <2>2. CASE q # p
    BY <2>2, <1>1, <1>a, <1>b, <1>c, <1>d DEF OwnReads
  <2>3. QED
    BY <2>1, <2>2
<1>3. OwnCurrent' /\ OneTemp'
  BY <1>1, <1>a, <1>c DEF OwnCurrent, OneTemp
<1> HIDE DEF after
<1>4. ObjectsOwn(after)'
  <2> SUFFICES /\ \A q \in Procs : \A b \in held'[q] :
                    b[1] < TempBase => Owns(after, b[1], Size[b[2]], HeldTag(q, b))
               /\ \A q \in Procs : pc'[q] \in InHandAt => Owns(after, at'[q], Size[req'[q]], HandTag(q))
    BY DEF ObjectsOwn
  <2>1. ASSUME NEW q \in Procs, NEW b \in held'[q], b[1] < TempBase
        PROVE  Owns(after, b[1], Size[b[2]], HeldTag(q, b))
    <3>1. Owns(owner, b[1], Size[b[2]], HeldTag(q, b))
      BY <1>1, <1>f, <2>1 DEF ObjectsOwn
    <3>2. QED
      BY <1>k, <3>1, Tags
  <2>2. ASSUME NEW q \in Procs, pc'[q] \in InHandAt
        PROVE  Owns(after, at'[q], Size[req'[q]], HandTag(q))
    <3>1. CASE q = p
      BY <1>1, <2>2, <3>1 DEF InHandAt
    <3>2. CASE q # p
      <4>1. Owns(owner, at[q], Size[req[q]], HandTag(q))
        BY <1>c, <1>f, <2>2, <3>2 DEF ObjectsOwn
      <4>2. QED
        BY <1>c, <1>k, <3>2, <4>1, Tags
    <3>3. QED
      BY <3>1, <3>2
  <2>3. QED
    BY <2>1, <2>2
<1>5. FreeOwn(after)'
  <2> SUFFICES ASSUME NEW h \in HeapIds, NEW c \in Classes
               PROVE  /\ \A x \in OnList(after, h, c) :
                           /\ Owns(after, x, Size[c], FreeTag(h, <<x, c>>))
                           /\ next'[x] # 0 =>
                                /\ next'[x] \in OnList(after, h, c)
                                /\ next'[x] # head'[h][c]
                                /\ \A b \in OnList(after, h, c) : next'[b] = next'[x] => b = x
                      /\ head'[h][c] # 0 => head'[h][c] \in OnList(after, h, c)
    BY DEF FreeOwn
  <2>1. OnList(after, h, c) =
          IF <<h, c>> = <<g, r>> THEN OnList(owner, h, c) \cup {a} ELSE OnList(owner, h, c)
    <3>0. Size[r] \in Nat \ {0} /\ a \in 1 .. HeapSize /\ HeapSize \in Nat
      BY <1>1, <1>a, <1>d
    <3>1. ASSUME NEW x \in 1 .. HeapSize, after[x] = FreeTag(h, <<x, c>>)
          PROVE  owner[x] = FreeTag(h, <<x, c>>) \/ (x = a /\ h = g /\ c = r)
      <4>1. CASE x \in a .. a + Size[r] - 1
        <5>1. FreeTag(h, <<x, c>>) = FreeTag(g, <<a, r>>)
          BY <3>1, <4>1 DEF after, HandOn
        <5>2. QED
          BY <5>1 DEF FreeTag
      <4>2. CASE x \notin a .. a + Size[r] - 1
        BY <3>1, <4>2 DEF after, HandOn
      <4>3. QED
        BY <4>1, <4>2
    <3>2. ASSUME NEW x \in 1 .. HeapSize, owner[x] = FreeTag(h, <<x, c>>)
          PROVE  after[x] = FreeTag(h, <<x, c>>)
      <4>1. x \notin a .. a + Size[r] - 1
        BY <1>j, <3>2, Tags DEF Owns
      <4>2. QED
        BY <3>2, <4>1 DEF after, HandOn
    <3>3. after[a] = FreeTag(g, <<a, r>>)
      BY <3>0 DEF after, HandOn
    <3>4. CASE <<h, c>> = <<g, r>>
      <4>1. h = g /\ c = r
        BY <3>4
      <4>2. OnList(after, h, c) = OnList(owner, h, c) \cup {a}
        BY <3>0, <3>1, <3>2, <3>3, <4>1 DEF OnList
      <4>3. QED
        BY <3>4, <4>2
    <3>5. CASE <<h, c>> # <<g, r>>
      <4>1. OnList(after, h, c) = OnList(owner, h, c)
        BY <3>1, <3>2, <3>5 DEF OnList
      <4>2. QED
        BY <3>5, <4>1
    <3>6. QED
      BY <3>4, <3>5
  <2>2. ASSUME NEW x \in OnList(after, h, c)
        PROVE  Owns(after, x, Size[c], FreeTag(h, <<x, c>>))
    <3>1. CASE x \in OnList(owner, h, c)
      <4>1. Owns(owner, x, Size[c], FreeTag(h, <<x, c>>))
        BY <1>f, <3>1 DEF FreeOwn
      <4>2. QED
        BY <1>k, <4>1, Tags
    <3>2. CASE x \notin OnList(owner, h, c)
      <4>1. x = a /\ h = g /\ c = r
        BY <2>1, <3>2
      <4>2. QED
        BY <1>k, <4>1
    <3>3. QED
      BY <3>1, <3>2
  <2>3. CASE <<h, c>> = <<g, r>>
    <3>1. h = g /\ c = r /\ OnList(after, h, c) = OnList(owner, g, r) \cup {a}
      BY <2>1, <2>3
    <3>2. \A x \in OnList(owner, g, r) : next[x] # 0 =>
            /\ next[x] \in OnList(owner, g, r) /\ next[x] # head[g][r]
            /\ \A b \in OnList(owner, g, r) : next[b] = next[x] => b = x
      BY <1>1, <1>f, ListLinks
    <3>3. next[a] # 0 => next[a] \in OnList(owner, g, r)
      BY <1>1, <1>f DEF FreeOwn
    <3>4. QED
      BY <1>1, <1>l, <2>2, <3>1, <3>2, <3>3
  <2>4. CASE <<h, c>> # <<g, r>>
    BY <1>1, <1>f, <2>1, <2>2, <2>4 DEF FreeOwn
  <2>5. QED
    BY <2>3, <2>4
<1>6. ArenasOwn(after)'
  <2> SUFFICES /\ \A x \in 1 .. HeapSize : Exists(x)' =>
                    /\ Owns(after, x, ArenaHdr, RecordTag(x))
                    /\ (\A q \in Procs : pc'[q] = "advance" => this'[q] # x) =>
                         Owns(after, arena'[x].space, arena'[x].left, SpaceTag(x))
               /\ \A q \in Procs : pc'[q] = "advance" =>
                    Owns(after, at'[q] + Size[req'[q]], arena'[this'[q]].left, SpaceTag(this'[q]))
               /\ Owns(after, position', HeapSize + 1 - position', RestTag)
               /\ \A q \in Procs : pc'[q] = "unlock" =>
                    Owns(after, at'[q], HeapSize + 1 - at'[q], RestTag)
    BY DEF ArenasOwn
  <2>1. \A x \in 1 .. HeapSize : Exists(x)' = Exists(x)
    BY <1>1 DEF Exists
  <2>2. \A q \in Procs : /\ pc'[q] = "advance" <=> (pc[q] = "advance" /\ q # p)
                         /\ pc'[q] = "unlock" <=> (pc[q] = "unlock" /\ q # p)
    BY <1>1, <1>c
  <2>3. pc[p] # "advance" /\ pc[p] # "unlock"
    BY <1>1
  <2>4. \A x \in 1 .. HeapSize : Exists(x) => Owns(owner, x, ArenaHdr, RecordTag(x))
    BY <1>f DEF ArenasOwn
  <2>5. \A x \in 1 .. HeapSize : Exists(x)' => Owns(after, x, ArenaHdr, RecordTag(x))
    BY <1>k, <2>1, <2>4, Tags
  <2>6. ASSUME NEW x \in 1 .. HeapSize, Exists(x)', \A q \in Procs : pc'[q] = "advance" => this'[q] # x
        PROVE  Owns(after, arena'[x].space, arena'[x].left, SpaceTag(x))
    <3>1. \A q \in Procs : pc[q] = "advance" => this[q] # x
      BY <1>c, <2>2, <2>3, <2>6
    <3>2. Owns(owner, arena[x].space, arena[x].left, SpaceTag(x))
      BY <1>f, <2>1, <2>6, <3>1 DEF ArenasOwn
    <3>3. QED
      BY <1>1, <1>k, <3>2, Tags
  <2>7. ASSUME NEW q \in Procs, pc'[q] = "advance"
        PROVE  Owns(after, at'[q] + Size[req'[q]], arena'[this'[q]].left, SpaceTag(this'[q]))
    <3>1. Owns(owner, at[q] + Size[req[q]], arena[this[q]].left, SpaceTag(this[q]))
      BY <1>f, <2>2, <2>7 DEF ArenasOwn
    <3>2. QED
      BY <1>1, <1>c, <1>k, <2>2, <2>7, <3>1, Tags
  <2>8. Owns(after, position', HeapSize + 1 - position', RestTag)
    <3>1. Owns(owner, position, HeapSize + 1 - position, RestTag)
      BY <1>f DEF ArenasOwn
    <3>2. QED
      BY <1>1, <1>k, <3>1, Tags
  <2>9. ASSUME NEW q \in Procs, pc'[q] = "unlock"
        PROVE  Owns(after, at'[q], HeapSize + 1 - at'[q], RestTag)
    <3>1. Owns(owner, at[q], HeapSize + 1 - at[q], RestTag)
      BY <1>f, <2>2, <2>9 DEF ArenasOwn
    <3>2. QED
      BY <1>1, <1>c, <1>k, <2>2, <2>9, <3>1, Tags
  <2>10. QED
    BY <2>5, <2>6, <2>7, <2>8, <2>9
<1>7. Shared(after)'
  BY <1>4, <1>5, <1>6 DEF Shared
<1>8. QED
  BY <1>2, <1>3, <1>7 DEF OwnInv

\* Arena::malloc takes the first units of the space of its arena.
LEMMA CarveOwners ==
  ASSUME Bounded, PagesInv, OwnHeaps, OwnInv, initialized, NEW p \in Procs, ArenaCarve(p)
  PROVE  OwnInv'
<1> SUFFICES ASSUME NEW a, a = current[Mine(p)], NEW s, s = Size[req[p]],
                    NEW u, u = arena[a].space, NEW l, l = arena[a].left
             PROVE  OwnInv'
  OBVIOUS
<1> USE DEF Goto, Keep, Return, sourceVars, zoneVars, listVars, progVars, callVars, mutexVars
<1>a. /\ TypeOK /\ InHand /\ Made /\ Local(p) /\ HeapSize \in Nat
      /\ OwnReads /\ OwnCurrent /\ OneTemp
  BY Locality, HeapAssumption DEF Bounded, OwnInv, Step, AllocStep
<1>b. \A q \in Procs : Mine(q)' = Mine(q) /\ Mine(q) \in HeapIds /\ (q # p => Mine(q) # Mine(p))
  BY <1>a, MineType DEF Local, Mine, OwnHeaps
<1>c. \A q \in Procs : q # p => pc'[q] = pc[q] /\ at'[q] = at[q] /\ req'[q] = req[q] /\ this'[q] = this[q]
  BY <1>a DEF Local
<1>d. \A q \in Procs : req[q] \in Classes /\ Size[req[q]] \in Nat \ {0}
  BY <1>a, HeapAssumption DEF TypeOK
<1>e. PICK owner : Shared(owner)
  BY DEF OwnInv
<1>f. ObjectsOwn(owner) /\ FreeOwn(owner) /\ ArenasOwn(owner)
  BY <1>e DEF Shared
<1>0. a \in 1 .. HeapSize /\ Exists(a) /\ l \in Nat /\ u \in Nat /\ s \in Nat /\ s <= l
  <2>1. a \in 0 .. HeapSize /\ Left(p) >= s /\ s \in Nat \ {0}
    BY <1>a, <1>b, <1>d DEF TypeOK, ArenaCarve
  <2>2. a # 0
    BY <2>1 DEF Left
  <2>3. a \in 1 .. HeapSize /\ Exists(a)
    BY <1>a, <1>b, <2>1, <2>2 DEF Made
  <2>4. arena[a] \in [left : 0 .. HeapSize, space : 0 .. HeapSize + 1]
    BY <1>a, <2>3 DEF TypeOK
  <2>5. l \in Nat /\ u \in Nat
    BY <1>a, <2>4
  <2>6. QED
    BY <2>1, <2>2, <2>3, <2>5 DEF Left
<1>1. /\ UNCHANGED <<head, next, current, held, req, position>>
      /\ pc[p] = "carve" /\ pc'[p] = "advance" /\ at'[p] = u /\ this'[p] = a
      /\ arena'[a].space = u /\ arena'[a].left = l - s
      /\ \A b \in 1 .. HeapSize \ {a} : arena'[b] = arena[b]
  BY <1>a, <1>0 DEF ArenaCarve, TypeOK
<1>g. \A q \in Procs : pc[q] = "advance" => q # p /\ this[q] # a /\ this[q] \in 1 .. HeapSize
  <2>1. \A q \in Procs : pc[q] = "advance" => this[q] = current[Mine(q)] /\ this[q] \in 1 .. HeapSize
    BY <1>a DEF OwnReads, InHand
  <2>2. \A q \in Procs : q # p => current[Mine(q)] # current[Mine(p)] \/ current[Mine(p)] = 0
    BY <1>a, <1>b DEF OwnCurrent
  <2>3. QED
    BY <1>0, <1>1, <2>1, <2>2
<1>h. Owns(owner, u, l, SpaceTag(a))
  BY <1>0, <1>f, <1>g DEF ArenasOwn
<1>j. Owns(owner, u, s, SpaceTag(a))
  BY <1>0, <1>h, OwnsPart
<1> DEFINE after == HandOn(owner, u, s, HandTag(p))
<1>k. /\ Owns(after, u, s, HandTag(p))
      /\ \A f, m, tag : Owns(owner, f, m, tag) /\ tag # SpaceTag(a) => Owns(after, f, m, tag)
  BY <1>j, HandedOn
<1>m. Owns(after, u + s, l - s, SpaceTag(a))
  <2>1. u + s \in Nat /\ l - s \in Nat
    BY <1>0
  <2>2. Owns(owner, u + s, l - s, SpaceTag(a))
    BY <1>0, <1>h, <2>1, OwnsPart
  <2>3. QED
    BY <1>0, <2>1, <2>2, HandedApart
<1>2. OwnReads'
  <2> SUFFICES ASSUME NEW q \in Procs
               PROVE  /\ pc'[q] = "pop" => at'[q] = head'[Mine(q)][req'[q]]
                      /\ pc'[q] = "put" => next'[at'[q]] = head'[Mine(q)][req'[q]]
                      /\ pc'[q] = "advance" =>
                           this'[q] = current'[Mine(q)] /\ at'[q] = arena'[this'[q]].space
    BY <1>b DEF OwnReads
  <2>1. CASE q = p
    BY <2>1, <1>0, <1>1
  <2>2. CASE q # p
    BY <2>2, <1>1, <1>a, <1>c, <1>g DEF OwnReads
  <2>3. QED
    BY <2>1, <2>2
<1>3. OwnCurrent' /\ OneTemp'
  BY <1>1, <1>a, <1>c DEF OwnCurrent, OneTemp
<1> HIDE DEF after
<1>4. ObjectsOwn(after)'
  <2> SUFFICES /\ \A q \in Procs : \A b \in held'[q] :
                    b[1] < TempBase => Owns(after, b[1], Size[b[2]], HeldTag(q, b))
               /\ \A q \in Procs : pc'[q] \in InHandAt => Owns(after, at'[q], Size[req'[q]], HandTag(q))
    BY DEF ObjectsOwn
  <2>1. ASSUME NEW q \in Procs, NEW b \in held'[q], b[1] < TempBase
        PROVE  Owns(after, b[1], Size[b[2]], HeldTag(q, b))
    <3>1. Owns(owner, b[1], Size[b[2]], HeldTag(q, b))
      BY <1>1, <1>f, <2>1 DEF ObjectsOwn
    <3>2. QED
      BY <1>k, <3>1, Tags
  <2>2. ASSUME NEW q \in Procs, pc'[q] \in InHandAt
        PROVE  Owns(after, at'[q], Size[req'[q]], HandTag(q))
    <3>1. CASE q = p
      BY <1>1, <1>k, <3>1
    <3>2. CASE q # p
      <4>1. Owns(owner, at[q], Size[req[q]], HandTag(q))
        BY <1>c, <1>f, <2>2, <3>2 DEF ObjectsOwn
      <4>2. QED
        BY <1>c, <1>k, <3>2, <4>1, Tags
    <3>3. QED
      BY <3>1, <3>2
  <2>3. QED
    BY <2>1, <2>2
<1> USE DEF after
<1>5. FreeOwn(after)'
  <2>1. \A h, c : OnList(after, h, c) = OnList(owner, h, c)
    BY <1>j, ListsAlone, Tags
  <2> SUFFICES ASSUME NEW h \in HeapIds, NEW c \in Classes
               PROVE  /\ \A x \in OnList(after, h, c) :
                           /\ Owns(after, x, Size[c], FreeTag(h, <<x, c>>))
                           /\ next'[x] # 0 =>
                                /\ next'[x] \in OnList(after, h, c)
                                /\ next'[x] # head'[h][c]
                                /\ \A b \in OnList(after, h, c) : next'[b] = next'[x] => b = x
                      /\ head'[h][c] # 0 => head'[h][c] \in OnList(after, h, c)
    BY DEF FreeOwn
  <2> HIDE DEF after
  <2>2. ASSUME NEW x \in OnList(owner, h, c)
        PROVE  Owns(after, x, Size[c], FreeTag(h, <<x, c>>))
    <3>1. Owns(owner, x, Size[c], FreeTag(h, <<x, c>>))
      BY <1>f DEF FreeOwn
    <3>2. QED
      BY <1>k, <3>1, Tags
  <2>3. QED
    BY <1>1, <1>f, <2>1, <2>2 DEF FreeOwn
<1> HIDE DEF after
<1>6. ArenasOwn(after)'
  <2> SUFFICES /\ \A b \in 1 .. HeapSize : Exists(b)' =>
                    /\ Owns(after, b, ArenaHdr, RecordTag(b))
                    /\ (\A q \in Procs : pc'[q] = "advance" => this'[q] # b) =>
                         Owns(after, arena'[b].space, arena'[b].left, SpaceTag(b))
               /\ \A q \in Procs : pc'[q] = "advance" =>
                    Owns(after, at'[q] + Size[req'[q]], arena'[this'[q]].left, SpaceTag(this'[q]))
               /\ Owns(after, position', HeapSize + 1 - position', RestTag)
               /\ \A q \in Procs : pc'[q] = "unlock" =>
                    Owns(after, at'[q], HeapSize + 1 - at'[q], RestTag)
    BY DEF ArenasOwn
  <2>1. \A b \in 1 .. HeapSize : Exists(b)' = Exists(b)
    BY <1>1 DEF Exists
  <2>2. \A b \in 1 .. HeapSize : Exists(b)' => Owns(after, b, ArenaHdr, RecordTag(b))
    <3>1. \A b \in 1 .. HeapSize : Exists(b) => Owns(owner, b, ArenaHdr, RecordTag(b))
      BY <1>f DEF ArenasOwn
    <3>2. QED
      BY <1>k, <2>1, <3>1, Tags
  <2>3. ASSUME NEW b \in 1 .. HeapSize, Exists(b)', \A q \in Procs : pc'[q] = "advance" => this'[q] # b
        PROVE  Owns(after, arena'[b].space, arena'[b].left, SpaceTag(b))
    <3>1. b # a /\ \A q \in Procs : pc[q] = "advance" => this[q] # b
      BY <1>1, <1>c, <1>g, <2>3
    <3>2. Owns(owner, arena[b].space, arena[b].left, SpaceTag(b))
      BY <1>f, <2>1, <2>3, <3>1 DEF ArenasOwn
    <3>3. SpaceTag(b) # SpaceTag(a)
      BY <3>1, Tags
    <3>4. QED
      BY <1>1, <1>k, <3>1, <3>2, <3>3
  <2>4. ASSUME NEW q \in Procs, pc'[q] = "advance"
        PROVE  Owns(after, at'[q] + Size[req'[q]], arena'[this'[q]].left, SpaceTag(this'[q]))
    <3>1. CASE q = p
      BY <1>1, <1>m, <3>1
    <3>2. CASE q # p
      <4>1. pc[q] = "advance" /\ this[q] # a /\ this[q] \in 1 .. HeapSize
        BY <1>c, <1>g, <2>4, <3>2
      <4>2. Owns(owner, at[q] + Size[req[q]], arena[this[q]].left, SpaceTag(this[q]))
        BY <1>f, <4>1 DEF ArenasOwn
      <4>3. SpaceTag(this[q]) # SpaceTag(a)
        BY <4>1, Tags
      <4>4. QED
        BY <1>1, <1>c, <1>k, <3>2, <4>1, <4>2, <4>3
    <3>3. QED
      BY <3>1, <3>2
  <2>5. Owns(after, position', HeapSize + 1 - position', RestTag)
    <3>1. Owns(owner, position, HeapSize + 1 - position, RestTag)
      BY <1>f DEF ArenasOwn
    <3>2. QED
      BY <1>1, <1>k, <3>1, Tags
  <2>6. ASSUME NEW q \in Procs, pc'[q] = "unlock"
        PROVE  Owns(after, at'[q], HeapSize + 1 - at'[q], RestTag)
    <3>1. q # p
      BY <1>1, <2>6
    <3>2. Owns(owner, at[q], HeapSize + 1 - at[q], RestTag)
      BY <1>c, <1>f, <2>6, <3>1 DEF ArenasOwn
    <3>3. QED
      BY <1>c, <1>k, <3>1, <3>2, Tags
  <2>7. QED
    BY <2>2, <2>3, <2>4, <2>5, <2>6
<1>7. Shared(after)'
  BY <1>4, <1>5, <1>6 DEF Shared
<1>8. QED
  BY <1>2, <1>3, <1>7 DEF OwnInv

\* The pages the source heap gave become an arena.
LEMMA ArenaOwners ==
  ASSUME Bounded, PagesInv, OwnHeaps, OwnInv, initialized, NEW p \in Procs, NewArena(p)
  PROVE  OwnInv'
<1> SUFFICES ASSUME NEW a, a = at[p], NEW n, n = ArenaSize(req[p]), NEW g, g = Mine(p)
             PROVE  OwnInv'
  OBVIOUS
<1> USE DEF Goto, Keep, Return, sourceVars, zoneVars, listVars, progVars, callVars, mutexVars
<1>a. /\ TypeOK /\ InHand /\ Made /\ Local(p) /\ HeapSize \in Nat
      /\ OwnReads /\ OwnCurrent /\ OneTemp
  BY Locality, HeapAssumption DEF Bounded, OwnInv, Step, AllocStep
<1>b. \A q \in Procs : Mine(q)' = Mine(q) /\ Mine(q) \in HeapIds /\ (q # p => Mine(q) # Mine(p))
  BY <1>a, MineType DEF Local, Mine, OwnHeaps
<1>c. \A q \in Procs : q # p => pc'[q] = pc[q] /\ at'[q] = at[q] /\ req'[q] = req[q] /\ this'[q] = this[q]
  BY <1>a DEF Local
<1>d. \A q \in Procs : req[q] \in Classes /\ Size[req[q]] \in Nat \ {0}
  BY <1>a, HeapAssumption DEF TypeOK
<1>e. PICK owner : Shared(owner)
  BY DEF OwnInv
<1>f. ObjectsOwn(owner) /\ FreeOwn(owner) /\ ArenasOwn(owner)
  BY <1>e DEF Shared
<1>0. /\ a \in 1 .. HeapSize /\ n \in Nat /\ ArenaHdr \in Nat \ {0}
      /\ position \in 1 .. HeapSize + 1 /\ a + ArenaHdr + n <= position
  <2>1. pc[p] = "unlock" /\ a \in 1 .. HeapSize
    BY <1>a DEF NewArena, InHand
  <2>2. a + Request(req[p]) = position /\ position \in 1 .. HeapSize + 1
    BY <1>a, <2>1 DEF PagesInv, TypeOK
  <2>3. n \in Nat /\ Request(req[p]) \in Nat /\ ArenaHdr + n <= Request(req[p]) /\ ArenaHdr \in Nat \ {0}
    BY <1>d, RequestFacts, HeapAssumption
  <2>4. QED
    BY <2>1, <2>2, <2>3
<1>1. /\ UNCHANGED <<head, next, held, at, req, this, position>>
      /\ pc[p] = "unlock" /\ pc'[p] = "carve" /\ g \in HeapIds
      /\ arena'[a].space = a + ArenaHdr /\ arena'[a].left = n
      /\ \A b \in 1 .. HeapSize \ {a} : arena'[b] = arena[b]
      /\ current'[g] = a /\ \A h \in HeapIds \ {g} : current'[h] = current[h]
  BY <1>a, <1>b, <1>0 DEF NewArena, TypeOK
<1>g. ~Exists(a)
  BY <1>0, <1>1 DEF PagesInv
<1>h. \A q \in Procs : q # p => pc[q] \notin Holding
  BY <1>1 DEF PagesInv, Holding
<1>i. Owns(owner, a, HeapSize + 1 - a, RestTag)
  BY <1>1, <1>f DEF ArenasOwn
<1> DEFINE mid == HandOn(owner, a, ArenaHdr, RecordTag(a))
           after == HandOn(mid, a + ArenaHdr, n, SpaceTag(a))
<1>j. Owns(owner, a, ArenaHdr, RestTag)
  BY <1>0, <1>a, <1>i, OwnsPart
<1>m. /\ Owns(mid, a, ArenaHdr, RecordTag(a))
      /\ \A f, m, tag : Owns(owner, f, m, tag) /\ tag # RestTag => Owns(mid, f, m, tag)
  BY <1>j, HandedOn
<1>n. Owns(mid, a + ArenaHdr, n, RestTag) /\ Owns(mid, position, HeapSize + 1 - position, RestTag)
  <2>1. Owns(owner, a + ArenaHdr, n, RestTag) /\ Owns(owner, position, HeapSize + 1 - position, RestTag)
    <3>1. a + ArenaHdr \in Nat /\ HeapSize + 1 - a \in Nat
      BY <1>0, <1>a
    <3>2. a <= a + ArenaHdr /\ a + ArenaHdr + n <= a + (HeapSize + 1 - a)
      BY <1>0, <1>a
    <3>3. QED
      BY <1>0, <1>f, <1>i, <3>1, <3>2, OwnsPart DEF ArenasOwn
  <2>2. a + ArenaHdr \in Nat /\ HeapSize + 1 - position \in Nat /\ a + ArenaHdr <= position
    BY <1>0, <1>a
  <2>3. QED
    BY <1>0, <2>1, <2>2, HandedApart
<1>o. /\ Owns(after, a + ArenaHdr, n, SpaceTag(a))
      /\ \A f, m, tag : Owns(mid, f, m, tag) /\ tag # RestTag => Owns(after, f, m, tag)
  BY <1>n, HandedOn
<1>p. Owns(after, position, HeapSize + 1 - position, RestTag)
  <2>1. a + ArenaHdr \in Nat /\ HeapSize + 1 - position \in Nat /\ position \in Nat
    BY <1>0, <1>a
  <2>2. QED
    BY <1>0, <1>n, <2>1, HandedApart
<1>q. \A h, c : OnList(after, h, c) = OnList(owner, h, c)
  <2>1. \A h, c : OnList(mid, h, c) = OnList(owner, h, c)
    BY <1>j, ListsAlone, Tags
  <2> HIDE DEF mid
  <2>2. \A h, c : OnList(after, h, c) = OnList(mid, h, c)
    BY <1>n, ListsAlone, Tags
  <2>3. QED
    BY <2>1, <2>2
<1> HIDE DEF mid, after
<1>k. \A f, m, tag : Owns(owner, f, m, tag) /\ tag # RestTag => Owns(after, f, m, tag)
  BY <1>m, <1>o
<1>r. \A q \in Procs : pc[q] = "advance" => q # p /\ this[q] # a /\ this[q] \in 1 .. HeapSize
  BY <1>1, <1>a, <1>g DEF InHand
<1>2. OwnReads'
  <2> SUFFICES ASSUME NEW q \in Procs
               PROVE  /\ pc'[q] = "pop" => at'[q] = head'[Mine(q)][req'[q]]
                      /\ pc'[q] = "put" => next'[at'[q]] = head'[Mine(q)][req'[q]]
                      /\ pc'[q] = "advance" =>
                           this'[q] = current'[Mine(q)] /\ at'[q] = arena'[this'[q]].space
    BY <1>b DEF OwnReads
  <2>1. CASE q = p
    BY <2>1, <1>1
  <2>2. CASE q # p
    BY <2>2, <1>1, <1>a, <1>b, <1>c, <1>r DEF OwnReads
  <2>3. QED
    BY <2>1, <2>2
<1>3. OwnCurrent' /\ OneTemp'
  <2>1. \A h \in HeapIds : current[h] # a
    BY <1>0, <1>a, <1>g DEF Made
  <2>2. OwnCurrent'
    BY <1>1, <1>a, <2>1 DEF OwnCurrent
  <2>3. OneTemp'
    BY <1>1, <1>a, <1>c DEF OneTemp
  <2>4. QED
    BY <2>2, <2>3
<1>4. ObjectsOwn(after)'
  <2> SUFFICES /\ \A q \in Procs : \A b \in held'[q] :
                    b[1] < TempBase => Owns(after, b[1], Size[b[2]], HeldTag(q, b))
               /\ \A q \in Procs : pc'[q] \in InHandAt => Owns(after, at'[q], Size[req'[q]], HandTag(q))
    BY DEF ObjectsOwn
  <2>1. ASSUME NEW q \in Procs, NEW b \in held'[q], b[1] < TempBase
        PROVE  Owns(after, b[1], Size[b[2]], HeldTag(q, b))
    <3>1. Owns(owner, b[1], Size[b[2]], HeldTag(q, b))
      BY <1>1, <1>f, <2>1 DEF ObjectsOwn
    <3>2. QED
      BY <1>k, <3>1, Tags
  <2>2. ASSUME NEW q \in Procs, pc'[q] \in InHandAt
        PROVE  Owns(after, at'[q], Size[req'[q]], HandTag(q))
    <3>1. CASE q = p
      BY <1>1, <2>2, <3>1 DEF InHandAt
    <3>2. CASE q # p
      <4>1. Owns(owner, at[q], Size[req[q]], HandTag(q))
        BY <1>c, <1>f, <2>2, <3>2 DEF ObjectsOwn
      <4>2. QED
        BY <1>c, <1>k, <3>2, <4>1, Tags
    <3>3. QED
      BY <3>1, <3>2
  <2>3. QED
    BY <2>1, <2>2
<1>5. FreeOwn(after)'
  <2> SUFFICES ASSUME NEW h \in HeapIds, NEW c \in Classes
               PROVE  /\ \A x \in OnList(after, h, c) :
                           /\ Owns(after, x, Size[c], FreeTag(h, <<x, c>>))
                           /\ next'[x] # 0 =>
                                /\ next'[x] \in OnList(after, h, c)
                                /\ next'[x] # head'[h][c]
                                /\ \A b \in OnList(after, h, c) : next'[b] = next'[x] => b = x
                      /\ head'[h][c] # 0 => head'[h][c] \in OnList(after, h, c)
    BY DEF FreeOwn
  <2>2. ASSUME NEW x \in OnList(owner, h, c)
        PROVE  Owns(after, x, Size[c], FreeTag(h, <<x, c>>))
    <3>1. Owns(owner, x, Size[c], FreeTag(h, <<x, c>>))
      BY <1>f DEF FreeOwn
    <3>2. QED
      BY <1>k, <3>1, Tags
  <2>3. QED
    BY <1>1, <1>f, <1>q, <2>2 DEF FreeOwn
<1>6. ArenasOwn(after)'
  <2> SUFFICES /\ \A b \in 1 .. HeapSize : Exists(b)' =>
                    /\ Owns(after, b, ArenaHdr, RecordTag(b))
                    /\ (\A q \in Procs : pc'[q] = "advance" => this'[q] # b) =>
                         Owns(after, arena'[b].space, arena'[b].left, SpaceTag(b))
               /\ \A q \in Procs : pc'[q] = "advance" =>
                    Owns(after, at'[q] + Size[req'[q]], arena'[this'[q]].left, SpaceTag(this'[q]))
               /\ Owns(after, position', HeapSize + 1 - position', RestTag)
               /\ \A q \in Procs : pc'[q] = "unlock" =>
                    Owns(after, at'[q], HeapSize + 1 - at'[q], RestTag)
    BY DEF ArenasOwn
  <2>1. \A b \in 1 .. HeapSize : b # a => Exists(b)' = Exists(b)
    BY <1>1 DEF Exists
  <2>2. \A q \in Procs : pc'[q] = "advance" <=> pc[q] = "advance"
    BY <1>1, <1>c
  <2>3. ASSUME NEW b \in 1 .. HeapSize, Exists(b)'
        PROVE  /\ Owns(after, b, ArenaHdr, RecordTag(b))
               /\ (\A q \in Procs : pc'[q] = "advance" => this'[q] # b) =>
                    Owns(after, arena'[b].space, arena'[b].left, SpaceTag(b))
    <3>1. CASE b = a
      BY <1>1, <1>m, <1>o, <3>1, Tags
    <3>2. CASE b # a
      <4>1. /\ Owns(owner, b, ArenaHdr, RecordTag(b))
            /\ (\A q \in Procs : pc'[q] = "advance" => this'[q] # b) =>
                 Owns(owner, arena[b].space, arena[b].left, SpaceTag(b))
        BY <1>1, <1>f, <2>1, <2>2, <2>3, <3>2 DEF ArenasOwn
      <4>2. QED
        BY <1>1, <1>k, <3>2, <4>1, Tags
    <3>3. QED
      BY <3>1, <3>2
  <2>4. ASSUME NEW q \in Procs, pc'[q] = "advance"
        PROVE  Owns(after, at'[q] + Size[req'[q]], arena'[this'[q]].left, SpaceTag(this'[q]))
    <3>1. Owns(owner, at[q] + Size[req[q]], arena[this[q]].left, SpaceTag(this[q]))
      BY <1>f, <2>2, <2>4 DEF ArenasOwn
    <3>2. QED
      BY <1>1, <1>k, <1>r, <2>2, <2>4, <3>1, Tags
  <2>5. \A q \in Procs : pc'[q] # "unlock"
    BY <1>1, <1>c, <1>h DEF Holding
  <2>6. QED
    BY <1>1, <1>p, <2>3, <2>4, <2>5
<1>7. Shared(after)'
  BY <1>4, <1>5, <1>6 DEF Shared
<1>8. QED
  BY <1>2, <1>3, <1>7 DEF OwnInv

-----------------------------------------------------------------------------
(* The invariant                                                           *)

\* No step gives a unit two owners.
LEMMA OwnersStep ==
  ASSUME Bounded, PagesInv, OwnHeaps, OwnInv, initialized, initialized', NEW p \in Procs, Step(p)
  PROVE  OwnInv'
<1>a. TypeOK /\ OneTemp
  BY DEF Bounded, OwnInv
<1>1. ASSUME SourceExhausted(p) \/ End(p)
      PROVE  FALSE
  BY <1>1 DEF SourceExhausted, End
<1>2. ASSUME TempTake(p) \/ TempExhausted(p) \/ TempAdd(p)
      PROVE  FALSE
  BY <1>2, <1>a DEF TempTake, TempExhausted, TempAdd, OneTemp
<1>3. QED
  BY <1>a, <1>1, <1>2, QuietOwners, PositionOwners, LinkOwners, AdvanceOwners, ReturnOwners,
     FreeOwners, PopOwners, PutOwners, CarveOwners, ArenaOwners DEF Step, AllocStep

\* At the start the heap is no one's.
LEMMA InvInit == Init => Inv
<1> SUFFICES ASSUME Init
             PROVE  Inv
  OBVIOUS
<1>a. HeapSize \in Nat
  BY HeapAssumption
<1>1. Bounded
  BY BoundedInit
<1>2. \A a \in 1 .. HeapSize : ~Exists(a)
  BY DEF Init, Exists
<1>3. \A p \in Procs : pc[p] = "run"
  BY DEF Init
<1>4. PagesInv
  BY <1>2, <1>3 DEF PagesInv, Holding
<1>5. OwnReads /\ OwnCurrent
  BY <1>3 DEF Init, OwnReads, OwnCurrent
<1>6. PICK p \in Procs, early \in EarlyBlocks : held = [q \in Procs |-> IF q = p THEN early ELSE {}]
  BY DEF Init
<1>7. \A q \in Procs : \A b \in held[q] : q = p /\ b \in early
  BY <1>6
<1>8. \A b, d \in early : b = d /\ b[1] = TempBase
  BY DEF EarlyBlocks
<1>9. OneTemp
  BY <1>3, <1>7, <1>8 DEF OneTemp
<1> DEFINE owner == [x \in 1 .. HeapSize |-> RestTag]
<1>10. ObjectsOwn(owner)
  <2>1. \A q \in Procs : \A b \in held[q] : ~(b[1] < TempBase)
    BY <1>a, <1>7, <1>8 DEF TempBase
  <2>2. QED
    BY <1>3, <2>1 DEF ObjectsOwn, InHandAt
<1>11. FreeOwn(owner)
  <2>1. \A h, c : OnList(owner, h, c) = {}
    BY Tags DEF OnList
  <2> HIDE DEF owner
  <2>2. QED
    BY <2>1 DEF FreeOwn, Init
<1>12. ArenasOwn(owner)
  <2>1. Owns(owner, position, HeapSize + 1 - position, RestTag)
    BY <1>a DEF Owns, Init
  <2> HIDE DEF owner
  <2>2. QED
    BY <1>2, <1>3, <2>1 DEF ArenasOwn
<1>13. QED
  BY <1>1, <1>4, <1>5, <1>9, <1>10, <1>11, <1>12 DEF Inv, OwnInv, Shared

\* The invariant is inductive.
LEMMA InvStep == Inv /\ [Next]_vars => Inv'
<1> SUFFICES ASSUME Inv, [Next]_vars
             PROVE  Inv'
  OBVIOUS
<1>1. Bounded'
  BY BoundedStep DEF Inv
<1>2. CASE Next
  <2>1. PICK p \in Procs : Step(p)
    BY <1>2 DEF Next, Step
  <2>2. Local(p)
    BY <2>1, Locality DEF Inv, Bounded
  <2>3. initialized' => initialized
    BY <2>1 DEF Step, AllocStep, MallocCall, FreeCall, FreeAborts, ListGet, ListPop, ListLink, ListPut,
                ZoneMalloc, ZoneAbort, ArenaCarve, ArenaAdvance, DropArena, SourceLock, SourceContend,
                SourceTake, SourceExhausted, SourceAdvance, NewArena, TempTake, TempExhausted, TempAdd,
                MallocReturn, End, progVars
  <2>4. OwnHeaps' = OwnHeaps
    BY <2>2 DEF Local, OwnHeaps, Mine
  <2>5. initialized' => PagesInv'
    BY <2>1, <2>3, PagesStep DEF Inv
  <2>6. initialized' /\ OwnHeaps' => OwnInv'
    BY <2>1, <2>3, <2>4, OwnersStep DEF Inv
  <2>7. QED
    BY <1>1, <2>5, <2>6 DEF Inv
<1>3. CASE UNCHANGED vars
  <2> USE <1>3 DEF vars, sourceVars, zoneVars, listVars, progVars, callVars, mutexVars
  <2>1. PagesInv' = PagesInv
    BY DEF PagesInv, Exists
  <2>2. OwnHeaps' = OwnHeaps
    BY DEF OwnHeaps, Mine
  <2>3. OwnReads' = OwnReads /\ OwnCurrent' = OwnCurrent /\ OneTemp' = OneTemp
    BY DEF OwnReads, OwnCurrent, OneTemp, Mine
  <2>4. ASSUME NEW owner, Shared(owner)
        PROVE  Shared(owner)'
    BY <2>4 DEF Shared, ObjectsOwn, FreeOwn, ArenasOwn, Exists
  <2>5. OwnInv => OwnInv'
    BY <2>3, <2>4 DEF OwnInv
  <2>6. QED
    BY <1>1, <2>1, <2>2, <2>5 DEF Inv
<1>4. QED
  BY <1>2, <1>3

\* The invariant holds always.
THEOREM HeapInvariance == Spec => []Inv
BY InvInit, InvStep, PTL DEF Spec

-----------------------------------------------------------------------------
(* What it implies                                                         *)

\* Objects of the program lie in the heap, or behind it in the buffer of
\* tempmalloc.
LEMMA WhereHeld ==
  ASSUME Bounded, NEW owner, ObjectsOwn(owner), NEW p \in Procs, NEW b \in held[p]
  PROVE  /\ b[1] \in Nat /\ Size[b[2]] \in Nat \ {0}
         /\ b[1] < TempBase => Owns(owner, b[1], Size[b[2]], HeldTag(p, b)) /\ Span(b) \subseteq 1 .. HeapSize
         /\ b[1] >= TempBase => Span(b) \cap (1 .. HeapSize) = {}
<1>1. b \in Addr \X Classes
  BY DEF Bounded, TypeOK
<1>2. b[1] \in Nat /\ Size[b[2]] \in Nat \ {0} /\ HeapSize \in Nat
  BY <1>1, HeapAssumption DEF Addr
<1>3. b[1] < TempBase => Owns(owner, b[1], Size[b[2]], HeldTag(p, b))
  BY DEF ObjectsOwn
<1>4. b[1] < TempBase => Span(b) \subseteq 1 .. HeapSize
  BY <1>3 DEF Owns, Span
<1>5. b[1] >= TempBase => Span(b) \cap (1 .. HeapSize) = {}
  BY <1>2 DEF Span, TempBase
<1>6. QED
  BY <1>2, <1>3, <1>4, <1>5

\* With a heap to each process no two objects in use share memory
\* (xpheap.h:124), however often blocks wander between the heaps.
THEOREM NothingGivenTwice == Spec => []OwnDisjoint
<1>1. ASSUME Inv
      PROVE  OwnDisjoint
  <2> SUFFICES ASSUME initialized, OwnHeaps
               PROVE  Disjoint
    BY DEF OwnDisjoint
  <2>a. Bounded /\ OneTemp
    BY <1>1 DEF Inv, OwnInv
  <2>b. PICK owner : ObjectsOwn(owner)
    BY <1>1 DEF Inv, OwnInv, Shared
  <2>1. ASSUME NEW p \in Procs, NEW q \in Procs, NEW b \in held[p], NEW d \in held[q], <<p, b>> # <<q, d>>
        PROVE  Apart(b, d)
    <3>1. CASE b[1] < TempBase /\ d[1] < TempBase
      <4>1. HeldTag(p, b) # HeldTag(q, d)
        BY <2>1, Tags
      <4>2. QED
        BY <2>a, <2>b, <3>1, <4>1, WhereHeld, OwnersApart DEF Apart, Span
    <3>2. CASE b[1] >= TempBase /\ d[1] >= TempBase
      BY <2>a, <2>1, <3>2 DEF OneTemp
    <3>3. CASE b[1] < TempBase /\ d[1] >= TempBase
      BY <2>a, <2>b, <3>3, WhereHeld DEF Apart
    <3>4. CASE b[1] >= TempBase /\ d[1] < TempBase
      BY <2>a, <2>b, <3>4, WhereHeld DEF Apart
    <3>5. TempBase \in Nat /\ b[1] \in Nat /\ d[1] \in Nat
      BY <2>a, <2>b, WhereHeld, HeapAssumption DEF TempBase
    <3>6. QED
      BY <3>1, <3>2, <3>3, <3>4, <3>5
  <2>2. ASSUME NEW p \in Procs, pc[p] = "done"
        PROVE  /\ Owns(owner, at[p], Size[req[p]], HandTag(p))
               /\ Span(Returning(p)) = at[p] .. at[p] + Size[req[p]] - 1
               /\ Span(Returning(p)) \subseteq 1 .. HeapSize
    BY <2>b, <2>2 DEF ObjectsOwn, InHandAt, Span, Returning, Owns
  <2>3. ASSUME NEW p \in Procs, pc[p] = "done", NEW q \in Procs, NEW d \in held[q]
        PROVE  Apart(Returning(p), d)
    <3>1. CASE d[1] < TempBase
      <4>1. Owns(owner, d[1], Size[d[2]], HeldTag(q, d)) /\ HeldTag(q, d) # HandTag(p)
        BY <2>a, <2>b, <3>1, WhereHeld, Tags
      <4>2. Span(d) = d[1] .. d[1] + Size[d[2]] - 1
        BY DEF Span
      <4>3. Owns(owner, at[p], Size[req[p]], HandTag(p)) /\ HandTag(p) # HeldTag(q, d)
        BY <2>2, <2>3, <4>1
      <4>4. (at[p] .. at[p] + Size[req[p]] - 1) \cap (d[1] .. d[1] + Size[d[2]] - 1) = {}
        BY <4>1, <4>3, OwnersApart
      <4>5. QED
        BY <2>2, <2>3, <4>2, <4>4 DEF Apart
    <3>2. CASE d[1] >= TempBase
      BY <2>a, <2>b, <2>2, <2>3, <3>2, WhereHeld DEF Apart
    <3>3. TempBase \in Nat /\ d[1] \in Nat
      BY <2>a, <2>b, WhereHeld, HeapAssumption DEF TempBase
    <3>4. QED
      BY <3>1, <3>2, <3>3
  <2>4. ASSUME NEW p \in Procs, pc[p] = "done", NEW q \in Procs \ {p}, pc[q] = "done"
        PROVE  Apart(Returning(p), Returning(q))
    <3>1. HandTag(p) # HandTag(q)
      BY Tags
    <3>2. QED
      <4>1. Owns(owner, at[p], Size[req[p]], HandTag(p)) /\ Owns(owner, at[q], Size[req[q]], HandTag(q))
        BY <2>2, <2>4
      <4>2. (at[p] .. at[p] + Size[req[p]] - 1) \cap (at[q] .. at[q] + Size[req[q]] - 1) = {}
        BY <3>1, <4>1, OwnersApart
      <4>3. QED
        BY <2>2, <2>4, <4>2 DEF Apart
  <2>5. QED
    BY <2>1, <2>3, <2>4 DEF Disjoint
<1>2. QED
  BY <1>1, HeapInvariance, PTL

\* With a heap to each process no object in use reaches into an Arena record or
\* into space an arena has still to give out (zoneheap.h:92).
THEOREM ArenasStayClear == Spec => []ArenaClear
<1>1. ASSUME Inv
      PROVE  ArenaClear
  <2> SUFFICES ASSUME initialized, OwnHeaps,
                      NEW a \in 1 .. HeapSize, NEW p \in Procs, NEW b \in held[p], Exists(a),
                      NEW x \in Span(b),
                      x \in a .. a + ArenaHdr - 1 \/ x \in arena[a].space .. arena[a].space + arena[a].left - 1
               PROVE  FALSE
    BY DEF ArenaClear, Exists
  <2>a. Bounded /\ TypeOK /\ InHand /\ OwnReads
    BY <1>1 DEF Inv, OwnInv, Bounded
  <2>b. PICK owner : ObjectsOwn(owner) /\ ArenasOwn(owner)
    BY <1>1 DEF Inv, OwnInv, Shared
  <2>c. arena[a].left \in Nat /\ arena[a].space \in Nat
    <3>1. arena[a] \in [left : 0 .. HeapSize, space : 0 .. HeapSize + 1]
      BY <2>a DEF TypeOK
    <3>2. QED
      BY <3>1, HeapAssumption
  <2>1. x \in 1 .. HeapSize /\ \E t : owner[x] = t /\ (t = RecordTag(a) \/ t = SpaceTag(a) \/ \E q : t = HandTag(q))
    <3>1. CASE x \in a .. a + ArenaHdr - 1
      BY <2>b, <3>1 DEF ArenasOwn, Owns
    <3>2. CASE /\ x \in arena[a].space .. arena[a].space + arena[a].left - 1
               /\ \A q \in Procs : pc[q] = "advance" => this[q] # a
      BY <2>b, <3>2 DEF ArenasOwn, Owns
    <3>3. ASSUME x \in arena[a].space .. arena[a].space + arena[a].left - 1,
                 NEW q \in Procs, pc[q] = "advance", this[q] = a
          PROVE  x \in 1 .. HeapSize /\ (owner[x] = SpaceTag(a) \/ owner[x] = HandTag(q))
      <4>1. at[q] = arena[a].space /\ Size[req[q]] \in Nat
        BY <2>a, <3>3, HeapAssumption DEF OwnReads, TypeOK
      <4>2. Owns(owner, at[q], Size[req[q]], HandTag(q))
        BY <2>b, <3>3 DEF ObjectsOwn, InHandAt
      <4>3. Owns(owner, at[q] + Size[req[q]], arena[a].left, SpaceTag(a))
        BY <2>b, <3>3 DEF ArenasOwn
      <4>4. x \in at[q] .. at[q] + Size[req[q]] - 1
            \/ x \in at[q] + Size[req[q]] .. at[q] + Size[req[q]] + arena[a].left - 1
        BY <2>c, <3>3, <4>1
      <4>5. QED
        BY <4>2, <4>3, <4>4 DEF Owns
    <3>4. QED
      BY <3>1, <3>2, <3>3
  <2>2. b[1] < TempBase
    BY <2>a, <2>b, <2>1, WhereHeld, HeapAssumption DEF TempBase
  <2>3. owner[x] = HeldTag(p, b)
    BY <2>b, <2>2 DEF ObjectsOwn, Owns, Span
  <2>4. QED
    BY <2>1, <2>3, Tags
<1>2. QED
  BY <1>1, HeapInvariance, PTL

\* While the library is up, the pages xheap::malloc is handing to a process hold
\* nothing of anyone else's (xheap.h:151): no Arena record and no other pages,
\* and with a heap to each process no object in use.
THEOREM PagesGivenOnce == Spec => []PagesOnce
<1>1. ASSUME Inv
      PROVE  PagesOnce
  <2> SUFFICES ASSUME initialized, NEW p \in Procs, pc[p] \in {"taken", "unlock"}
               PROVE  LET pages == at[p] .. at[p] + Request(req[p]) - 1
                      IN  /\ \A a \in pages : arena[a].space = 0
                          /\ \A q \in Procs \ {p} : pc[q] \in {"taken", "unlock"} => at[q] \notin pages
                          /\ OwnHeaps => \A q \in Procs : \A d \in held[q] : Span(d) \cap pages = {}
    BY DEF PagesOnce
  <2> DEFINE n == Request(req[p])
             pages == at[p] .. at[p] + n - 1
  <2>a. Bounded /\ TypeOK /\ InHand /\ Budget /\ PagesInv
    BY <1>1 DEF Inv, Bounded
  <2>b. /\ n \in Nat \ {0} /\ position \in 1 .. HeapSize + 1 /\ remaining \in Nat
        /\ at[p] \in 1 .. HeapSize /\ HeapSize \in Nat
    BY <2>a, RequestFacts, HeapAssumption DEF TypeOK, InHand
  <2>1. at[p] + n <= HeapSize + 1
    <3>1. CASE pc[p] = "taken"
      <4>1. Taken \in Amounts /\ Taken[p] = n
        BY <2>a, <3>1, AmountTypes DEF Taken
      <4>2. n <= Sum(Taken) /\ Sum(Taken) \in Nat
        BY <4>1, SumBounds, SumType
      <4>3. position + remaining + Sum(Taken) = HeapSize + 1 /\ at[p] = position
        BY <2>a, <3>1 DEF Budget, PagesInv
      <4>4. QED
        BY <2>b, <4>2, <4>3
    <3>2. CASE pc[p] = "unlock"
      BY <2>a, <2>b, <3>2 DEF PagesInv
    <3>3. QED
      BY <3>1, <3>2
  <2>2. \A a \in 1 .. HeapSize : Exists(a) => a < at[p]
    BY <2>a DEF PagesInv
  <2>3. ASSUME NEW a \in pages
        PROVE  arena[a].space = 0
    <3>1. a \in 1 .. HeapSize /\ ~(a < at[p])
      BY <2>b, <2>1
    <3>2. arena[a] \in [left : 0 .. HeapSize, space : 0 .. HeapSize + 1]
      BY <2>a, <3>1 DEF TypeOK
    <3>3. arena[a].space \in Nat
      BY <2>b, <3>2
    <3>4. QED
      BY <2>2, <3>1, <3>3 DEF Exists
  <2>4. \A q \in Procs \ {p} : pc[q] \notin {"taken", "unlock"}
    BY <2>a DEF PagesInv, Holding
  <2>5. ASSUME OwnHeaps, NEW q \in Procs, NEW d \in held[q]
        PROVE  Span(d) \cap pages = {}
    <3>1. PICK owner : ObjectsOwn(owner) /\ ArenasOwn(owner)
      BY <1>1, <2>5 DEF Inv, OwnInv, Shared
    <3>2. Owns(owner, at[p], HeapSize + 1 - at[p], RestTag)
      BY <2>a, <3>1 DEF ArenasOwn, PagesInv
    <3>3. \A x \in pages : x \in 1 .. HeapSize /\ owner[x] = RestTag
      BY <2>b, <2>1, <3>2 DEF Owns
    <3>4. CASE d[1] < TempBase
      <4>1. \A x \in Span(d) : owner[x] = HeldTag(q, d)
        BY <3>1, <3>4 DEF ObjectsOwn, Owns, Span
      <4>2. QED
        BY <3>3, <4>1, Tags
    <3>5. CASE d[1] >= TempBase
      BY <2>a, <3>1, <3>3, <3>5, WhereHeld
    <3>6. TempBase \in Nat /\ d[1] \in Nat
      BY <2>a, <3>1, WhereHeld, HeapAssumption DEF TempBase
    <3>7. QED
      BY <3>4, <3>5, <3>6
  <2>6. QED
    BY <2>3, <2>4, <2>5
<1>2. QED
  BY <1>1, HeapInvariance, PTL

\* With a heap to each process no step writes a link or an Arena record into an
\* object that stays in use (sllist.h:79, zoneheap.h:115).
THEOREM ObjectsAreNotWritten == Spec => NotWritten
<1> DEFINE Kept == initialized /\ OwnHeaps =>
       \A p \in Procs : \A b \in held[p] \cap held'[p] :
         \A a \in Span(b) \cap 1 .. HeapSize : next'[a] = next[a] /\ arena'[a] = arena[a]
<1>1. ASSUME Inv, [Next]_vars
      PROVE  [Kept]_vars
  <2> SUFFICES ASSUME Next, initialized, OwnHeaps, NEW p \in Procs, NEW b \in held[p],
                      NEW a \in Span(b), a \in 1 .. HeapSize
               PROVE  next'[a] = next[a] /\ arena'[a] = arena[a]
    BY <1>1
  <2>a. Bounded /\ TypeOK /\ InHand /\ Made
    BY <1>1 DEF Inv, Bounded
  <2>b. PICK owner : ObjectsOwn(owner) /\ ArenasOwn(owner)
    BY <1>1 DEF Inv, OwnInv, Shared
  <2>c. HeapSize \in Nat /\ ArenaHdr \in Nat \ {0} /\ \A q \in Procs : Size[req[q]] \in Nat \ {0}
    BY <2>a, HeapAssumption DEF TypeOK
  <2>1. owner[a] = HeldTag(p, b)
    <3>1. b[1] < TempBase
      BY <2>a, <2>b, WhereHeld, HeapAssumption DEF TempBase
    <3>2. QED
      BY <2>b, <3>1 DEF ObjectsOwn, Owns, Span
  <2>2. \A x \in 1 .. HeapSize : Exists(x) => x # a
    <3>1. \A x \in 1 .. HeapSize : Exists(x) => owner[x] = RecordTag(x)
      BY <2>b, <2>c DEF ArenasOwn, Owns
    <3>2. QED
      BY <2>1, <3>1, Tags
  <2>3. \A q \in Procs : pc[q] = "link" => at[q] # a
    <3>1. \A q \in Procs : pc[q] = "link" => owner[at[q]] = HandTag(q)
      BY <2>a, <2>b, <2>c DEF ObjectsOwn, Owns, InHandAt, InHand
    <3>2. QED
      BY <2>1, <3>1, Tags
  <2>4. \A q \in Procs : pc[q] = "unlock" => at[q] # a
    <3>1. \A q \in Procs : pc[q] = "unlock" => owner[at[q]] = RestTag
      BY <2>a, <2>b, <2>c DEF ArenasOwn, Owns, InHand
    <3>2. QED
      BY <2>1, <3>1, Tags
  <2>5. PICK q \in Procs : Step(q)
    BY DEF Next, Step
  <2> USE DEF Goto, Keep, Return, sourceVars, zoneVars, listVars, progVars, callVars, mutexVars
  <2>6. CASE ListLink(q)
    BY <2>a, <2>3, <2>6 DEF ListLink, TypeOK
  <2>7. CASE ArenaCarve(q)
    <3>1. current[Mine(q)] # a
      BY <2>a, <2>2, MineType DEF Made, TypeOK
    <3>2. QED
      BY <2>a, <2>7, <3>1 DEF ArenaCarve, TypeOK
  <2>8. CASE ArenaAdvance(q)
    <3>1. this[q] # a
      BY <2>a, <2>2, <2>8 DEF InHand, ArenaAdvance
    <3>2. QED
      BY <2>a, <2>8, <3>1 DEF ArenaAdvance, TypeOK
  <2>9. CASE NewArena(q)
    BY <2>a, <2>4, <2>9 DEF NewArena, TypeOK
  <2>10. CASE ~(ListLink(q) \/ ArenaCarve(q) \/ ArenaAdvance(q) \/ NewArena(q))
    <3>1. UNCHANGED <<next, arena>>
      BY <2>5, <2>10
         DEF Step, AllocStep, MallocCall, FreeCall, FreeAborts, ListGet, ListPop, ListPut, ZoneMalloc,
             ZoneAbort, DropArena, SourceLock, SourceContend, SourceTake, SourceExhausted, SourceAdvance,
             TempTake, TempExhausted, TempAdd, MallocReturn, End
    <3>2. QED
      BY <3>1
  <2>11. QED
    BY <2>6, <2>7, <2>8, <2>9, <2>10
<1>2. QED
  BY <1>1, HeapInvariance, PTL DEF Spec, NotWritten

=============================================================================

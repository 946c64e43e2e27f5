---------------------------- MODULE HashMapProofs ----------------------------
(***************************************************************************)
(* Theorems about HashMap: for any number of processes, buckets, keys and  *)
(* entries.                                                                *)
(***************************************************************************)
EXTENDS HashMap, ListProofs, FiniteSetTheorems

\* Steps between Lock and Unlock
Locked == {"first", "count", "scan", "hit", "miss", "link", "counted", "reinit", "uncount"}
Holds(p) == op[p] \in Locking /\ pc[p] \in Locked

\* Steps at which the count does not go with the list
Moving == {"counted", "reinit", "uncount"}

\* Which steps belong to which call
OnPath(p) ==
  /\ op[p] = "insert" => plain /\ pc[p] \in {"lock", "miss", "link", "counted"}
  /\ op[p] = "insertIfAbsent" =>
       pc[p] \in {"lock", "first", "count", "scan", "hit", "miss", "link", "counted"}
  /\ op[p] = "erase" =>
       pc[p] \in {"lock", "first", "count", "scan", "hit", "miss", "reinit", "uncount"}
  /\ op[p] = "find" => pc[p] \in {"idle", "first", "count", "scan", "hit", "miss"}
  /\ op[p] = "iterate" => pc[p] \in {"seek", "visit", "end"}
  /\ pc[p] = "visit" => pos[p] \in Buckets
Paths == \A p \in Procs : OnPath(p)

\* The lock of a bucket is with the one process that is between Lock and Unlock.
Locks == \A p \in Procs, b \in Buckets : lock[b] = p <=> Holds(p) /\ B(p) = b

\* A find that nobody has disturbed, in a bucket whose count tells its length
Undisturbed(p) ==
  op[p] = "find" /\ pc[p] # "idle" /\ p \notin disturbed /\ B(p) \notin spoiled

\* Nobody is changing the bucket it reads.
Quiet ==
  \A p, q \in Procs : Undisturbed(p) /\ pc[q] \in Moving => B(q) # B(p)

\* r[b] holds the n[b] entries of bucket b between its head and its head.
Lists(n, r) ==
  /\ \A b \in Buckets : Ring(h, b, n[b], r[b])
  /\ \A b \in Buckets : \A i \in 1 .. n[b] : r[b][i] \in used /\ Hash[key[r[b][i]]] = b

\* An entry in hand is in use and in no list; every other entry in use is in one.
Hands(n, r) ==
  /\ \A p \in Procs : pc[p] \in {"link", "reinit"} =>
       /\ at[p] \in used /\ Hash[key[at[p]]] = B(p)
       /\ \A b \in Buckets : \A i \in 0 .. n[b] : r[b][i] # at[p]
       /\ pc[p] = "link" => key[at[p]] = arg[p]
  /\ \A e \in used :
       \/ \E i \in 1 .. n[Hash[key[e]]] : r[Hash[key[e]]][i] = e
       \/ \E p \in Procs : pc[p] \in {"link", "reinit"} /\ at[p] = e

\* What the count of bucket b says of a list of k entries
Says(b, k) ==
  /\ count[b] <= k \/ count[b] >= Word \div 2
  /\ b \notin spoiled => count[b] = k

Counts(n) ==
  /\ \A b \in Buckets : (\A p \in Procs : pc[p] \in Moving => B(p) # b) => Says(b, n[b])
  /\ \A p \in Procs :
       /\ pc[p] = "counted" => n[B(p)] >= 1 /\ Says(B(p), n[B(p)] - 1)
       /\ pc[p] = "reinit" => count[B(p)] \in 1 .. n[B(p)] + 1
       /\ pc[p] = "uncount" => count[B(p)] <= n[B(p)] + 1 \/ count[B(p)] > Word \div 2
       /\ pc[p] \in {"reinit", "uncount"} /\ B(p) \notin spoiled => count[B(p)] = n[B(p)] + 1

\* A search that may rely on the list
Steady(p) == op[p] \in {"insertIfAbsent", "erase"} \/ Undisturbed(p)

\* Where the search of p is, and what it has not met
Sought(n, r, p) ==
  LET b == B(p) IN
    /\ pc[p] = "count" => at[p] = r[b][1]
    /\ pc[p] = "scan" =>
         \E i \in 1 .. n[b] + 1 :
           /\ at[p] = r[b][i]
           /\ left[p] + i - 1 = AsInt(count[b])
           /\ \A k \in 1 .. i - 1 : key[r[b][k]] # arg[p]
    /\ pc[p] = "hit" =>
         \E i \in 1 .. n[b] : at[p] = r[b][i] /\ i <= AsInt(count[b]) /\ key[r[b][i]] = arg[p]
    /\ pc[p] = "miss" =>
         \A k \in 1 .. n[b] : k <= AsInt(count[b]) => key[r[b][k]] # arg[p]
Searches(n, r) == \A p \in Procs : Steady(p) => Sought(n, r, p)

\* A key is in a bucket once, and one about to be linked is not there yet.
Once(n, r) ==
  ~plain =>
    /\ \A b \in Buckets \ spoiled : \A i, k \in 1 .. n[b] :
         key[r[b][i]] = key[r[b][k]] => i = k
    /\ \A p \in Procs : pc[p] = "link" /\ B(p) \notin spoiled =>
         \A j \in 1 .. n[B(p)] : key[r[B(p)][j]] # arg[p]

\* The invariant: some lists are there.
Ghosts(n, r) == n \in [Buckets -> Nat] /\ r \in [Buckets -> [Nat -> Nodes]]
Shape(n, r) ==
  Ghosts(n, r) /\ Lists(n, r) /\ Hands(n, r) /\ Counts(n) /\ Searches(n, r) /\ Once(n, r)
Inv == TypeOK /\ Paths /\ Locks /\ Quiet /\ \E n, r : Shape(n, r)

-----------------------------------------------------------------------------
(* Types, and who holds which lock *)

\* What the constants give.
LEMMA Constants ==
  /\ _buckets \in Nat \ {0} /\ Buckets = 0 .. _buckets - 1 /\ 0 \in Buckets
  /\ Hash \in [Keys -> Buckets] /\ AnyKey \in Keys
  /\ Word \in Nat /\ Word \div 2 \in Nat /\ Cardinality(Entries) \in Nat
  /\ Word \div 2 > Cardinality(Entries) /\ Word > Word \div 2
  /\ Entries \cap Buckets = {} /\ Nobody \notin Procs
<1>1. Cardinality(Entries) \in Nat
  BY HashMapAssumption, FS_CardinalityType
<1>2. \E k \in Keys : TRUE
  BY HashMapAssumption
<1>3. AnyKey \in Keys
  BY <1>2 DEF AnyKey
<1>4. QED
  BY <1>1, <1>3, HashMapAssumption DEF Buckets

\* Counting up and down wraps at the ends of a word and nowhere else.
LEMMA Wraps ==
  ASSUME NEW c \in 0 .. Word - 1
  PROVE  /\ (c + 1) % Word = IF c = Word - 1 THEN 0 ELSE c + 1
         /\ (c - 1) % Word = IF c = 0 THEN Word - 1 ELSE c - 1
<1>1. Word \in Nat /\ Word > 0
  BY Constants
<1>2. ASSUME NEW x \in 0 .. Word - 1 PROVE x % Word = x
  BY <1>1
<1>3. Word % Word = 0
  BY <1>1
<1>4. (0 - 1) % Word = Word - 1
  BY <1>1
<1>5. QED
  BY <1>1, <1>2, <1>3, <1>4

\* What the int of getEntry makes of a count
LEMMA IntOfCount ==
  ASSUME NEW c \in 0 .. Word - 1
  PROVE  AsInt(c) \in 0 .. Word /\ (AsInt(c) = c \/ AsInt(c) = 0) /\ (c < Word \div 2 => AsInt(c) = c)
         /\ (AsInt(c) > 0 => c < Word \div 2)
  BY Constants DEF AsInt

\* Bucket numbers and the operations of list.h have their types.
LEMMA Pointing ==
  ASSUME TypeOK
  PROVE  /\ Pointers(h, Nodes)
         /\ \A p \in Procs : B(p) \in Buckets /\ B(p) \in Nodes
         /\ \A p \in Procs : op[p] \in Locking \cup {"find", "iterate"}
  BY Constants DEF TypeOK, Pointers, B, Nodes

\* A step is about one process.
Local(p) ==
  \A q \in Procs : q # p =>
    /\ pc'[q] = pc[q] /\ op'[q] = op[q] /\ arg'[q] = arg[q] /\ at'[q] = at[q]
    /\ left'[q] = left[q] /\ pos'[q] = pos[q] /\ seen'[q] = seen[q] /\ B(q)' = B(q)
    /\ q \in disturbed => q \in disturbed'

\* The steps of one process, apart from those that write to a list or a count
Look(p) ==
  \/ \E o \in Locking \cup {"find"}, k \in Keys : Call(p, o, k)
  \/ Call(p, "iterate", AnyKey)
  \/ Take(p) \/ First(p) \/ Count(p) \/ Scan(p) \/ ScanEnd(p) \/ Answer(p)
  \/ Seek(p) \/ Visit(p) \/ IterationEnd(p)
Write(p) ==
  \/ \E e \in Entries : CreateNewEntry(p, e)
  \/ InsertEntry(p) \/ CountUp(p)
  \/ Unlink(p) \/ Reinit(p) \/ EraseAbsent(p) \/ CountDown(p)

\* Every step is a step of one process.
LEMMA Steps == Next <=> \E p \in Procs : Look(p) \/ Write(p)
  BY DEF Next, Look, Write

\* No step changes what another process holds in hand.
LEMMA Locality ==
  ASSUME TypeOK, NEW p \in Procs, Look(p) \/ Write(p)
  PROVE  Local(p)
<1> USE DEF TypeOK, Local, Goto, Return, B, mapVars, callVars, history, Disturb
<1>1. CASE Look(p)
  <2>1. ASSUME NEW o, NEW k, Call(p, o, k) PROVE Local(p)
    BY <2>1 DEF Call
  <2>2. CASE Take(p) \/ First(p) \/ Count(p) \/ ScanEnd(p) \/ Seek(p)
    BY <2>2 DEF Take, First, Count, ScanEnd, Seek
  <2>3. CASE Scan(p)
    BY <2>3 DEF Scan
  <2>4. CASE Answer(p) \/ Visit(p) \/ IterationEnd(p)
    BY <2>4 DEF Answer, Visit, IterationEnd
  <2>5. QED
    BY <1>1, <2>1, <2>2, <2>3, <2>4 DEF Look
<1>2. CASE Write(p)
  BY <1>2 DEF Write, CreateNewEntry, InsertEntry, CountUp, Unlink, Reinit, EraseAbsent, CountDown
<1>3. QED
  BY <1>1, <1>2

\* A call that is over leaves what it had in hand well typed.
LEMMA ReturnTypes ==
  ASSUME TypeOK, NEW p \in Procs, Return(p)
  PROVE  /\ pc' = [pc EXCEPT ![p] = "idle"] /\ op' \in [Procs -> Locking \cup {"find", "iterate"}]
         /\ arg' \in [Procs -> Keys] /\ at' \in [Procs -> Nodes] /\ left' \in [Procs -> 0 .. Word]
         /\ pos' \in [Procs -> 0 .. _buckets] /\ seen' \in [Procs -> Seq(Nodes)]
<1>1. AnyKey \in Keys /\ 0 \in Nodes /\ 0 \in 0 .. Word /\ 0 \in 0 .. _buckets /\ <<>> \in Seq(Nodes)
  BY Constants DEF Nodes
<1>2. /\ pc' = [pc EXCEPT ![p] = "idle"] /\ op' \in [Procs -> Locking \cup {"find", "iterate"}]
      /\ arg' \in [Procs -> Keys] /\ at' \in [Procs -> Nodes]
  BY <1>1 DEF TypeOK, Return, Goto
<1>3. left' \in [Procs -> 0 .. Word] /\ pos' \in [Procs -> 0 .. _buckets]
  BY <1>1 DEF TypeOK, Return
<1>4. seen' \in [Procs -> Seq(Nodes)]
  BY <1>1 DEF TypeOK, Return
<1>5. QED
  BY <1>2, <1>3, <1>4

\* Steps that look keep types.
LEMMA LookTypes ==
  ASSUME TypeOK, Paths, NEW p \in Procs, Look(p)
  PROVE  TypeOK'
<1> USE DEF TypeOK, Goto, Return, mapVars, callVars, history
<1>0. /\ B(p) \in Buckets /\ 0 \in Nodes /\ \A b \in Buckets : b \in Nodes
      /\ AnyKey \in Keys /\ _buckets \in Nat /\ Word \in Nat
  BY Constants, Pointing DEF Nodes
<1>1. ASSUME NEW o \in Locking \cup {"find", "iterate"}, NEW k \in Keys, Call(p, o, k) PROVE TypeOK'
  <2>1. pc'[p] \in {"lock", "first", "seek"} /\ disturbed' \subseteq Procs
    BY <1>1 DEF Call, Locking
  <2>2. QED
    BY <1>1, <2>1 DEF Call
<1>2. CASE Take(p)
  BY <1>0, <1>2 DEF Take
<1>3. CASE First(p)
  BY <1>0, <1>3 DEF First, Nodes
<1>4. CASE Count(p)
  <2>1. AsInt(count[B(p)]) \in 0 .. Word
    BY <1>0, IntOfCount
  <2>2. QED
    BY <1>4, <2>1 DEF Count
<1>5. CASE Scan(p)
  <2>1. left[p] \in 0 .. Word /\ left[p] > 0 /\ at[p] \in Nodes /\ h.next[at[p]] \in Nodes
    BY <1>5 DEF Scan
  <2>2. left[p] - 1 \in 0 .. Word
    BY <1>0, <2>1
  <2>3. UNCHANGED <<h, key, count, used, lock, op, arg, pos, seen, spoiled, plain, disturbed>>
    BY <1>5 DEF Scan
  <2>4. \/ pc' = [pc EXCEPT ![p] = "hit"] /\ at' = at /\ left' = left
        \/ pc' = pc /\ at' = [at EXCEPT ![p] = h.next[at[p]]] /\ left' = [left EXCEPT ![p] = left[p] - 1]
    BY <1>5 DEF Scan
  <2>5. at' \in [Procs -> Nodes] /\ left' \in [Procs -> 0 .. Word]
    <3>1. at \in [Procs -> Nodes] /\ left \in [Procs -> 0 .. Word]
      OBVIOUS
    <3> HIDE DEF TypeOK
    <3>2. at' \in [Procs -> Nodes]
      BY <2>1, <2>4, <3>1
    <3>3. left' \in [Procs -> 0 .. Word]
      BY <2>2, <2>4, <3>1
    <3>4. QED
      BY <3>2, <3>3
  <2>6. pc' = pc \/ pc' = [pc EXCEPT ![p] = "hit"]
    BY <2>4
  <2>7. QED
    BY <2>3, <2>5, <2>6
<1>6. CASE ScanEnd(p)
  BY <1>6 DEF ScanEnd
<1>7. CASE Answer(p)
  <2>1. lock' \in [Buckets -> Procs \cup {Nobody}]
    BY <1>0, <1>7 DEF Answer
  <2>2. QED
    BY <1>0, <1>7, <2>1 DEF Answer
<1>8. CASE Seek(p)
  <2>1. CASE pos[p] = _buckets
    BY <1>8, <2>1 DEF Seek
  <2>2. CASE pos[p] # _buckets /\ count[pos[p]] # 0
    <3>1. pos[p] \in Buckets /\ h.next[pos[p]] \in Nodes
      BY <1>0, <2>2 DEF Buckets
    <3>2. QED
      BY <1>8, <2>2, <3>1 DEF Seek
  <2>3. CASE pos[p] # _buckets /\ count[pos[p]] = 0
    <3>1. pos[p] + 1 \in 0 .. _buckets
      BY <1>0, <2>3
    <3>2. QED
      BY <1>8, <2>3, <3>1 DEF Seek
  <2>4. QED
    BY <2>1, <2>2, <2>3
<1>9. CASE Visit(p) /\ pos[p] \in Buckets
  <2>1. pos[p] + 1 \in 0 .. _buckets /\ h.next[at[p]] \in Nodes
    BY <1>0, <1>9 DEF Buckets
  <2>2. seen' \in [Procs -> Seq(Nodes)]
    <3>1. Append(seen[p], at[p]) \in Seq(Nodes)
      BY AppendProperties
    <3>2. QED
      BY <1>9, <3>1 DEF Visit
  <2>3. UNCHANGED <<h, key, count, used, lock, op, arg, left, spoiled, plain, disturbed>>
    BY <1>9 DEF Visit
  <2>4. \/ pos' = [pos EXCEPT ![p] = pos[p] + 1] /\ pc' = [pc EXCEPT ![p] = "seek"] /\ at' = at
        \/ pos' = pos /\ pc' = pc /\ at' = [at EXCEPT ![p] = h.next[at[p]]]
    BY <1>9 DEF Visit
  <2>5. pos' \in [Procs -> 0 .. _buckets] /\ at' \in [Procs -> Nodes]
    <3>1. at \in [Procs -> Nodes] /\ pos \in [Procs -> 0 .. _buckets]
      OBVIOUS
    <3> HIDE DEF TypeOK
    <3>2. at' \in [Procs -> Nodes]
      BY <2>1, <2>4, <3>1
    <3>3. pos' \in [Procs -> 0 .. _buckets]
      BY <2>1, <2>4, <3>1
    <3>4. QED
      BY <3>2, <3>3
  <2>6. pc' = pc \/ pc' = [pc EXCEPT ![p] = "seek"]
    BY <2>4
  <2>7. QED
    BY <2>2, <2>3, <2>5, <2>6
<1>10. CASE IterationEnd(p)
  BY <1>0, <1>10 DEF IterationEnd
<1>11. Visit(p) => pos[p] \in Buckets
  BY DEF Visit, Paths, OnPath
<1>12. QED
  BY <1>0, <1>1, <1>2, <1>3, <1>4, <1>5, <1>6, <1>7, <1>8, <1>9, <1>10, <1>11 DEF Look

\* The operations of list.h give pointers to nodes.
LEMMA LinkTypes ==
  ASSUME NEW N, NEW g, Pointers(g, N), NEW a \in N, NEW b \in N, NEW c \in N
  PROVE  /\ Pointers(Link(g, a, b), N) /\ Pointers(NodeInit(g, a), N)
         /\ Pointers(InsertBetween(g, a, b, c), N)
  BY DEF Pointers, Link, NodeInit, InsertBetween

\* Steps that write keep types.
LEMMA WriteTypes ==
  ASSUME TypeOK, Paths, NEW p \in Procs, Write(p)
  PROVE  TypeOK'
<1> USE DEF TypeOK, Goto, Return, Disturb, mapVars, callVars, history
<1>0. /\ B(p) \in Buckets /\ 0 \in Nodes /\ \A b \in Buckets : b \in Nodes
      /\ \A e \in Entries : e \in Nodes
      /\ AnyKey \in Keys /\ Word \in Nat /\ h.prev[B(p)] \in Nodes
      /\ at[p] \in Nodes /\ h.next[at[p]] \in Nodes /\ h.prev[at[p]] \in Nodes
      /\ Pointers(h, Nodes)
  BY Constants, Pointing DEF Nodes
<1>1. ASSUME NEW e \in Entries, CreateNewEntry(p, e) PROVE TypeOK'
  <2>1. Pointers(h', Nodes)
    BY <1>0, <1>1, LinkTypes DEF CreateNewEntry
  <2>2. QED
    BY <1>0, <1>1, <2>1 DEF CreateNewEntry, Pointers
<1>2. CASE InsertEntry(p)
  <2>1. Pointers(h', Nodes)
    BY <1>0, <1>2, LinkTypes DEF InsertEntry, ListInsertTail
  <2>2. disturbed' \subseteq Procs
    BY <1>2 DEF InsertEntry, Readers
  <2>3. QED
    BY <1>0, <1>2, <2>1, <2>2 DEF InsertEntry, Pointers
<1>3. CASE CountUp(p)
  <2>1. disturbed' \subseteq Procs
    BY <1>3 DEF CountUp, Readers
  <2>2. (count[B(p)] + 1) % Word \in 0 .. Word - 1
    BY <1>0, Wraps
  <2>3. count' \in [Buckets -> 0 .. Word - 1]
    <3>1. count' = [count EXCEPT ![B(p)] = (count[B(p)] + 1) % Word]
      BY <1>3 DEF CountUp
    <3>2. QED
      BY <2>2, <3>1
  <2>4. /\ UNCHANGED <<h, key, used, spoiled, plain>>
        /\ lock' = [lock EXCEPT ![B(p)] = Nobody]
        /\ Return(p)
    BY <1>3 DEF CountUp
  <2> HIDE DEF Return
  <2>5. QED
    BY <2>1, <2>3, <2>4, ReturnTypes
<1>4. CASE Unlink(p)
  <2>1. Pointers(h', Nodes)
    BY <1>0, <1>4, LinkTypes DEF Unlink
  <2>2. disturbed' \subseteq Procs
    BY <1>4 DEF Unlink, Readers
  <2>3. QED
    BY <1>0, <1>4, <2>1, <2>2 DEF Unlink, Pointers
<1>5. CASE Reinit(p)
  <2>1. Pointers(h', Nodes)
    BY <1>0, <1>5, LinkTypes DEF Reinit
  <2>2. QED
    BY <1>0, <1>5, <2>1 DEF Reinit, Pointers
<1>6. CASE EraseAbsent(p)
  BY <1>0, <1>6 DEF EraseAbsent
<1>7. CASE CountDown(p)
  <2>1. disturbed' \subseteq Procs
    BY <1>7 DEF CountDown, Readers
  <2>2. (count[B(p)] - 1) % Word \in 0 .. Word - 1
    BY <1>0, Wraps
  <2>3. count' \in [Buckets -> 0 .. Word - 1]
    <3>1. count' = [count EXCEPT ![B(p)] = (count[B(p)] - 1) % Word]
      BY <1>7 DEF CountDown
    <3>2. QED
      BY <2>2, <3>1
  <2>4. /\ UNCHANGED <<h, key, used, spoiled, plain>>
        /\ lock' = [lock EXCEPT ![B(p)] = Nobody]
        /\ Return(p)
    BY <1>7 DEF CountDown
  <2> HIDE DEF Return
  <2>5. QED
    BY <2>1, <2>3, <2>4, ReturnTypes
<1>8. QED
  BY <1>1, <1>2, <1>3, <1>4, <1>5, <1>6, <1>7 DEF Write

\* Calls go their ways.
LEMMA PathsKept ==
  ASSUME TypeOK, Paths, NEW p \in Procs, Look(p) \/ Write(p)
  PROVE  Paths'
<1> USE DEF TypeOK, Goto, Return, mapVars, callVars, history
<1>1. Local(p) /\ plain' = plain
  <2>1. plain' = plain
    BY DEF Look, Write, Call, Take, First, Count, Scan, ScanEnd, Answer, Seek, Visit, IterationEnd,
           CreateNewEntry, InsertEntry, CountUp, Unlink, Reinit, EraseAbsent, CountDown, Disturb
  <2>2. QED
    BY <2>1, Locality
<1>2. OnPath(p)'
  <2> USE DEF Paths, OnPath
  <2>1. ASSUME NEW o \in Locking \cup {"find", "iterate"}, NEW k, Call(p, o, k) PROVE OnPath(p)'
    BY <2>1 DEF Call, Locking
  <2>2. CASE Take(p) \/ First(p) \/ Count(p) \/ ScanEnd(p)
    BY <2>2, Pointing DEF Take, First, Count, ScanEnd, Locking
  <2>3. CASE Scan(p)
    BY <2>3, Pointing DEF Scan
  <2>4. CASE Answer(p) \/ IterationEnd(p) \/ CountUp(p) \/ CountDown(p)
    BY <2>4 DEF Answer, IterationEnd, CountUp, CountDown
  <2>5. CASE Seek(p)
    <3>1. pos[p] # _buckets => pos[p] \in Buckets
      BY Constants DEF Buckets
    <3>2. /\ UNCHANGED <<op, plain>> /\ pc[p] = "seek"
          /\ pc'[p] \in {"end", "visit", "seek"}
          /\ pc'[p] = "visit" => pos[p] # _buckets /\ pos' = pos
      BY <2>5 DEF Seek
    <3>3. QED
      BY <3>1, <3>2, Pointing DEF Locking
  <2>6. CASE Visit(p)
    BY <2>6, Constants, Pointing DEF Visit, Buckets, Locking
  <2>7. CASE InsertEntry(p) \/ Unlink(p) \/ Reinit(p) \/ EraseAbsent(p)
    BY <2>7, Pointing DEF InsertEntry, Unlink, Reinit, EraseAbsent, Locking
  <2>8. ASSUME NEW e, CreateNewEntry(p, e) PROVE OnPath(p)'
    BY <2>8 DEF CreateNewEntry
  <2>9. QED
    BY <2>1, <2>2, <2>3, <2>4, <2>5, <2>6, <2>7, <2>8 DEF Look, Write
<1>3. ASSUME NEW q \in Procs, q # p
      PROVE  OnPath(q)'
  <2>1. OnPath(q) /\ op'[q] = op[q] /\ pc'[q] = pc[q] /\ pos'[q] = pos[q]
    BY <1>1, <1>3 DEF Paths, Local
  <2>2. QED
    BY <1>1, <2>1 DEF OnPath, Buckets
<1>4. QED
  BY <1>2, <1>3 DEF Paths

\* Who is between Lock and Unlock of a bucket holds its lock (hashmap.h:21).
LEMMA LocksKept ==
  ASSUME TypeOK, Paths, Locks, NEW p \in Procs, Look(p) \/ Write(p)
  PROVE  Locks'
<1> USE DEF Goto, Return, mapVars, callVars, history, Holds, Locked, Locking
<1>1. Local(p) /\ OnPath(p) /\ B(p) \in Buckets /\ Nobody \notin Procs /\ p # Nobody
  BY Locality, Pointing, Constants DEF Paths
<1>2. CASE /\ lock' = lock /\ (Holds(p)' <=> Holds(p))
           /\ Holds(p) => B(p)' = B(p)
  <2>1. \A q \in Procs : /\ Holds(q)' <=> Holds(q)
                         /\ Holds(q) => B(q)' = B(q)
    BY <1>1, <1>2 DEF Local
  <2> HIDE DEF Holds
  <2>2. QED
    BY <1>2, <2>1 DEF Locks
<1>3. CASE Take(p)
  <2>1. /\ lock[B(p)] = Nobody /\ lock' = [lock EXCEPT ![B(p)] = p]
        /\ pc'[p] \in {"miss", "first"} /\ op' = op /\ arg' = arg /\ op[p] \in Locking
        /\ pc[p] = "lock"
    BY <1>1, <1>3 DEF Take, TypeOK, OnPath
  <2>2. \A q \in Procs : B(q)' = B(q)
    BY <2>1 DEF B
  <2>3. lock'[B(p)] = p /\ \A b \in Buckets \ {B(p)} : lock'[b] = lock[b]
    BY <1>1, <2>1 DEF TypeOK
  <2>4. \A q \in Procs \ {p} : Holds(q)' <=> Holds(q)
    BY <1>1 DEF Local
  <2>5. Holds(p)' /\ ~ Holds(p)
    BY <2>1
  <2>6. \A q \in Procs \ {p} : Holds(q) => B(q) # B(p)
    BY <2>1, <1>1 DEF Locks
  <2> HIDE DEF Holds
  <2>7. \A q \in Procs, b \in Buckets : lock'[b] = q <=> Holds(q)' /\ B(q)' = b
    BY <1>1, <2>2, <2>3, <2>4, <2>5, <2>6 DEF Locks
  <2>8. QED
    BY <2>7 DEF Locks
<1>4. CASE /\ Holds(p) /\ ~ Holds(p)' /\ lock' = [lock EXCEPT ![B(p)] = Nobody]
  <2>1. lock[B(p)] = p
    BY <1>1, <1>4 DEF Locks
  <2>2. lock'[B(p)] = Nobody /\ \A b \in Buckets \ {B(p)} : lock'[b] = lock[b]
    BY <1>1, <1>4 DEF TypeOK
  <2>3. \A q \in Procs \ {p} : (Holds(q)' <=> Holds(q)) /\ B(q)' = B(q)
    BY <1>1 DEF Local
  <2> HIDE DEF Holds
  <2>4. \A q \in Procs, b \in Buckets : lock'[b] = q <=> Holds(q)' /\ B(q)' = b
    BY <1>1, <1>4, <2>1, <2>2, <2>3 DEF Locks
  <2>5. QED
    BY <2>4 DEF Locks
<1>5. ASSUME NEW o, NEW k, Call(p, o, k), o \in Locking \cup {"find", "iterate"} PROVE Locks'
  <2>1. ~ Holds(p) /\ ~ Holds(p)' /\ lock' = lock
    BY <1>5 DEF Call, TypeOK
  <2>2. QED
    BY <1>2, <2>1
<1>6. CASE First(p) \/ Count(p) \/ Scan(p) \/ ScanEnd(p) \/ Seek(p) \/ Visit(p) \/ IterationEnd(p)
  <2>1. lock' = lock /\ (Holds(p)' <=> Holds(p)) /\ (Holds(p) => B(p)' = B(p))
    BY <1>1, <1>6 DEF First, Count, Scan, ScanEnd, Seek, Visit, IterationEnd, TypeOK, B
  <2>2. QED
    BY <1>2, <2>1
<1>7. CASE Answer(p)
  <2>1. CASE op[p] = "find"
    BY <1>2, <1>7, <2>1 DEF Answer, TypeOK
  <2>2. CASE op[p] = "insertIfAbsent"
    BY <1>4, <1>7, <2>2 DEF Answer, TypeOK
  <2>3. QED
    BY <1>7, <2>1, <2>2 DEF Answer
<1>8. CASE InsertEntry(p) \/ Unlink(p) \/ Reinit(p) \/ EraseAbsent(p) \/ \E e \in Entries : CreateNewEntry(p, e)
  <2>1. lock' = lock /\ (Holds(p)' <=> Holds(p)) /\ (Holds(p) => B(p)' = B(p))
    BY <1>1, <1>8 DEF InsertEntry, Unlink, Reinit, EraseAbsent, CreateNewEntry, TypeOK, B
  <2>2. QED
    BY <1>2, <2>1
<1>9. CASE CountUp(p) \/ CountDown(p)
  <2>1. Holds(p) /\ ~ Holds(p)' /\ lock' = [lock EXCEPT ![B(p)] = Nobody]
    BY <1>1, <1>9, Pointing DEF CountUp, CountDown, TypeOK, OnPath
  <2>2. QED
    BY <1>4, <2>1
<1>10. QED
  BY <1>3, <1>5, <1>6, <1>7, <1>8, <1>9 DEF Look, Write

\* A process at work on a bucket holds its lock, and nobody else is.
LEMMA Owners ==
  ASSUME TypeOK, Paths, Locks, NEW p \in Procs
  PROVE  /\ Holds(p) => lock[B(p)] = p /\ lock[B(p)] # Nobody
         /\ \A q \in Procs : Holds(p) /\ Holds(q) /\ B(p) = B(q) => p = q
         /\ pc[p] \in Moving \cup {"link"} => Holds(p)
<1>1. OnPath(p) /\ op[p] \in Locking \cup {"find", "iterate"} /\ Nobody \notin Procs
  BY Constants, Pointing DEF Paths
<1>2. pc[p] \in Moving \cup {"link"} => Holds(p)
  BY <1>1 DEF OnPath, Moving, Holds, Locked, Locking
<1>3. \A q \in Procs : B(q) \in Buckets
  BY Pointing
<1>4. QED
  BY <1>1, <1>2, <1>3 DEF Locks

\* An undisturbed find meets nobody who changes its bucket.
LEMMA QuietKept ==
  ASSUME TypeOK, Paths, Locks, Quiet, NEW p \in Procs, Look(p) \/ Write(p)
  PROVE  Quiet'
<1> USE DEF Goto, mapVars, callVars, history
<1>1. Local(p) /\ OnPath(p) /\ B(p) \in Buckets
  BY Locality, Pointing DEF Paths
<1>2. spoiled \subseteq spoiled'
  BY DEF Look, Write, Call, Take, First, Count, Scan, ScanEnd, Answer, Seek, Visit, IterationEnd,
         CreateNewEntry, InsertEntry, CountUp, Unlink, Reinit, EraseAbsent, CountDown, Disturb
<1>3. \A q \in Procs \ {p} : Undisturbed(q)' => Undisturbed(q)
  BY <1>1, <1>2 DEF Local, Undisturbed
<1>4. CASE /\ Undisturbed(p)' => Undisturbed(p) /\ B(p)' = B(p)
           /\ pc'[p] \in Moving => pc[p] \in Moving /\ B(p)' = B(p)
  <2> SUFFICES ASSUME NEW u \in Procs, NEW q \in Procs, Undisturbed(u)', pc'[q] \in Moving
               PROVE  B(q)' # B(u)'
    BY DEF Quiet
  <2>1. Undisturbed(u) /\ B(u)' = B(u)
    BY <1>1, <1>3, <1>4 DEF Local
  <2>2. pc[q] \in Moving /\ B(q)' = B(q)
    BY <1>1, <1>4 DEF Local
  <2>3. QED
    BY <2>1, <2>2 DEF Quiet
<1>5. CASE /\ ~ Undisturbed(p)' /\ B(p)' = B(p)
           /\ \A u \in Procs \ {p} : Undisturbed(u)' => B(u) # B(p)
  <2> SUFFICES ASSUME NEW u \in Procs, NEW q \in Procs, Undisturbed(u)', pc'[q] \in Moving
               PROVE  B(q)' # B(u)'
    BY DEF Quiet
  <2>1. u # p /\ Undisturbed(u) /\ B(u)' = B(u) /\ B(u) # B(p)
    BY <1>1, <1>3, <1>5 DEF Local
  <2>2. q # p => pc[q] \in Moving /\ B(q)' = B(q)
    BY <1>1 DEF Local
  <2>3. QED
    BY <1>5, <2>1, <2>2 DEF Quiet
<1>6. ASSUME NEW o \in Locking \cup {"find", "iterate"}, NEW k, Call(p, o, k) PROVE Quiet'
  <2> SUFFICES ASSUME NEW u \in Procs, NEW q \in Procs, Undisturbed(u)', pc'[q] \in Moving
               PROVE  B(q)' # B(u)'
    BY DEF Quiet
  <2>1. pc'[p] \in {"lock", "first", "seek"} /\ op'[p] = o /\ arg'[p] = k /\ lock' = lock
    BY <1>6 DEF Call, TypeOK, Locking
  <2>2. q # p /\ pc[q] \in Moving /\ B(q)' = B(q)
    BY <1>1, <2>1 DEF Local, Moving
  <2>3. CASE u # p
    <3>1. Undisturbed(u) /\ B(u)' = B(u)
      BY <1>1, <1>3, <2>3 DEF Local
    <3>2. QED
      BY <2>2, <3>1 DEF Quiet
  <2>4. CASE u = p
    <3>1. o = "find" /\ p \notin disturbed' /\ B(p)' = Hash[k]
      BY <2>1, <2>4 DEF Undisturbed, B
    <3>2. lock[Hash[k]] = Nobody
      BY <1>6, <3>1 DEF Call, MeetsHolder
    <3>3. lock[B(q)] # Nobody
      BY <2>2, Owners
    <3>4. QED
      BY <2>2, <2>4, <3>1, <3>2, <3>3
  <2>5. QED
    BY <2>3, <2>4
<1>7. CASE Take(p) \/ First(p) \/ Count(p) \/ Scan(p) \/ ScanEnd(p) \/ Seek(p) \/ Visit(p) \/ Reinit(p)
  <2>1. /\ Undisturbed(p)' => Undisturbed(p) /\ B(p)' = B(p)
        /\ pc'[p] \in Moving => pc[p] \in Moving /\ B(p)' = B(p)
    BY <1>1, <1>2, <1>7 DEF Take, First, Count, Scan, ScanEnd, Seek, Visit, Reinit, TypeOK, B, Undisturbed, Moving
  <2>2. QED
    BY <1>4, <2>1
<1>8. CASE Answer(p) \/ IterationEnd(p) \/ CountUp(p) \/ CountDown(p)
  <2>1. pc'[p] = "idle"
    BY <1>8 DEF Answer, IterationEnd, CountUp, CountDown, Return, TypeOK
  <2>2. QED
    BY <1>4, <2>1 DEF Undisturbed, Moving
<1>9. ASSUME NEW e, CreateNewEntry(p, e) PROVE Quiet'
  <2>1. pc'[p] = "link" /\ op' = op /\ op[p] # "find"
    BY <1>9 DEF CreateNewEntry, TypeOK
  <2>2. QED
    BY <1>4, <2>1 DEF Undisturbed, Moving
<1>10. CASE InsertEntry(p) \/ Unlink(p)
  <2>1. op' = op /\ arg' = arg /\ op[p] # "find" /\ disturbed' = disturbed \cup Readers(B(p))
    BY <1>1, <1>10 DEF InsertEntry, Unlink, Disturb, OnPath
  <2>2. ~ Undisturbed(p)' /\ B(p)' = B(p)
    BY <2>1 DEF Undisturbed, B
  <2>3. \A u \in Procs \ {p} : Undisturbed(u)' => B(u) # B(p)
    BY <1>3, <2>1 DEF Undisturbed, Readers
  <2>4. QED
    BY <1>5, <2>2, <2>3
<1>11. CASE EraseAbsent(p)
  <2>1. op' = op /\ arg' = arg /\ op[p] # "find" /\ B(p) \in spoiled'
    BY <1>11 DEF EraseAbsent
  <2>2. ~ Undisturbed(p)' /\ B(p)' = B(p)
    BY <2>1 DEF Undisturbed, B
  <2>3. \A u \in Procs \ {p} : Undisturbed(u)' => B(u) # B(p)
    BY <1>1, <2>1 DEF Undisturbed, Local
  <2>4. QED
    BY <1>5, <2>2, <2>3
<1>12. QED
  BY <1>6, <1>7, <1>8, <1>9, <1>10, <1>11 DEF Look, Write

-----------------------------------------------------------------------------
(* Lists, counts and searches *)

\* Two buckets share no node.
LEMMA RingsApart ==
  ASSUME TypeOK, NEW n, NEW r, Ghosts(n, r), Lists(n, r),
         NEW b \in Buckets, NEW d \in Buckets, b # d, NEW i \in 0 .. n[b], NEW k \in 0 .. n[d]
  PROVE  r[b][i] # r[d][k]
<1>1. \A c \in Buckets : /\ r[c][0] = c
                         /\ \A x \in 1 .. n[c] : r[c][x] \in Entries /\ Hash[key[r[c][x]]] = c
  BY DEF Lists, Ring, TypeOK
<1>2. (i = 0 \/ i \in 1 .. n[b]) /\ (k = 0 \/ k \in 1 .. n[d])
  BY DEF Ghosts
<1>3. QED
  BY <1>1, <1>2, Constants

\* A list is no longer than there are entries.
LEMMA LengthBound ==
  ASSUME TypeOK, NEW n, NEW r, Ghosts(n, r), Lists(n, r), NEW b \in Buckets
  PROVE  n[b] <= Cardinality(Entries)
<1> DEFINE f == [i \in 1 .. n[b] |-> r[b][i]]
<1>1. n[b] \in Nat
  BY DEF Ghosts
<1>2. f \in [1 .. n[b] -> Entries]
  BY DEF Lists, TypeOK
<1>3. \A i, k \in 1 .. n[b] : f[i] = f[k] => i = k
  BY <1>1 DEF Lists, Ring
<1>4. f \in Injection(1 .. n[b], Entries)
  BY <1>2, <1>3 DEF Injection, IsInjective
<1>5. IsFiniteSet(1 .. n[b]) /\ Cardinality(1 .. n[b]) = n[b]
  BY <1>1, FS_Interval
<1> HIDE DEF f
<1>6. QED
  BY <1>4, <1>5, HashMapAssumption, FS_Injection DEF ExistsInjection

\* A steady search reads a count that goes with the list, and never more than it.
LEMMA CountSeen ==
  ASSUME TypeOK, Paths, Locks, Quiet, NEW n, NEW r, Shape(n, r),
         NEW p \in Procs, Steady(p), pc[p] \in {"count", "scan", "hit", "miss"}
  PROVE  /\ Says(B(p), n[B(p)])
         /\ AsInt(count[B(p)]) \in 0 .. n[B(p)]
         /\ B(p) \notin spoiled => AsInt(count[B(p)]) = n[B(p)]
<1>1. B(p) \in Buckets /\ n[B(p)] \in Nat /\ count[B(p)] \in 0 .. Word - 1
  BY Pointing DEF Shape, Ghosts, TypeOK
<1>2. \A q \in Procs : pc[q] \in Moving => B(q) # B(p)
  <2> SUFFICES ASSUME NEW q \in Procs, pc[q] \in Moving, B(q) = B(p) PROVE FALSE
    OBVIOUS
  <2>1. CASE Undisturbed(p)
    BY <2>1 DEF Quiet
  <2>2. CASE op[p] \in {"insertIfAbsent", "erase"}
    <3>1. Holds(p)
      BY <2>2 DEF Holds, Locked, Locking
    <3>2. p = q
      BY <3>1, Owners
    <3>3. QED
      BY <3>2 DEF Moving
  <2>3. QED
    BY <2>1, <2>2 DEF Steady
<1>3. Says(B(p), n[B(p)])
  BY <1>1, <1>2 DEF Shape, Counts
<1>4. n[B(p)] < Word \div 2
  BY <1>1, LengthBound, Constants DEF Shape
<1>5. QED
  BY <1>1, <1>3, <1>4, IntOfCount, Constants DEF Says

\* Steps that look leave the lists as they are and know where they are in them.
LEMMA LookShape ==
  ASSUME TypeOK, Paths, Locks, Quiet, NEW n, NEW r, Shape(n, r), NEW p \in Procs, Look(p)
  PROVE  Shape(n, r)'
<1> USE DEF Goto, mapVars, callVars, history
<1>1. UNCHANGED <<h, key, count, used, spoiled, plain>>
  BY DEF Look, Call, Take, First, Count, Scan, ScanEnd, Answer, Seek, Visit, IterationEnd
<1>2. Local(p) /\ OnPath(p) /\ B(p) \in Buckets
  BY Locality, Pointing DEF Paths
<1>3. pc[p] \notin Moving \cup {"link"} /\ pc'[p] \notin Moving \cup {"link"}
  <2>1. ASSUME NEW o \in Locking \cup {"find", "iterate"}, NEW k, Call(p, o, k)
        PROVE  pc[p] \notin Moving \cup {"link"} /\ pc'[p] \notin Moving \cup {"link"}
    BY <2>1 DEF Call, TypeOK, Locking, Moving
  <2>2. CASE Take(p) \/ First(p) \/ Count(p) \/ Scan(p) \/ ScanEnd(p) \/ Seek(p) \/ Visit(p)
    BY <2>2 DEF Take, First, Count, Scan, ScanEnd, Seek, Visit, TypeOK, Moving
  <2>3. CASE Answer(p) \/ IterationEnd(p)
    BY <2>3 DEF Answer, IterationEnd, Return, TypeOK, Moving
  <2>4. QED
    BY <2>1, <2>2, <2>3 DEF Look
<1>4. Lists(n, r)'
  BY <1>1 DEF Shape, Lists
<1>5. Hands(n, r)'
  <2>1. \A q \in Procs : pc'[q] \in {"link", "reinit"} <=> q # p /\ pc[q] \in {"link", "reinit"}
    BY <1>2, <1>3 DEF Local, Moving
  <2>2. \A q \in Procs : q # p => B(q)' = B(q) /\ at'[q] = at[q] /\ arg'[q] = arg[q] /\ pc'[q] = pc[q]
    BY <1>2 DEF Local
  <2>3. QED
    BY <1>1, <1>3, <2>1, <2>2 DEF Shape, Hands, Moving
<1>6. Counts(n)'
  <2>1. \A b, k : Says(b, k)' <=> Says(b, k)
    BY <1>1 DEF Says
  <2>2. \A q \in Procs : (pc'[q] \in Moving <=> pc[q] \in Moving) /\ (pc'[q] \in Moving => q # p)
    BY <1>2, <1>3 DEF Local
  <2>3. \A q \in Procs : q # p => B(q)' = B(q) /\ pc'[q] = pc[q]
    BY <1>2 DEF Local
  <2>4. QED
    BY <1>1, <2>1, <2>2, <2>3 DEF Shape, Counts, Moving
<1>7. Once(n, r)'
  <2>1. \A q \in Procs : pc'[q] = "link" => q # p /\ pc[q] = "link"
    BY <1>2, <1>3 DEF Local
  <2>2. \A q \in Procs : q # p => B(q)' = B(q) /\ arg'[q] = arg[q]
    BY <1>2 DEF Local
  <2>3. QED
    BY <1>1, <2>1, <2>2 DEF Shape, Once
<1>8. ASSUME NEW q \in Procs, q # p, Steady(q)'
      PROVE  Sought(n, r, q)'
  <2>1. /\ pc'[q] = pc[q] /\ at'[q] = at[q] /\ arg'[q] = arg[q] /\ left'[q] = left[q] /\ B(q)' = B(q)
        /\ op'[q] = op[q] /\ (q \in disturbed => q \in disturbed')
    BY <1>2, <1>8 DEF Local
  <2>2. Steady(q)
    BY <1>1, <1>8, <2>1 DEF Steady, Undisturbed
  <2>3. Sought(n, r, q)
    BY <2>2 DEF Shape, Searches
  <2>4. QED
    BY <1>1, <2>1, <2>3 DEF Sought, AsInt
<1>9. Steady(p)' => Sought(n, r, p)'
  <2> DEFINE b == B(p)
  <2>b. b \in Buckets /\ n[b] \in Nat /\ count[b] \in 0 .. Word - 1
    BY <1>2 DEF Shape, Ghosts, TypeOK
  <2>c. AsInt(count[b]) \in Nat
    BY <2>b, IntOfCount, Constants
  <2>d. Ring(h, b, n[b], r[b]) /\ \A i \in 1 .. n[b] : r[b][i] \in used
    BY <2>b DEF Shape, Lists
  <2>e. r[b][0] = b /\ \A i \in 0 .. n[b] : h.next[r[b][i]] = r[b][i + 1]
    BY <2>d DEF Ring
  <2>f. h.next[b] = r[b][1]
    <3>1. 0 \in 0 .. n[b] /\ 0 + 1 = 1
      BY <2>b
    <3>2. QED
      BY <2>e, <3>1
  <2>a. /\ b \in Buckets /\ n[b] \in Nat /\ count[b] \in 0 .. Word - 1 /\ AsInt(count[b]) \in Nat
        /\ r[b][0] = b /\ \A i \in 0 .. n[b] : h.next[r[b][i]] = r[b][i + 1]
        /\ \A i \in 1 .. n[b] : r[b][i] \in used
    BY <2>b, <2>c, <2>d, <2>e
  <2>1. ASSUME NEW o \in Locking \cup {"find", "iterate"}, NEW k, Call(p, o, k)
        PROVE  Sought(n, r, p)'
    BY <2>1 DEF Call, TypeOK, Locking, Sought
  <2>2. CASE Take(p)
    <3>1. op' = op /\ (pc'[p] = "first" \/ (op[p] = "insert" /\ pc'[p] = "miss"))
      BY <2>2 DEF Take, TypeOK
    <3>2. QED
      BY <3>1 DEF Steady, Undisturbed, Sought
  <2>3. CASE First(p)
    <3>1. pc'[p] = "count" /\ B(p)' = b /\ at'[p] = r[b][1]
      BY <2>3, <2>f DEF First, TypeOK, B
    <3>2. QED
      BY <3>1 DEF Sought
  <2>4. CASE Count(p) /\ Steady(p)'
    <3>1. /\ pc[p] = "count" /\ pc'[p] = "scan" /\ B(p)' = b /\ at' = at
          /\ left'[p] = AsInt(count[b])
      BY <2>4 DEF Count, TypeOK, B
    <3>2. Steady(p)
      BY <1>1, <2>4, <3>1 DEF Count, Steady, Undisturbed, B
    <3>3. at[p] = r[b][1]
      BY <3>1, <3>2 DEF Shape, Searches, Sought
    <3>4. 1 \in 1 .. n[b] + 1 /\ left'[p] + 1 - 1 = AsInt(count[b])
      BY <2>a, <3>1
    <3>5. AsInt(count[b])' = AsInt(count[b])
      BY <1>1, <3>1 DEF AsInt
    <3>6. QED
      BY <1>1, <3>1, <3>3, <3>4 DEF Sought, AsInt
  <2>5. CASE Scan(p) /\ Steady(p)'
    <3>1. /\ pc[p] = "scan" /\ B(p)' = b /\ left[p] > 0 /\ arg' = arg /\ left[p] \in Nat
      BY <2>5 DEF Scan, TypeOK, B
    <3>2. Steady(p)
      BY <1>1, <2>5, <3>1 DEF Scan, Steady, Undisturbed, B
    <3>3. PICK i \in 1 .. n[b] + 1 : /\ at[p] = r[b][i]
                                     /\ left[p] + i - 1 = AsInt(count[b])
                                     /\ \A k \in 1 .. i - 1 : key[r[b][k]] # arg[p]
      BY <3>1, <3>2 DEF Shape, Searches, Sought
    <3>4. AsInt(count[b]) \in 0 .. n[b]
      BY <3>1, <3>2, CountSeen
    <3>5. i \in 1 .. n[b] /\ i <= AsInt(count[b]) /\ i \in 0 .. n[b] /\ i + 1 \in 1 .. n[b] + 1
      BY <2>a, <3>1, <3>3, <3>4
    <3>6. at[p] \in used
      BY <2>a, <3>3, <3>5
    <3>7. CASE key[at[p]] = arg[p]
      <4>1. pc'[p] = "hit" /\ at' = at
        BY <2>5, <3>6, <3>7 DEF Scan, TypeOK
      <4>2. QED
        BY <1>1, <3>1, <3>3, <3>5, <3>7, <4>1 DEF Sought, AsInt
    <3>8. CASE key[at[p]] # arg[p]
      <4>1. pc'[p] = "scan" /\ at'[p] = h.next[at[p]] /\ left'[p] = left[p] - 1
        BY <2>5, <3>6, <3>8 DEF Scan, TypeOK
      <4>2. at'[p] = r[b][i + 1]
        BY <2>a, <3>3, <3>5, <4>1
      <4>3. left'[p] + (i + 1) - 1 = AsInt(count[b])
        BY <2>a, <3>1, <3>3, <4>1
      <4>4. \A k \in 1 .. (i + 1) - 1 : key[r[b][k]] # arg[p]
        BY <3>3, <3>5, <3>8
      <4>5. QED
        BY <1>1, <3>1, <3>5, <4>1, <4>2, <4>3, <4>4 DEF Sought, AsInt
    <3>9. QED
      BY <3>7, <3>8
  <2>6. CASE ScanEnd(p) /\ Steady(p)'
    <3>1. pc[p] = "scan" /\ pc'[p] = "miss" /\ B(p)' = b /\ left[p] = 0 /\ arg' = arg
      BY <2>6 DEF ScanEnd, TypeOK, B
    <3>2. Steady(p)
      BY <1>1, <2>6, <3>1 DEF ScanEnd, Steady, Undisturbed, B
    <3>3. PICK i \in 1 .. n[b] + 1 : /\ left[p] + i - 1 = AsInt(count[b])
                                     /\ \A k \in 1 .. i - 1 : key[r[b][k]] # arg[p]
      BY <3>1, <3>2 DEF Shape, Searches, Sought
    <3>4. \A k \in 1 .. n[b] : k <= AsInt(count[b]) => key[r[b][k]] # arg[p]
      BY <2>a, <3>1, <3>3
    <3>5. QED
      BY <1>1, <3>1, <3>4 DEF Sought, AsInt
  <2>7. CASE Answer(p) \/ IterationEnd(p)
    BY <2>7 DEF Answer, IterationEnd, Return, TypeOK, Sought
  <2>8. CASE Seek(p) \/ Visit(p)
    BY <2>8 DEF Seek, Visit, TypeOK, Sought
  <2>9. QED
    BY <2>1, <2>2, <2>3, <2>4, <2>5, <2>6, <2>7, <2>8 DEF Look
<1>10. Ghosts(n, r)'
  BY DEF Shape, Ghosts, Nodes
<1>11. QED
  BY <1>4, <1>5, <1>6, <1>7, <1>8, <1>9, <1>10 DEF Shape, Searches

-----------------------------------------------------------------------------
(* Steps that write *)

\* Bucket b looks the same after the step, with the lists m and s.
SameBucket(n, r, m, s, b) ==
  /\ m[b] = n[b] /\ s[b] = r[b] /\ count'[b] = count[b] /\ (b \in spoiled' <=> b \in spoiled)
  /\ \A i \in 1 .. n[b] : r[b][i] \in used' /\ key'[r[b][i]] = key[r[b][i]]

\* After the step no undisturbed find reads the bucket of p.
Unwatched(p) == \A u \in Procs \ {p} : Undisturbed(u)' => B(u) # B(p)

\* The others know where their searches are after a step of p.
LEMMA OthersSought ==
  ASSUME TypeOK, Paths, Locks, Quiet, NEW n, NEW r, Shape(n, r), NEW p \in Procs, Local(p), Holds(p),
         spoiled \subseteq spoiled', NEW m, NEW s,
         \A b \in Buckets \ {B(p)} : SameBucket(n, r, m, s, b),
         SameBucket(n, r, m, s, B(p)) \/ Unwatched(p),
         NEW q \in Procs, q # p, Steady(q)'
  PROVE  Sought(m, s, q)'
<1>1. /\ pc'[q] = pc[q] /\ at'[q] = at[q] /\ arg'[q] = arg[q] /\ left'[q] = left[q] /\ B(q)' = B(q)
      /\ op'[q] = op[q] /\ (q \in disturbed => q \in disturbed')
  BY DEF Local
<1>2. B(q) \in Buckets /\ B(p) \in Buckets
  BY Pointing
<1>3. Steady(q)
  BY <1>1 DEF Steady, Undisturbed
<1>4. Sought(n, r, q)
  BY <1>3 DEF Shape, Searches
<1>5. CASE pc[q] \notin {"count", "scan", "hit", "miss"}
  BY <1>1, <1>5 DEF Sought
<1>6. CASE pc[q] \in {"count", "scan", "hit", "miss"}
  <2>1. SameBucket(n, r, m, s, B(q))
    <3>1. CASE B(q) = B(p) /\ ~ SameBucket(n, r, m, s, B(p))
      <4>1. ~ Undisturbed(q)'
        BY <3>1 DEF Unwatched
      <4>2. op[q] \in {"insertIfAbsent", "erase"}
        BY <1>1, <4>1 DEF Steady
      <4>3. Holds(q)
        BY <1>6, <4>2 DEF Holds, Locked, Locking
      <4>4. QED
        BY <3>1, <4>3, Owners
    <3>2. QED
      BY <1>2, <3>1
  <2>2. n[B(q)] \in Nat
    BY <1>2 DEF Shape, Ghosts
  <2> DEFINE b == B(q)
  <2>3. /\ m[b] = n[b] /\ s[b] = r[b] /\ count'[b] = count[b]
        /\ \A i \in 1 .. n[b] : key'[r[b][i]] = key[r[b][i]]
    BY <2>1 DEF SameBucket
  <2>4. AsInt(count'[b]) = AsInt(count[b])
    BY <2>3
  <2>5. pc[q] = "count" => Sought(m, s, q)'
    BY <1>1, <1>4, <2>3 DEF Sought
  <2>6. pc[q] = "scan" => Sought(m, s, q)'
    <3> SUFFICES ASSUME pc[q] = "scan" PROVE Sought(m, s, q)'
      OBVIOUS
    <3>1. PICK i \in 1 .. n[b] + 1 : /\ at[q] = r[b][i]
                                     /\ left[q] + i - 1 = AsInt(count[b])
                                     /\ \A k \in 1 .. i - 1 : key[r[b][k]] # arg[q]
      BY <1>4 DEF Sought
    <3>2. \A k \in 1 .. i - 1 : key'[s[b][k]] # arg[q]
      <4>1. \A k \in 1 .. i - 1 : k \in 1 .. n[b]
        BY <2>2
      <4>2. QED
        BY <2>3, <3>1, <4>1
    <3>3. i \in 1 .. m[b] + 1 /\ at[q] = s[b][i] /\ left[q] + i - 1 = AsInt(count'[b])
      BY <2>3, <2>4, <3>1
    <3> HIDE DEF b
    <3>4. \E j \in 1 .. m[b] + 1 : /\ at[q] = s[b][j]
                                   /\ left[q] + j - 1 = AsInt(count'[b])
                                   /\ \A k \in 1 .. j - 1 : key'[s[b][k]] # arg[q]
      BY <3>2, <3>3
    <3>5. QED
      BY <1>1, <3>4 DEF Sought, b
  <2>7. pc[q] = "hit" => Sought(m, s, q)'
    BY <1>1, <1>4, <2>3, <2>4 DEF Sought
  <2>8. pc[q] = "miss" => Sought(m, s, q)'
    BY <1>1, <1>4, <2>3, <2>4 DEF Sought
  <2>9. QED
    BY <1>6, <2>5, <2>6, <2>7, <2>8
<1>7. QED
  BY <1>5, <1>6

\* What the writer of a bucket can rely on: nobody else is at work on it, and an
\* entry another process has in hand belongs elsewhere.
LEMMA Alone ==
  ASSUME TypeOK, Paths, Locks, NEW n, NEW r, Shape(n, r), NEW p \in Procs, Holds(p)
  PROVE  /\ B(p) \in Buckets /\ n[B(p)] \in Nat
         /\ \A q \in Procs \ {p} : pc[q] \in Moving \cup {"link"} => B(q) # B(p)
         /\ pc[p] \in {"link", "reinit"} =>
              \A q \in Procs \ {p} : pc[q] \in {"link", "reinit"} => at[q] # at[p]
         /\ pc[p] \notin Moving => Says(B(p), n[B(p)])
<1>1. B(p) \in Buckets /\ n[B(p)] \in Nat
  BY Pointing DEF Shape, Ghosts
<1>2. \A q \in Procs \ {p} : pc[q] \in Moving \cup {"link"} => B(q) # B(p)
  BY Owners
<1>3. pc[p] \in {"link", "reinit"} =>
        \A q \in Procs \ {p} : pc[q] \in {"link", "reinit"} => at[q] # at[p]
  BY <1>2 DEF Shape, Hands, Moving
<1>4. pc[p] \notin Moving => Says(B(p), n[B(p)])
  BY <1>1, <1>2 DEF Shape, Counts
<1>5. QED
  BY <1>1, <1>2, <1>3, <1>4


\* The nodes of the lists: heads, and entries in use that are in nobody's hand.
LEMMA InLists ==
  ASSUME TypeOK, NEW n, NEW r, Shape(n, r), NEW b \in Buckets
  PROVE  /\ n[b] \in Nat /\ r[b] \in [Nat -> Nodes] /\ Ring(h, b, n[b], r[b]) /\ r[b][0] = b
         /\ \A i \in 1 .. n[b] : r[b][i] \in used /\ r[b][i] \in Entries /\ Hash[key[r[b][i]]] = b
         /\ \A i \in 0 .. n[b] : r[b][i] \in Nodes /\ (r[b][i] \in Entries => r[b][i] \in used)
<1>1. n[b] \in Nat /\ r[b] \in [Nat -> Nodes]
  BY DEF Shape, Ghosts
<1>2. /\ Ring(h, b, n[b], r[b])
      /\ \A i \in 1 .. n[b] : r[b][i] \in used /\ r[b][i] \in Entries /\ Hash[key[r[b][i]]] = b
  BY DEF Shape, Lists, TypeOK
<1>3. r[b][0] = b
  BY <1>2 DEF Ring
<1>4. b \notin Entries /\ (\A i \in 0 .. n[b] : i = 0 \/ i \in 1 .. n[b]) /\ \A i \in 0 .. n[b] : i \in Nat
  BY <1>1, Constants
<1>5. QED
  BY <1>1, <1>2, <1>3, <1>4

\* createNewEntry takes an entry that is in no list and in nobody's hand.
LEMMA CreateShape ==
  ASSUME TypeOK, Paths, Locks, Quiet, NEW n, NEW r, Shape(n, r), NEW p \in Procs,
         NEW e \in Entries, CreateNewEntry(p, e)
  PROVE  Shape(n, r)'
<1> USE DEF Goto
<1>1. /\ pc[p] = "miss" /\ op[p] \in {"insert", "insertIfAbsent"} /\ e \notin used /\ used' = used \cup {e}
      /\ h' = NodeInit(h, e) /\ pc'[p] = "link" /\ at'[p] = e
      /\ UNCHANGED <<count, lock, op, arg, left, pos, seen, spoiled, plain, disturbed>>
      /\ key'[e] = arg[p] /\ \A d \in Entries \ {e} : key'[d] = key[d]
  BY DEF CreateNewEntry, TypeOK, history
<1>2. Local(p) /\ Holds(p) /\ B(p)' = B(p) /\ B(p) \in Buckets
  BY <1>1, Locality, Pointing DEF Write, Holds, Locked, Locking, B
<1>3. \A q \in Procs \ {p} : pc'[q] = pc[q] /\ at'[q] = at[q] /\ B(q)' = B(q) /\ arg'[q] = arg[q]
  BY <1>2 DEF Local
<1>4. ASSUME NEW b \in Buckets
      PROVE  /\ \A i \in 0 .. n[b] : r[b][i] # e
             /\ \A i \in 1 .. n[b] : r[b][i] \in used' /\ key'[r[b][i]] = key[r[b][i]]
             /\ Ring(h', b, n[b], r[b])
  <2>1. \A i \in 0 .. n[b] : r[b][i] # e /\ r[b][i] \in Nodes
    BY <1>1, InLists
  <2>2. h.next \in [Nodes -> Nodes] /\ h.prev \in [Nodes -> Nodes]
    BY DEF TypeOK
  <2>3. \A i \in 0 .. n[b] : h'.next[r[b][i]] = h.next[r[b][i]] /\ h'.prev[r[b][i]] = h.prev[r[b][i]]
    BY <1>1, <2>1, <2>2 DEF NodeInit, Link
  <2>4. n[b] \in Nat /\ Ring(h, b, n[b], r[b])
    BY InLists
  <2>5. Ring(h', b, n[b], r[b])
    BY <2>3, <2>4, RingKept
  <2>6. \A i \in 1 .. n[b] : r[b][i] \in used' /\ key'[r[b][i]] = key[r[b][i]]
    <3>1. \A i \in 1 .. n[b] : r[b][i] \in used /\ r[b][i] \in Entries
      BY InLists
    <3>2. QED
      BY <1>1, <3>1
  <2>7. QED
    BY <2>1, <2>5, <2>6
<1>5. \A b \in Buckets : SameBucket(n, r, n, r, b)
  BY <1>1, <1>4 DEF SameBucket
<1>6. Lists(n, r)'
  BY <1>4, InLists DEF Lists
<1>7. Hands(n, r)'
  <2>1. ASSUME NEW q \in Procs, pc'[q] \in {"link", "reinit"}
        PROVE  /\ at'[q] \in used' /\ Hash[key'[at'[q]]] = B(q)'
               /\ \A b \in Buckets : \A i \in 0 .. n[b] : r[b][i] # at'[q]
               /\ pc'[q] = "link" => key'[at'[q]] = arg'[q]
    <3>1. CASE q = p
      BY <1>1, <1>2, <1>4, <3>1 DEF B
    <3>2. CASE q # p
      <4>1. at[q] \in used /\ at[q] \in Entries /\ at[q] # e
        BY <1>1, <1>3, <2>1, <3>2 DEF Shape, Hands, TypeOK
      <4>2. QED
        BY <1>1, <1>3, <2>1, <3>2, <4>1 DEF Shape, Hands
    <3>3. QED
      BY <3>1, <3>2
  <2>2. ASSUME NEW d \in used'
        PROVE  \/ \E i \in 1 .. n[Hash[key'[d]]] : r[Hash[key'[d]]][i] = d
               \/ \E q \in Procs : pc'[q] \in {"link", "reinit"} /\ at'[q] = d
    <3>1. CASE d = e
      BY <1>1, <3>1
    <3>2. CASE d # e
      <4>1. d \in used /\ key'[d] = key[d]
        BY <1>1, <2>2, <3>2 DEF TypeOK
      <4>2. QED
        BY <1>1, <1>3, <4>1 DEF Shape, Hands
    <3>3. QED
      BY <3>1, <3>2
  <2>3. QED
    BY <2>1, <2>2 DEF Hands
<1>8. Counts(n)'
  <2>1. \A b, k : Says(b, k)' <=> Says(b, k)
    BY <1>1 DEF Says
  <2>2. \A q \in Procs : (pc'[q] \in Moving <=> pc[q] \in Moving) /\ (pc'[q] \in Moving => q # p)
    BY <1>1, <1>3 DEF Moving
  <2>3. QED
    BY <1>1, <1>3, <2>1, <2>2 DEF Shape, Counts, Moving
<1>9. Searches(n, r)'
  <2>1. Sought(n, r, p)'
    BY <1>1 DEF Sought
  <2>2. \A q \in Procs \ {p} : Steady(q)' => Sought(n, r, q)'
    BY <1>1, <1>2, <1>5, OthersSought
  <2>3. QED
    BY <2>1, <2>2 DEF Searches
<1>10. Once(n, r)'
  <2> SUFFICES ASSUME ~ plain PROVE Once(n, r)'
    BY <1>1 DEF Once
  <2>1. \A b \in Buckets \ spoiled : \A i, k \in 1 .. n[b] : key'[r[b][i]] = key'[r[b][k]] => i = k
    BY <1>4 DEF Shape, Once
  <2>2. ASSUME NEW q \in Procs, pc'[q] = "link", B(q)' \notin spoiled, NEW j \in 1 .. n[B(q)]
        PROVE  key'[r[B(q)][j]] # arg[q]
    <3>1. B(q)' = B(q) /\ B(q) \in Buckets
      BY <1>2, <1>3, Pointing
    <3>2. key'[r[B(q)][j]] = key[r[B(q)][j]]
      BY <1>4, <3>1
    <3>3. CASE q = p
      <4>1. op[p] = "insertIfAbsent"
        BY <1>1 DEF Paths, OnPath
      <4>2. Steady(p)
        BY <4>1 DEF Steady
      <4>3. AsInt(count[B(p)]) = n[B(p)] /\ n[B(p)] \in Nat
        BY <1>1, <1>2, <2>2, <3>1, <3>3, <4>2, CountSeen, InLists
      <4>4. \A k \in 1 .. n[B(p)] : k <= AsInt(count[B(p)]) => key[r[B(p)][k]] # arg[p]
        BY <1>1, <4>2 DEF Shape, Searches, Sought
      <4>5. QED
        BY <3>2, <3>3, <4>3, <4>4
    <3>4. CASE q # p
      BY <1>3, <2>2, <3>1, <3>2, <3>4 DEF Shape, Once
    <3>5. QED
      BY <3>3, <3>4
  <2>3. \A q \in Procs : B(q)' = B(q) /\ arg' = arg
    BY <1>1, <1>2, <1>3
  <2>4. QED
    BY <1>1, <2>1, <2>2, <2>3 DEF Once
<1>11. Ghosts(n, r)'
  BY DEF Shape, Ghosts, Nodes
<1>12. QED
  BY <1>6, <1>7, <1>8, <1>9, <1>10, <1>11 DEF Shape


\* insertEntry links the entry in hand at the end of its bucket's list.
LEMMA InsertShape ==
  ASSUME TypeOK, Paths, Locks, Quiet, NEW n, NEW r, Shape(n, r), NEW p \in Procs, InsertEntry(p)
  PROVE  \E m, s : Shape(m, s)'
<1> USE DEF Goto
<1> SUFFICES ASSUME NEW b, b = B(p), NEW e, e = at[p] PROVE \E m, s : Shape(m, s)'
  OBVIOUS
<1>1. /\ pc[p] = "link" /\ h' = ListInsertTail(h, e, b) /\ pc'[p] = "counted"
      /\ disturbed' = disturbed \cup Readers(b)
      /\ UNCHANGED <<key, count, used, lock, op, arg, at, left, pos, seen, spoiled, plain>>
  BY DEF InsertEntry, TypeOK, callVars, Disturb
<1>2. Local(p) /\ Holds(p) /\ b \in Buckets /\ \A q \in Procs : B(q)' = B(q)
  BY <1>1, Locality, Owners, Pointing DEF Write, B
<1>3. \A q \in Procs \ {p} : pc'[q] = pc[q]
  BY <1>2 DEF Local
<1>4. /\ e \in used /\ e \in Nodes /\ Hash[key[e]] = b /\ key[e] = arg[p]
      /\ \A d \in Buckets : \A i \in 0 .. n[d] : r[d][i] # e
  BY <1>1 DEF Shape, Hands, TypeOK
<1> DEFINE k == n[b]
<1>5. /\ k \in Nat /\ r[b] \in [Nat -> Nodes] /\ Ring(h, b, k, r[b])
      /\ \A q \in Procs \ {p} : pc[q] \in Moving \cup {"link"} => B(q) # b
      /\ \A q \in Procs \ {p} : pc[q] \in {"link", "reinit"} => at[q] # e
      /\ Says(b, k)
  BY <1>1, <1>2, Alone, InLists DEF Moving
<1> PICK m : m = [n EXCEPT ![b] = k + 1]
  OBVIOUS
<1> PICK t : t = Longer(r[b], k, e)
  OBVIOUS
<1> PICK s : s = [r EXCEPT ![b] = t]
  OBVIOUS
<1>6. /\ m[b] = k + 1 /\ s[b] = t
      /\ \A d \in Buckets \ {b} : m[d] = n[d] /\ s[d] = r[d]
  BY <1>2 DEF Shape, Ghosts
<1>7. t \in [Nat -> Nodes] /\ (\A i \in 1 .. k : t[i] = r[b][i]) /\ t[k + 1] = e /\ t[0] = b
  BY <1>4, <1>5, InLists, <1>2 DEF Longer
<1>8. Ring(h', b, k + 1, t)
  <2>1. Pointers(h, Nodes)
    BY Pointing
  <2>2. Ring(ListInsertTail(h, e, b), b, k + 1, Longer(r[b], k, e))
    BY <1>2, <1>4, <1>5, <2>1, TailInserted
  <2>3. QED
    BY <1>1, <2>2
<1>9. ASSUME NEW d \in Buckets \ {b}
      PROVE  Ring(h', d, n[d], r[d])
  <2>1. h.prev[b] = r[b][k]
    BY <1>5 DEF Ring
  <2>2. ASSUME NEW i \in 0 .. n[d]
        PROVE  r[d][i] \in Nodes /\ r[d][i] # e /\ r[d][i] # b /\ r[d][i] # r[b][k]
    <3>1. 0 \in 0 .. n[b] /\ k \in 0 .. n[b] /\ r[b][0] = b
      BY <1>2, <1>5, InLists
    <3>2. r[d][i] # r[b][0] /\ r[d][i] # r[b][k]
      BY <1>2, <3>1, RingsApart DEF Shape
    <3>3. QED
      BY <1>4, <3>1, <3>2, InLists
  <2>3. h.next \in [Nodes -> Nodes] /\ h.prev \in [Nodes -> Nodes]
    BY DEF TypeOK
  <2>4. \A i \in 0 .. n[d] : h'.next[r[d][i]] = h.next[r[d][i]] /\ h'.prev[r[d][i]] = h.prev[r[d][i]]
    BY <1>1, <2>1, <2>2, <2>3 DEF ListInsertTail, InsertBetween
  <2>5. n[d] \in Nat /\ Ring(h, d, n[d], r[d])
    BY InLists
  <2>6. QED
    BY <2>4, <2>5, RingKept
<1> HIDE DEF k
<1>10. \A d \in Buckets \ {b} : SameBucket(n, r, m, s, d)
  <2>1. \A d \in Buckets : \A i \in 1 .. n[d] : r[d][i] \in used
    BY InLists
  <2>2. QED
    BY <1>1, <1>6, <2>1 DEF SameBucket
<1>11. \A i \in 1 .. k + 1 : t[i] \in used /\ Hash[key[t[i]]] = b /\ (i \in 1 .. k \/ i = k + 1)
  <2>1. \A i \in 1 .. k + 1 : i \in 1 .. k \/ i = k + 1
    BY <1>5
  <2>2. \A i \in 1 .. k : t[i] \in used /\ Hash[key[t[i]]] = b
    BY <1>2, <1>7, InLists DEF k
  <2>3. QED
    BY <1>4, <1>7, <2>1, <2>2
<1>12. Lists(m, s)'
  <2>1. \A d \in Buckets : Ring(h', d, m[d], s[d])
    BY <1>6, <1>8, <1>9
  <2>2. \A d \in Buckets : \A i \in 1 .. m[d] : s[d][i] \in used /\ Hash[key[s[d][i]]] = d
    <3> SUFFICES ASSUME NEW d \in Buckets, NEW i \in 1 .. m[d]
                 PROVE  s[d][i] \in used /\ Hash[key[s[d][i]]] = d
      OBVIOUS
    <3>1. CASE d = b
      BY <1>6, <1>11, <3>1
    <3>2. CASE d # b
      BY <1>6, <3>2, InLists
    <3>3. QED
      BY <3>1, <3>2
  <2>3. QED
    BY <1>1, <2>1, <2>2 DEF Lists
<1>13. Hands(m, s)'
  <2>1. ASSUME NEW q \in Procs, pc'[q] \in {"link", "reinit"}
        PROVE  /\ at[q] \in used /\ Hash[key[at[q]]] = B(q)
               /\ \A d \in Buckets : \A i \in 0 .. m[d] : s[d][i] # at[q]
               /\ pc'[q] = "link" => key[at[q]] = arg[q]
    <3>1. q # p /\ pc[q] = pc'[q]
      BY <1>1, <1>3, <2>1
    <3>2. at[q] \in used /\ Hash[key[at[q]]] = B(q) /\ (pc[q] = "link" => key[at[q]] = arg[q])
      BY <2>1, <3>1 DEF Shape, Hands
    <3>3. \A d \in Buckets : \A i \in 0 .. n[d] : r[d][i] # at[q]
      BY <2>1, <3>1 DEF Shape, Hands
    <3>4. at[q] # e
      BY <1>5, <2>1, <3>1
    <3>5. \A i \in 0 .. k + 1 : t[i] # at[q]
      <4>1. \A i \in 0 .. k + 1 : i = 0 \/ i \in 1 .. k \/ i = k + 1
        BY <1>5
      <4>2. b # at[q]
        BY <1>2, <3>2, Constants DEF TypeOK
      <4>3. \A i \in 1 .. k : r[b][i] # at[q]
        BY <1>2, <1>5, <3>3 DEF k
      <4>4. QED
        BY <1>7, <3>4, <4>1, <4>2, <4>3
    <3>6. \A d \in Buckets : \A i \in 0 .. m[d] : s[d][i] # at[q]
      <4> SUFFICES ASSUME NEW d \in Buckets, NEW i \in 0 .. m[d] PROVE s[d][i] # at[q]
        OBVIOUS
      <4>1. CASE d = b
        BY <1>6, <3>5, <4>1
      <4>2. CASE d # b
        BY <1>6, <3>3, <4>2
      <4>3. QED
        BY <4>1, <4>2
    <3>7. QED
      BY <3>1, <3>2, <3>6
  <2>2. ASSUME NEW d \in used
        PROVE  \/ \E i \in 1 .. m[Hash[key[d]]] : s[Hash[key[d]]][i] = d
               \/ \E q \in Procs : pc'[q] \in {"link", "reinit"} /\ at[q] = d
    <3>0. Hash[key[d]] \in Buckets
      BY Constants DEF TypeOK
    <3>1. CASE \E i \in 1 .. n[Hash[key[d]]] : r[Hash[key[d]]][i] = d
      <4>1. CASE Hash[key[d]] = b
        <5>1. PICK i \in 1 .. k : r[b][i] = d
          BY <3>1, <4>1 DEF k
        <5>2. i \in 1 .. m[b] /\ s[b][i] = d
          BY <1>5, <1>6, <1>7, <5>1
        <5>3. QED
          BY <4>1, <5>2
      <4>2. CASE Hash[key[d]] # b
        BY <1>6, <3>0, <3>1, <4>2
      <4>3. QED
        BY <4>1, <4>2
    <3>2. ASSUME NEW q \in Procs, pc[q] \in {"link", "reinit"}, at[q] = d
          PROVE  \/ \E i \in 1 .. m[Hash[key[d]]] : s[Hash[key[d]]][i] = d
                 \/ \E u \in Procs : pc'[u] \in {"link", "reinit"} /\ at[u] = d
      <4>1. CASE q = p
        <5>1. d = e /\ Hash[key[d]] = b /\ k + 1 \in 1 .. m[b] /\ s[b][k + 1] = d
          BY <1>4, <1>5, <1>6, <1>7, <3>2, <4>1
        <5>2. QED
          BY <5>1
      <4>2. CASE q # p
        BY <1>3, <3>2, <4>2
      <4>3. QED
        BY <4>1, <4>2
    <3>3. QED
      BY <3>1, <3>2 DEF Shape, Hands
  <2>3. QED
    BY <1>1, <1>2, <2>1, <2>2 DEF Hands
<1>14. Counts(m)'
  <2>1. \A d, x : Says(d, x)' <=> Says(d, x)
    BY <1>1 DEF Says
  <2>2. ASSUME NEW d \in Buckets, \A q \in Procs : pc'[q] \in Moving => B(q) # d
        PROVE  Says(d, m[d])
    <3>1. d # b
      BY <1>1, <2>2 DEF Moving
    <3>2. \A q \in Procs : pc[q] \in Moving => B(q) # d
      BY <1>1, <1>3, <2>2 DEF Moving
    <3>3. QED
      BY <1>6, <3>1, <3>2 DEF Shape, Counts
  <2>3. m[b] >= 1 /\ Says(b, m[b] - 1)
    <3>1. m[b] >= 1 /\ m[b] - 1 = k
      BY <1>5, <1>6
    <3>2. QED
      BY <1>5, <3>1
  <2>4. \A q \in Procs \ {p} : pc[q] \in Moving => B(q) \in Buckets /\ B(q) # b /\ m[B(q)] = n[B(q)]
    BY <1>5, <1>6, Pointing
  <2>5. QED
    BY <1>1, <1>2, <1>3, <2>1, <2>2, <2>3, <2>4 DEF Shape, Counts, Moving
<1>15. Searches(m, s)'
  <2>1. Sought(m, s, p)'
    BY <1>1 DEF Sought
  <2>2. Unwatched(p)
    BY <1>1, <1>3 DEF Unwatched, Undisturbed, Readers
  <2>3. ASSUME NEW q \in Procs \ {p}, Steady(q)'
        PROVE  Sought(m, s, q)'
    <3>1. spoiled \subseteq spoiled' /\ \A d \in Buckets \ {B(p)} : SameBucket(n, r, m, s, d)
      BY <1>1, <1>10
    <3>2. \A m1, s1 : (\A d \in Buckets \ {B(p)} : SameBucket(n, r, m1, s1, d))
                       => Sought(m1, s1, q)'
      BY <1>2, <2>2, <2>3, <3>1, OthersSought
    <3>3. QED
      BY <3>1, <3>2
  <2>4. QED
    BY <2>1, <2>3 DEF Searches
<1>16. Once(m, s)'
  <2> SUFFICES ASSUME ~ plain PROVE Once(m, s)'
    BY <1>1 DEF Once
  <2>1. ASSUME NEW d \in Buckets \ spoiled, NEW i \in 1 .. m[d], NEW j \in 1 .. m[d],
               key[s[d][i]] = key[s[d][j]]
        PROVE  i = j
    <3>1. CASE d = b
      <4>1. \A x \in 1 .. k : key[t[x]] # key[e]
        BY <1>1, <1>4, <1>7, <2>1, <3>1 DEF Shape, Once, k
      <4>2. \A x, y \in 1 .. k : key[t[x]] = key[t[y]] => x = y
        BY <1>7, <2>1, <3>1 DEF Shape, Once, k
      <4>3. (i \in 1 .. k \/ i = k + 1) /\ (j \in 1 .. k \/ j = k + 1)
        BY <1>5, <1>6, <3>1
      <4>4. QED
        BY <1>6, <1>7, <2>1, <3>1, <4>1, <4>2, <4>3
    <3>2. CASE d # b
      BY <1>6, <2>1, <3>2 DEF Shape, Once
    <3>3. QED
      BY <3>1, <3>2
  <2>2. ASSUME NEW q \in Procs, pc'[q] = "link", B(q) \notin spoiled, NEW j \in 1 .. m[B(q)]
        PROVE  key[s[B(q)][j]] # arg[q]
    <3>1. q # p /\ pc[q] = "link" /\ B(q) # b /\ B(q) \in Buckets
      BY <1>1, <1>3, <1>5, <2>2, Pointing
    <3>2. QED
      BY <1>6, <2>2, <3>1 DEF Shape, Once
  <2>3. QED
    BY <1>1, <1>2, <2>1, <2>2 DEF Once
<1>17. Ghosts(m, s)'
  <2>1. n \in [Buckets -> Nat] /\ r \in [Buckets -> [Nat -> Nodes]] /\ k + 1 \in Nat
    BY <1>5 DEF Shape, Ghosts
  <2>2. m \in [Buckets -> Nat] /\ s \in [Buckets -> [Nat -> Nodes]]
    BY <1>7, <2>1
  <2>3. QED
    BY <2>2 DEF Ghosts, Nodes
<1>18. QED
  BY <1>12, <1>13, <1>14, <1>15, <1>16, <1>17 DEF Shape


\* head->count++ makes the count agree with the list again.
LEMMA CountUpShape ==
  ASSUME TypeOK, Paths, Locks, Quiet, NEW n, NEW r, Shape(n, r), NEW p \in Procs, CountUp(p)
  PROVE  Shape(n, r)'
<1> SUFFICES ASSUME NEW b, b = B(p) PROVE Shape(n, r)'
  OBVIOUS
<1>1. /\ pc[p] = "counted" /\ pc'[p] = "idle" /\ op'[p] = "find"
      /\ disturbed' = disturbed \cup Readers(b)
      /\ count' = [count EXCEPT ![b] = (count[b] + 1) % Word]
      /\ UNCHANGED <<h, key, used, spoiled, plain>>
  BY DEF CountUp, Return, Goto, TypeOK
<1>2. Local(p) /\ Holds(p) /\ b \in Buckets
  BY <1>1, Locality, Owners, Pointing DEF Write, Moving
<1>3. \A q \in Procs \ {p} : /\ pc'[q] = pc[q] /\ at'[q] = at[q] /\ B(q)' = B(q) /\ arg'[q] = arg[q]
                               /\ op'[q] = op[q]
  BY <1>2 DEF Local
<1>4. /\ n[b] \in Nat /\ count[b] \in 0 .. Word - 1 /\ n[b] < Word \div 2
      /\ \A q \in Procs \ {p} : pc[q] \in Moving \cup {"link"} => B(q) # b
  <2>1. n[b] \in Nat /\ \A q \in Procs \ {p} : pc[q] \in Moving \cup {"link"} => B(q) # b
    BY <1>2, Alone
  <2>2. n[b] <= Cardinality(Entries)
    BY <1>2, LengthBound DEF Shape
  <2>3. QED
    BY <1>2, <2>1, <2>2, Constants DEF TypeOK
<1>5. \A d \in Buckets \ {b} : count'[d] = count[d]
  BY <1>1 DEF TypeOK
<1>6. Says(b, n[b])'
  <2>1. n[b] >= 1 /\ Says(b, n[b] - 1)
    BY <1>1 DEF Shape, Counts
  <2>2. count'[b] = (count[b] + 1) % Word
    BY <1>1, <1>2 DEF TypeOK
  <2>3. count'[b] = IF count[b] = Word - 1 THEN 0 ELSE count[b] + 1
    BY <1>4, <2>2, Wraps
  <2>4. /\ count[b] <= n[b] - 1 \/ count[b] >= Word \div 2
        /\ b \notin spoiled => count[b] = n[b] - 1
    BY <2>1 DEF Says
  <2>5. /\ count'[b] <= n[b] \/ count'[b] >= Word \div 2
        /\ b \notin spoiled => count'[b] = n[b]
    BY <1>4, <2>3, <2>4, Constants
  <2>6. QED
    BY <1>1, <2>5 DEF Says
<1>7. Lists(n, r)'
  BY <1>1 DEF Shape, Lists
<1>8. Hands(n, r)'
  <2>1. \A q \in Procs : pc'[q] \in {"link", "reinit"} <=> q # p /\ pc[q] \in {"link", "reinit"}
    BY <1>1, <1>3
  <2>2. QED
    BY <1>1, <1>3, <2>1 DEF Shape, Hands
<1>9. Counts(n)'
  <2>1. ASSUME NEW d \in Buckets \ {b}, NEW x
        PROVE  Says(d, x)' <=> Says(d, x)
    BY <1>1, <1>5 DEF Says
  <2>2. \A q \in Procs : pc'[q] \in Moving => q # p /\ pc[q] \in Moving /\ B(q) \in Buckets \ {b}
    BY <1>1, <1>3, <1>4, Pointing DEF Moving
  <2>3. ASSUME NEW d \in Buckets, \A q \in Procs : pc'[q] \in Moving => B(q)' # d
        PROVE  Says(d, n[d])'
    <3>1. CASE d = b
      BY <1>6, <3>1
    <3>2. CASE d # b
      <4>1. \A q \in Procs : pc[q] \in Moving => B(q) # d
        BY <1>3, <2>3, <3>2
      <4>2. Says(d, n[d])
        BY <4>1 DEF Shape, Counts
      <4>3. QED
        BY <2>1, <3>2, <4>2
    <3>3. QED
      BY <3>1, <3>2
  <2>4. ASSUME NEW q \in Procs, pc'[q] \in Moving
        PROVE  /\ pc[q] = pc'[q] /\ B(q)' = B(q) /\ count'[B(q)] = count[B(q)]
               /\ \A x : Says(B(q), x)' <=> Says(B(q), x)
    BY <1>1, <1>3, <1>5, <2>2, <2>4 DEF Says
  <2>5. QED
    BY <1>1, <2>3, <2>4 DEF Shape, Counts, Moving
<1>10. Searches(n, r)'
  <2>1. ~ Steady(p)'
    BY <1>1 DEF Steady, Undisturbed
  <2>2. Unwatched(p)
    BY <1>1, <1>3 DEF Unwatched, Undisturbed, Readers
  <2>3. \A d \in Buckets \ {B(p)} : SameBucket(n, r, n, r, d)
    BY <1>1, <1>5, InLists DEF SameBucket
  <2>4. ASSUME NEW q \in Procs \ {p}, Steady(q)'
        PROVE  Sought(n, r, q)'
    <3>1. spoiled \subseteq spoiled'
      BY <1>1
    <3>2. QED
      BY <1>2, <2>2, <2>3, <2>4, <3>1, OthersSought
  <2>5. QED
    BY <2>1, <2>4 DEF Searches
<1>11. Once(n, r)'
  <2>1. \A q \in Procs : pc'[q] = "link" => q # p /\ pc[q] = "link"
    BY <1>1, <1>3
  <2>2. QED
    BY <1>1, <1>3, <2>1 DEF Shape, Once
<1>12. Ghosts(n, r)'
  BY DEF Shape, Ghosts, Nodes
<1>13. QED
  BY <1>7, <1>8, <1>9, <1>10, <1>11, <1>12 DEF Shape


\* list_init and free of the entry in hand: no list has it.
LEMMA ReinitShape ==
  ASSUME TypeOK, Paths, Locks, Quiet, NEW n, NEW r, Shape(n, r), NEW p \in Procs, Reinit(p)
  PROVE  Shape(n, r)'
<1> SUFFICES ASSUME NEW b, b = B(p), NEW e, e = at[p] PROVE Shape(n, r)'
  OBVIOUS
<1>1. /\ pc[p] = "reinit" /\ pc'[p] = "uncount" /\ h' = NodeInit(h, e) /\ used' = used \ {e}
      /\ UNCHANGED <<count, lock, op, arg, at, left, pos, seen, spoiled, plain, disturbed>>
      /\ \A d \in Entries \ {e} : key'[d] = key[d]
  BY DEF Reinit, Goto, TypeOK, callVars, history
<1>2. Local(p) /\ Holds(p) /\ b \in Buckets /\ \A q \in Procs : B(q)' = B(q)
  BY <1>1, Locality, Owners, Pointing DEF Write, Moving, B
<1>3. \A q \in Procs \ {p} : pc'[q] = pc[q]
  BY <1>2 DEF Local
<1>4. /\ e \in used /\ e \in Entries /\ e \in Nodes
      /\ \A d \in Buckets : \A i \in 0 .. n[d] : r[d][i] # e
  BY <1>1 DEF Shape, Hands, TypeOK, Nodes
<1>5. /\ n[b] \in Nat
      /\ \A q \in Procs \ {p} : pc[q] \in Moving \cup {"link"} => B(q) # b
      /\ \A q \in Procs \ {p} : pc[q] \in {"link", "reinit"} => at[q] # e
  BY <1>1, <1>2, Alone
<1>6. ASSUME NEW d \in Buckets
      PROVE  /\ \A i \in 1 .. n[d] : r[d][i] \in used' /\ key'[r[d][i]] = key[r[d][i]]
             /\ Ring(h', d, n[d], r[d])
  <2>1. \A i \in 0 .. n[d] : r[d][i] # e /\ r[d][i] \in Nodes
    BY <1>4, InLists
  <2>2. h.next \in [Nodes -> Nodes] /\ h.prev \in [Nodes -> Nodes]
    BY DEF TypeOK
  <2>3. \A i \in 0 .. n[d] : h'.next[r[d][i]] = h.next[r[d][i]] /\ h'.prev[r[d][i]] = h.prev[r[d][i]]
    BY <1>1, <2>1, <2>2 DEF NodeInit, Link
  <2>4. n[d] \in Nat /\ Ring(h, d, n[d], r[d])
    BY InLists
  <2>5. Ring(h', d, n[d], r[d])
    BY <2>3, <2>4, RingKept
  <2>6. \A i \in 1 .. n[d] : r[d][i] \in used' /\ key'[r[d][i]] = key[r[d][i]]
    <3>1. \A i \in 1 .. n[d] : i \in 0 .. n[d] /\ r[d][i] \in used /\ r[d][i] \in Entries
      BY <2>4, InLists
    <3>2. QED
      BY <1>1, <2>1, <3>1
  <2>7. QED
    BY <2>5, <2>6
<1>7. \A d \in Buckets : SameBucket(n, r, n, r, d)
  BY <1>1, <1>6 DEF SameBucket
<1>8. Lists(n, r)'
  BY <1>6, InLists DEF Lists
<1>9. Hands(n, r)'
  <2>1. ASSUME NEW q \in Procs, pc'[q] \in {"link", "reinit"}
        PROVE  /\ at[q] \in used' /\ Hash[key'[at[q]]] = B(q)
               /\ \A d \in Buckets : \A i \in 0 .. n[d] : r[d][i] # at[q]
               /\ pc'[q] = "link" => key'[at[q]] = arg[q]
    <3>1. q # p /\ pc[q] = pc'[q]
      BY <1>1, <1>3, <2>1
    <3>2. at[q] \in used /\ at[q] \in Entries /\ at[q] # e
      BY <1>5, <2>1, <3>1 DEF Shape, Hands, TypeOK
    <3>3. QED
      BY <1>1, <2>1, <3>1, <3>2 DEF Shape, Hands
  <2>2. ASSUME NEW d \in used'
        PROVE  \/ \E i \in 1 .. n[Hash[key'[d]]] : r[Hash[key'[d]]][i] = d
               \/ \E q \in Procs : pc'[q] \in {"link", "reinit"} /\ at[q] = d
    <3>1. d \in used /\ d # e /\ key'[d] = key[d]
      BY <1>1 DEF TypeOK
    <3>2. QED
      BY <1>1, <1>3, <3>1 DEF Shape, Hands
  <2>3. QED
    BY <1>1, <1>2, <2>1, <2>2 DEF Hands
<1>10. Counts(n)'
  <2>1. \A d, x : Says(d, x)' <=> Says(d, x)
    BY <1>1 DEF Says
  <2>2. \A q \in Procs : pc'[q] \in Moving <=> pc[q] \in Moving
    BY <1>1, <1>3 DEF Moving
  <2>3. /\ count[b] <= n[b] + 1 \/ count[b] > Word \div 2
        /\ b \notin spoiled => count[b] = n[b] + 1
    BY <1>1, <1>5 DEF Shape, Counts
  <2>4. QED
    BY <1>1, <1>2, <1>3, <2>1, <2>2, <2>3 DEF Shape, Counts
<1>11. Searches(n, r)'
  <2>1. Sought(n, r, p)'
    BY <1>1 DEF Sought
  <2>2. \A q \in Procs \ {p} : Steady(q)' => Sought(n, r, q)'
    BY <1>1, <1>2, <1>7, OthersSought
  <2>3. QED
    BY <2>1, <2>2 DEF Searches
<1>12. Once(n, r)'
  <2>1. ASSUME NEW q \in Procs, pc'[q] = "link"
        PROVE  pc[q] = "link" /\ B(q) \in Buckets
    BY <1>1, <1>3, <2>1, Pointing
  <2>2. QED
    BY <1>1, <1>2, <1>6, <2>1 DEF Shape, Once
<1>13. Ghosts(n, r)'
  BY DEF Shape, Ghosts, Nodes
<1>14. QED
  BY <1>8, <1>9, <1>10, <1>11, <1>12, <1>13 DEF Shape

\* erase of an absent key spoils the count of its bucket.
LEMMA EraseAbsentShape ==
  ASSUME TypeOK, Paths, Locks, Quiet, NEW n, NEW r, Shape(n, r), NEW p \in Procs, EraseAbsent(p)
  PROVE  Shape(n, r)'
<1> SUFFICES ASSUME NEW b, b = B(p) PROVE Shape(n, r)'
  OBVIOUS
<1>1. /\ op[p] = "erase" /\ pc[p] = "miss" /\ pc'[p] = "uncount" /\ spoiled' = spoiled \cup {b}
      /\ count[b] # Word \div 2
      /\ UNCHANGED <<h, key, count, used, lock, op, arg, at, left, pos, seen, plain, disturbed>>
  BY DEF EraseAbsent, Goto, TypeOK, callVars, mapVars
<1>2. Local(p) /\ Holds(p) /\ b \in Buckets /\ \A q \in Procs : B(q)' = B(q)
  BY <1>1, Locality, Pointing DEF Write, Holds, Locked, Locking, B
<1>3. \A q \in Procs \ {p} : pc'[q] = pc[q]
  BY <1>2 DEF Local
<1>4. /\ n[b] \in Nat /\ count[b] \in 0 .. Word - 1
      /\ \A q \in Procs \ {p} : pc[q] \in Moving \cup {"link"} => B(q) # b
      /\ Says(b, n[b])
  BY <1>1, <1>2, Alone DEF TypeOK, Moving
<1>5. count[b] <= n[b] + 1 \/ count[b] > Word \div 2
  BY <1>1, <1>4, Constants DEF Says
<1>6. Lists(n, r)'
  BY <1>1 DEF Shape, Lists
<1>7. Hands(n, r)'
  <2>1. \A q \in Procs : pc'[q] \in {"link", "reinit"} <=> q # p /\ pc[q] \in {"link", "reinit"}
    BY <1>1, <1>3
  <2>2. QED
    BY <1>1, <1>2, <1>3, <2>1 DEF Shape, Hands
<1>8. Counts(n)'
  <2>1. ASSUME NEW d \in Buckets \ {b}, NEW x
        PROVE  Says(d, x)' <=> Says(d, x)
    BY <1>1 DEF Says
  <2>2. ASSUME NEW d \in Buckets, \A q \in Procs : pc'[q] \in Moving => B(q) # d
        PROVE  Says(d, n[d])'
    <3>1. d # b
      BY <1>1, <2>2 DEF Moving
    <3>2. \A q \in Procs : pc[q] \in Moving => B(q) # d
      BY <1>1, <1>3, <2>2 DEF Moving
    <3>3. Says(d, n[d])
      BY <3>2 DEF Shape, Counts
    <3>4. QED
      BY <2>1, <3>1, <3>3
  <2>3. ASSUME NEW q \in Procs \ {p}, pc'[q] \in Moving
        PROVE  /\ pc[q] = pc'[q] /\ (B(q) \in spoiled' <=> B(q) \in spoiled)
               /\ \A x : Says(B(q), x)' <=> Says(B(q), x)
    <3>1. pc[q] = pc'[q] /\ B(q) # b
      BY <1>3, <1>4, <2>3
    <3>2. QED
      BY <1>1, <1>2, <3>1 DEF Says
  <2>4. QED
    BY <1>1, <1>2, <1>5, <2>2, <2>3 DEF Shape, Counts, Moving
<1>9. Searches(n, r)'
  <2>1. Sought(n, r, p)'
    BY <1>1 DEF Sought
  <2>2. Unwatched(p)
    BY <1>1, <1>2 DEF Unwatched, Undisturbed
  <2>3. \A d \in Buckets \ {B(p)} : SameBucket(n, r, n, r, d)
    BY <1>1, InLists DEF SameBucket
  <2>4. ASSUME NEW q \in Procs \ {p}, Steady(q)'
        PROVE  Sought(n, r, q)'
    <3>1. spoiled \subseteq spoiled'
      BY <1>1
    <3>2. QED
      BY <1>2, <2>2, <2>3, <2>4, <3>1, OthersSought
  <2>5. QED
    BY <2>1, <2>4 DEF Searches
<1>10. Once(n, r)'
  <2>1. \A q \in Procs : pc'[q] = "link" => q # p /\ pc[q] = "link"
    BY <1>1, <1>3
  <2>2. QED
    BY <1>1, <1>2, <2>1 DEF Shape, Once
<1>11. Ghosts(n, r)'
  BY DEF Shape, Ghosts, Nodes
<1>12. QED
  BY <1>6, <1>7, <1>8, <1>9, <1>10, <1>11 DEF Shape


\* first->count-- makes the count agree with the list again, or spoils it further.
LEMMA CountDownShape ==
  ASSUME TypeOK, Paths, Locks, Quiet, NEW n, NEW r, Shape(n, r), NEW p \in Procs, CountDown(p)
  PROVE  Shape(n, r)'
<1> SUFFICES ASSUME NEW b, b = B(p) PROVE Shape(n, r)'
  OBVIOUS
<1>1. /\ pc[p] = "uncount" /\ pc'[p] = "idle" /\ op'[p] = "find"
      /\ disturbed' = disturbed \cup Readers(b)
      /\ count' = [count EXCEPT ![b] = (count[b] - 1) % Word]
      /\ UNCHANGED <<h, key, used, spoiled, plain>>
  BY DEF CountDown, Return, Goto, TypeOK
<1>2. Local(p) /\ Holds(p) /\ b \in Buckets
  BY <1>1, Locality, Owners, Pointing DEF Write, Moving
<1>3. \A q \in Procs \ {p} : /\ pc'[q] = pc[q] /\ at'[q] = at[q] /\ B(q)' = B(q) /\ arg'[q] = arg[q]
                               /\ op'[q] = op[q]
  BY <1>2 DEF Local
<1>4. /\ n[b] \in Nat /\ count[b] \in 0 .. Word - 1 /\ n[b] < Word \div 2
      /\ \A q \in Procs \ {p} : pc[q] \in Moving \cup {"link"} => B(q) # b
  <2>1. n[b] \in Nat /\ \A q \in Procs \ {p} : pc[q] \in Moving \cup {"link"} => B(q) # b
    BY <1>2, Alone
  <2>2. n[b] <= Cardinality(Entries)
    BY <1>2, LengthBound DEF Shape
  <2>3. QED
    BY <1>2, <2>1, <2>2, Constants DEF TypeOK
<1>5. \A d \in Buckets \ {b} : count'[d] = count[d]
  BY <1>1 DEF TypeOK
<1>6. Says(b, n[b])'
  <2>1. /\ count[b] <= n[b] + 1 \/ count[b] > Word \div 2
        /\ b \notin spoiled => count[b] = n[b] + 1
    BY <1>1 DEF Shape, Counts
  <2>2. count'[b] = (count[b] - 1) % Word
    BY <1>1, <1>2 DEF TypeOK
  <2>3. count'[b] = IF count[b] = 0 THEN Word - 1 ELSE count[b] - 1
    BY <1>4, <2>2, Wraps
  <2>4. Word \in Nat /\ Word \div 2 \in Nat /\ Word > Word \div 2
    BY Constants
  <2>5. /\ count'[b] <= n[b] \/ count'[b] >= Word \div 2
        /\ b \notin spoiled => count'[b] = n[b]
    BY <1>4, <2>1, <2>3, <2>4
  <2>6. QED
    BY <1>1, <2>5 DEF Says
<1>7. Lists(n, r)'
  BY <1>1 DEF Shape, Lists
<1>8. Hands(n, r)'
  <2>1. \A q \in Procs : pc'[q] \in {"link", "reinit"} <=> q # p /\ pc[q] \in {"link", "reinit"}
    BY <1>1, <1>3
  <2>2. QED
    BY <1>1, <1>3, <2>1 DEF Shape, Hands
<1>9. Counts(n)'
  <2>1. ASSUME NEW d \in Buckets \ {b}, NEW x
        PROVE  Says(d, x)' <=> Says(d, x)
    BY <1>1, <1>5 DEF Says
  <2>2. \A q \in Procs : pc'[q] \in Moving => q # p /\ pc[q] \in Moving /\ B(q) \in Buckets \ {b}
    BY <1>1, <1>3, <1>4, Pointing DEF Moving
  <2>3. ASSUME NEW d \in Buckets, \A q \in Procs : pc'[q] \in Moving => B(q)' # d
        PROVE  Says(d, n[d])'
    <3>1. CASE d = b
      BY <1>6, <3>1
    <3>2. CASE d # b
      <4>1. \A q \in Procs : pc[q] \in Moving => B(q) # d
        BY <1>3, <2>3, <3>2
      <4>2. Says(d, n[d])
        BY <4>1 DEF Shape, Counts
      <4>3. QED
        BY <2>1, <3>2, <4>2
    <3>3. QED
      BY <3>1, <3>2
  <2>4. ASSUME NEW q \in Procs, pc'[q] \in Moving
        PROVE  /\ pc[q] = pc'[q] /\ B(q)' = B(q) /\ count'[B(q)] = count[B(q)]
               /\ \A x : Says(B(q), x)' <=> Says(B(q), x)
    BY <1>1, <1>3, <1>5, <2>2, <2>4 DEF Says
  <2>5. QED
    BY <1>1, <2>3, <2>4 DEF Shape, Counts, Moving
<1>10. Searches(n, r)'
  <2>1. ~ Steady(p)'
    BY <1>1 DEF Steady, Undisturbed
  <2>2. Unwatched(p)
    BY <1>1, <1>3 DEF Unwatched, Undisturbed, Readers
  <2>3. \A d \in Buckets \ {B(p)} : SameBucket(n, r, n, r, d)
    BY <1>1, <1>5, InLists DEF SameBucket
  <2>4. ASSUME NEW q \in Procs \ {p}, Steady(q)'
        PROVE  Sought(n, r, q)'
    <3>1. spoiled \subseteq spoiled'
      BY <1>1
    <3>2. QED
      BY <1>2, <2>2, <2>3, <2>4, <3>1, OthersSought
  <2>5. QED
    BY <2>1, <2>4 DEF Searches
<1>11. Once(n, r)'
  <2>1. \A q \in Procs : pc'[q] = "link" => q # p /\ pc[q] = "link"
    BY <1>1, <1>3
  <2>2. QED
    BY <1>1, <1>3, <2>1 DEF Shape, Once
<1>12. Ghosts(n, r)'
  BY DEF Shape, Ghosts, Nodes
<1>13. QED
  BY <1>7, <1>8, <1>9, <1>10, <1>11, <1>12 DEF Shape


\* The neighbours of an entry that was found are linked to each other.
LEMMA UnlinkShape ==
  ASSUME TypeOK, Paths, Locks, Quiet, NEW n, NEW r, Shape(n, r), NEW p \in Procs, Unlink(p)
  PROVE  \E m, s : Shape(m, s)'
<1> USE DEF Goto
<1> SUFFICES ASSUME NEW b, b = B(p), NEW e, e = at[p] PROVE \E m, s : Shape(m, s)'
  OBVIOUS
<1>1. /\ op[p] = "erase" /\ pc[p] = "hit" /\ h' = Link(h, h.prev[e], h.next[e]) /\ pc'[p] = "reinit"
      /\ disturbed' = disturbed \cup Readers(b)
      /\ UNCHANGED <<key, count, used, lock, op, arg, at, left, pos, seen, spoiled, plain>>
  BY DEF Unlink, TypeOK, callVars, Disturb
<1>2. Local(p) /\ Holds(p) /\ b \in Buckets /\ \A q \in Procs : B(q)' = B(q)
  BY <1>1, Locality, Pointing DEF Write, Holds, Locked, Locking, B
<1>3. \A q \in Procs \ {p} : pc'[q] = pc[q]
  BY <1>2 DEF Local
<1> DEFINE k == n[b]
<1>4. /\ k \in Nat /\ r[b] \in [Nat -> Nodes] /\ Ring(h, b, k, r[b])
      /\ \A q \in Procs \ {p} : pc[q] \in Moving \cup {"link"} => B(q) # b
      /\ \A i \in 1 .. k : r[b][i] \in used /\ Hash[key[r[b][i]]] = b
  BY <1>2, Alone, InLists
<1>5. Steady(p)
  BY <1>1 DEF Steady
<1>6. PICK x \in 1 .. k : e = r[b][x] /\ x <= AsInt(count[b])
  BY <1>1, <1>5 DEF Shape, Searches, Sought
<1>7. count[b] \in 1 .. k /\ (b \notin spoiled => count[b] = k)
  <2>1. AsInt(count[b]) \in 0 .. k /\ (b \notin spoiled => AsInt(count[b]) = k)
    BY <1>1, <1>5, CountSeen
  <2>2. count[b] \in 0 .. Word - 1
    BY <1>2 DEF TypeOK
  <2>3. AsInt(count[b]) > 0 /\ (AsInt(count[b]) = count[b] \/ AsInt(count[b]) = 0)
    BY <1>4, <1>6, <2>1, <2>2, IntOfCount
  <2>4. QED
    BY <1>4, <2>1, <2>3
<1>8. /\ e \in used /\ Hash[key[e]] = b
      /\ \A i, j \in 0 .. k : r[b][i] = r[b][j] => i = j
  BY <1>4, <1>6 DEF Ring
<1> PICK m : m = [n EXCEPT ![b] = k - 1]
  OBVIOUS
<1> PICK t : t = Without(r[b], x)
  OBVIOUS
<1> PICK s : s = [r EXCEPT ![b] = t]
  OBVIOUS
<1>9. /\ m[b] = k - 1 /\ s[b] = t
      /\ \A d \in Buckets \ {b} : m[d] = n[d] /\ s[d] = r[d]
  BY <1>2 DEF Shape, Ghosts
<1>10. t \in [Nat -> Nodes] /\ \A i \in Nat : t[i] = IF i < x THEN r[b][i] ELSE r[b][i + 1]
  BY <1>4 DEF Without
<1>11. Ring(h', b, k - 1, t)
  <2>1. Pointers(h, Nodes)
    BY Pointing
  <2>2. Ring(Link(h, h.prev[r[b][x]], h.next[r[b][x]]), b, k - 1, Without(r[b], x))
    BY <1>4, <2>1, EntryUnlinked
  <2>3. QED
    BY <1>1, <1>6, <2>2
<1>12. ASSUME NEW d \in Buckets \ {b}
       PROVE  Ring(h', d, n[d], r[d])
  <2>1. h.prev[e] = r[b][x - 1] /\ h.next[e] = r[b][x + 1]
    <3>1. x - 1 \in 0 .. k /\ x \in 0 .. k /\ (x - 1) + 1 = x
      BY <1>4
    <3>2. \A i \in 0 .. k : h.next[r[b][i]] = r[b][i + 1] /\ h.prev[r[b][i + 1]] = r[b][i]
      BY <1>4 DEF Ring
    <3>3. QED
      BY <1>6, <3>1, <3>2
  <2>2. ASSUME NEW i \in 0 .. n[d]
        PROVE  r[d][i] \in Nodes /\ r[d][i] # h.prev[e] /\ r[d][i] # h.next[e]
    <3>1. \A j \in 0 .. n[b] : r[d][i] # r[b][j]
      BY <1>2, RingsApart DEF Shape
    <3>2. x - 1 \in 0 .. k /\ (x + 1 \in 0 .. k \/ x + 1 = k + 1) /\ 0 \in 0 .. k
      BY <1>4
    <3>3. r[b][k + 1] = r[b][0]
      BY <1>4 DEF Ring
    <3>4. QED
      BY <2>1, <3>1, <3>2, <3>3, InLists
  <2>3. h.next \in [Nodes -> Nodes] /\ h.prev \in [Nodes -> Nodes]
    BY DEF TypeOK
  <2>4. \A i \in 0 .. n[d] : h'.next[r[d][i]] = h.next[r[d][i]] /\ h'.prev[r[d][i]] = h.prev[r[d][i]]
    BY <1>1, <2>2, <2>3 DEF Link
  <2>5. n[d] \in Nat /\ Ring(h, d, n[d], r[d])
    BY InLists
  <2>6. QED
    BY <2>4, <2>5, RingKept
<1> HIDE DEF k
<1>13. \A d \in Buckets \ {b} : SameBucket(n, r, m, s, d)
  <2>1. \A d \in Buckets : \A i \in 1 .. n[d] : r[d][i] \in used
    BY InLists
  <2>2. QED
    BY <1>1, <1>9, <2>1 DEF SameBucket
<1>14. ASSUME NEW i \in 0 .. k - 1
       PROVE  \E j \in 0 .. k : /\ t[i] = r[b][j] /\ j # x /\ (i = 0 <=> j = 0)
                                /\ j = IF i < x THEN i ELSE i + 1
  <2>1. i \in Nat /\ i \in 0 .. k /\ i + 1 \in 0 .. k /\ x \in 1 .. k
    BY <1>4 DEF k
  <2>2. CASE i < x
    BY <1>10, <2>1, <2>2
  <2>3. CASE ~ (i < x)
    <3>1. t[i] = r[b][i + 1] /\ i + 1 # x /\ i # 0 /\ i + 1 # 0
      BY <1>10, <2>1, <2>3
    <3>2. QED
      BY <2>1, <2>3, <3>1
  <2>4. QED
    BY <2>2, <2>3
<1>15. ASSUME NEW i \in 1 .. k - 1
       PROVE  \E j \in 1 .. k : /\ t[i] = r[b][j] /\ j # x
                                /\ j = IF i < x THEN i ELSE i + 1
  <2>1. i \in 0 .. k - 1 /\ i # 0
    BY <1>4
  <2>2. PICK j \in 0 .. k : /\ t[i] = r[b][j] /\ j # x /\ (i = 0 <=> j = 0)
                            /\ j = IF i < x THEN i ELSE i + 1
    BY <1>14, <2>1
  <2>3. j \in 1 .. k
    BY <1>4, <2>1, <2>2
  <2>4. QED
    BY <2>2, <2>3
<1>16. Lists(m, s)'
  <2>1. \A d \in Buckets : Ring(h', d, m[d], s[d])
    BY <1>9, <1>11, <1>12
  <2>2. \A d \in Buckets : \A i \in 1 .. m[d] : s[d][i] \in used /\ Hash[key[s[d][i]]] = d
    <3> SUFFICES ASSUME NEW d \in Buckets, NEW i \in 1 .. m[d]
                 PROVE  s[d][i] \in used /\ Hash[key[s[d][i]]] = d
      OBVIOUS
    <3>1. CASE d = b
      <4>1. \E j \in 1 .. k : t[i] = r[b][j]
        BY <1>9, <1>15, <3>1
      <4>2. QED
        BY <1>4, <1>9, <3>1, <4>1 DEF k
    <3>2. CASE d # b
      BY <1>9, <3>2, InLists
    <3>3. QED
      BY <3>1, <3>2
  <2>3. QED
    BY <1>1, <2>1, <2>2 DEF Lists

<1>17. \A d \in Buckets : \A i \in 0 .. m[d] : s[d][i] # e
  <2> SUFFICES ASSUME NEW d \in Buckets, NEW i \in 0 .. m[d] PROVE s[d][i] # e
    OBVIOUS
  <2>1. CASE d = b
    <3>1. PICK j \in 0 .. k : t[i] = r[b][j] /\ j # x
      BY <1>9, <1>14, <2>1
    <3>2. x \in 0 .. k
      BY <1>4 DEF k
    <3>3. QED
      BY <1>6, <1>8, <1>9, <2>1, <3>1, <3>2 DEF k
  <2>2. CASE d # b
    <3>1. x \in 0 .. n[b] /\ i \in 0 .. n[d]
      BY <1>4, <1>9, <2>2 DEF k
    <3>2. r[d][i] # r[b][x]
      BY <1>2, <2>2, <3>1, RingsApart DEF Shape
    <3>3. QED
      BY <1>6, <1>9, <2>2, <3>2
  <2>3. QED
    BY <2>1, <2>2
<1>18. Hands(m, s)'
  <2>1. ASSUME NEW q \in Procs, pc'[q] \in {"link", "reinit"}
        PROVE  /\ at[q] \in used /\ Hash[key[at[q]]] = B(q)
               /\ \A d \in Buckets : \A i \in 0 .. m[d] : s[d][i] # at[q]
               /\ pc'[q] = "link" => key[at[q]] = arg[q]
    <3>1. CASE q = p
      BY <1>1, <1>8, <1>17, <3>1
    <3>2. CASE q # p
      <4>1. pc[q] \in {"link", "reinit"} /\ pc'[q] = pc[q]
        BY <1>3, <2>1, <3>2
      <4>2. \A d \in Buckets : \A i \in 0 .. n[d] : r[d][i] # at[q]
        BY <4>1 DEF Shape, Hands
      <4>3. ASSUME NEW d \in Buckets, NEW i \in 0 .. m[d] PROVE s[d][i] # at[q]
        <5>1. CASE d = b
          <6>1. \E j \in 0 .. k : t[i] = r[b][j]
            BY <1>9, <1>14, <5>1
          <6>2. QED
            BY <1>2, <1>9, <4>2, <5>1, <6>1 DEF k
        <5>2. CASE d # b
          BY <1>9, <4>2, <5>2
        <5>3. QED
          BY <5>1, <5>2
      <4>4. QED
        BY <4>1, <4>3 DEF Shape, Hands
    <3>3. QED
      BY <3>1, <3>2
  <2>2. ASSUME NEW d \in used
        PROVE  \/ \E i \in 1 .. m[Hash[key[d]]] : s[Hash[key[d]]][i] = d
               \/ \E q \in Procs : pc'[q] \in {"link", "reinit"} /\ at[q] = d
    <3>0. Hash[key[d]] \in Buckets
      BY Constants DEF TypeOK
    <3>1. CASE \E i \in 1 .. n[Hash[key[d]]] : r[Hash[key[d]]][i] = d
      <4>1. CASE Hash[key[d]] = b
        <5>1. PICK j \in 1 .. k : r[b][j] = d
          BY <3>1, <4>1 DEF k
        <5>2. CASE j = x
          BY <1>1, <1>6, <5>1, <5>2
        <5>3. CASE j # x
          <6>1. PICK i \in 1 .. k - 1 : j = IF i < x THEN i ELSE i + 1
            <7>1. CASE j < x
              <8>1. j \in 1 .. k - 1
                BY <1>4, <7>1 DEF k
              <8>2. QED
                BY <7>1, <8>1
            <7>2. CASE j > x
              <8>1. j - 1 \in 1 .. k - 1 /\ ~ (j - 1 < x) /\ j = (j - 1) + 1
                BY <1>4, <7>2 DEF k
              <8>2. QED
                BY <8>1
            <7>3. QED
              BY <1>4, <5>3, <7>1, <7>2 DEF k
          <6>2. t[i] = d
            BY <1>10, <5>1, <6>1
          <6>3. QED
            BY <1>9, <4>1, <6>1, <6>2
        <5>4. QED
          BY <5>2, <5>3
      <4>2. CASE Hash[key[d]] # b
        BY <1>9, <3>0, <3>1, <4>2
      <4>3. QED
        BY <4>1, <4>2
    <3>2. CASE \E q \in Procs : pc[q] \in {"link", "reinit"} /\ at[q] = d
      BY <1>1, <1>3, <3>2
    <3>3. QED
      BY <3>1, <3>2 DEF Shape, Hands
  <2>3. QED
    BY <1>1, <1>2, <2>1, <2>2 DEF Hands
<1>19. Counts(m)'
  <2>1. \A d, y : Says(d, y)' <=> Says(d, y)
    BY <1>1 DEF Says
  <2>2. ASSUME NEW d \in Buckets, \A q \in Procs : pc'[q] \in Moving => B(q) # d
        PROVE  Says(d, m[d])
    <3>1. d # b
      BY <1>1, <2>2 DEF Moving
    <3>2. \A q \in Procs : pc[q] \in Moving => B(q) # d
      BY <1>1, <1>3, <2>2 DEF Moving
    <3>3. QED
      BY <1>9, <3>1, <3>2 DEF Shape, Counts
  <2>3. count[b] \in 1 .. m[b] + 1 /\ (b \notin spoiled => count[b] = m[b] + 1)
    BY <1>4, <1>7, <1>9
  <2>4. \A q \in Procs \ {p} : pc[q] \in Moving => B(q) \in Buckets /\ B(q) # b /\ m[B(q)] = n[B(q)]
    BY <1>4, <1>9, Pointing
  <2>5. QED
    BY <1>1, <1>2, <1>3, <2>1, <2>2, <2>3, <2>4 DEF Shape, Counts, Moving
<1>20. Searches(m, s)'
  <2>1. Sought(m, s, p)'
    BY <1>1 DEF Sought
  <2>2. Unwatched(p)
    BY <1>1, <1>3 DEF Unwatched, Undisturbed, Readers
  <2>3. ASSUME NEW q \in Procs \ {p}, Steady(q)'
        PROVE  Sought(m, s, q)'
    <3>1. spoiled \subseteq spoiled' /\ \A d \in Buckets \ {B(p)} : SameBucket(n, r, m, s, d)
      BY <1>1, <1>13
    <3>2. \A m1, s1 : (\A d \in Buckets \ {B(p)} : SameBucket(n, r, m1, s1, d))
                       => Sought(m1, s1, q)'
      BY <1>2, <2>2, <2>3, <3>1, OthersSought
    <3>3. QED
      BY <3>1, <3>2
  <2>4. QED
    BY <2>1, <2>3 DEF Searches
<1>21. Once(m, s)'
  <2> SUFFICES ASSUME ~ plain PROVE Once(m, s)'
    BY <1>1 DEF Once
  <2>1. ASSUME NEW d \in Buckets \ spoiled, NEW i \in 1 .. m[d], NEW j \in 1 .. m[d],
               key[s[d][i]] = key[s[d][j]]
        PROVE  i = j
    <3>1. CASE d = b
      <4>1. PICK u \in 1 .. k : t[i] = r[b][u] /\ u = IF i < x THEN i ELSE i + 1
        BY <1>9, <1>15, <3>1
      <4>2. PICK v \in 1 .. k : t[j] = r[b][v] /\ v = IF j < x THEN j ELSE j + 1
        BY <1>9, <1>15, <3>1
      <4>3. u = v
        BY <1>9, <2>1, <3>1, <4>1, <4>2 DEF Shape, Once, k
      <4>4. i \in Nat /\ j \in Nat /\ x \in Nat
        BY <1>4, <1>9, <3>1 DEF k
      <4>5. QED
        BY <4>1, <4>2, <4>3, <4>4
    <3>2. CASE d # b
      BY <1>9, <2>1, <3>2 DEF Shape, Once
    <3>3. QED
      BY <3>1, <3>2
  <2>2. ASSUME NEW q \in Procs, pc'[q] = "link", B(q) \notin spoiled, NEW j \in 1 .. m[B(q)]
        PROVE  key[s[B(q)][j]] # arg[q]
    <3>1. q # p /\ pc[q] = "link" /\ B(q) # b /\ B(q) \in Buckets
      BY <1>1, <1>3, <1>4, <2>2, Pointing
    <3>2. QED
      BY <1>9, <2>2, <3>1 DEF Shape, Once
  <2>3. QED
    BY <1>1, <1>2, <2>1, <2>2 DEF Once
<1>22. Ghosts(m, s)'
  <2>1. n \in [Buckets -> Nat] /\ r \in [Buckets -> [Nat -> Nodes]] /\ k - 1 \in Nat
    BY <1>4 DEF Shape, Ghosts
  <2>2. m \in [Buckets -> Nat] /\ s \in [Buckets -> [Nat -> Nodes]]
    BY <1>10, <2>1
  <2>3. QED
    BY <2>2 DEF Ghosts, Nodes
<1>23. QED
  BY <1>16, <1>18, <1>19, <1>20, <1>21, <1>22 DEF Shape


-----------------------------------------------------------------------------
(* The theorems *)

\* HashMap::initialize leaves every list empty.
LEMMA InitInv ==
  ASSUME Init
  PROVE  Inv
<1>1. TypeOK
  <2>1. 0 \in Nodes /\ _buckets \in Nat \ {0} /\ Word \in Nat /\ Word > 0 /\ AnyKey \in Keys
    BY Constants DEF Nodes
  <2>2. <<>> \in Seq(Nodes)
    OBVIOUS
  <2>3. QED
    BY <2>1, <2>2 DEF Init, TypeOK, Locking
<1>2. Paths
  BY DEF Init, Paths, OnPath
<1>3. Locks
  BY Constants DEF Init, Locks, Holds, Locked
<1>4. Quiet
  BY DEF Init, Quiet, Undisturbed
<1>5. \E n, r : Shape(n, r)
  <2> PICK n : n = [b \in Buckets |-> 0]
    OBVIOUS
  <2> PICK r : r = [b \in Buckets |-> [i \in Nat |-> b]]
    OBVIOUS
  <2>1. Ghosts(n, r)
    BY DEF Ghosts, Nodes
  <2>2. Lists(n, r)
    <3>1. \A b \in Buckets : n[b] = 0 /\ r[b][0] = b /\ r[b][1] = b /\ h.next[b] = b /\ h.prev[b] = b
      BY DEF Init, Nodes
    <3>2. \A b \in Buckets : Ring(h, b, n[b], r[b])
      BY <3>1 DEF Ring
    <3>3. QED
      BY <3>1, <3>2 DEF Lists
  <2>3. Hands(n, r)
    BY DEF Init, Hands
  <2>4. Counts(n)
    BY DEF Init, Counts, Says, Moving
  <2>5. Searches(n, r)
    BY DEF Init, Searches, Sought
  <2>6. Once(n, r)
    BY DEF Init, Once
  <2>7. QED
    BY <2>1, <2>2, <2>3, <2>4, <2>5, <2>6 DEF Shape
<1>6. QED
  BY <1>1, <1>2, <1>3, <1>4, <1>5 DEF Inv

\* Every step keeps the invariant.
LEMMA NextInv ==
  ASSUME Inv, [Next]_vars
  PROVE  Inv'
<1>0. TypeOK /\ Paths /\ Locks /\ Quiet /\ \E n, r : Shape(n, r)
  BY DEF Inv
<1>1. ASSUME NEW p \in Procs, Look(p) \/ Write(p) PROVE Inv'
  <2>1. TypeOK' /\ Paths' /\ Locks' /\ Quiet'
    BY <1>0, <1>1, LookTypes, WriteTypes, PathsKept, LocksKept, QuietKept
  <2>2. (\E n, r : Shape(n, r))'
    <3>1. PICK n, r : Shape(n, r)
      BY <1>0
    <3>2. CASE Look(p)
      BY <1>0, <3>1, <3>2, LookShape
    <3>3. ASSUME NEW e \in Entries, CreateNewEntry(p, e) PROVE Shape(n, r)'
      BY <1>0, <3>1, <3>3, CreateShape
    <3>4. CASE InsertEntry(p) \/ Unlink(p)
      BY <1>0, <3>1, <3>4, InsertShape, UnlinkShape
    <3>5. CASE CountUp(p) \/ CountDown(p) \/ Reinit(p) \/ EraseAbsent(p)
      BY <1>0, <3>1, <3>5, CountUpShape, CountDownShape, ReinitShape, EraseAbsentShape
    <3>6. QED
      BY <1>1, <3>2, <3>3, <3>4, <3>5 DEF Write
  <2>3. QED
    BY <2>1, <2>2 DEF Inv
<1>2. CASE UNCHANGED vars
  <2>1. UNCHANGED <<h, key, count, used, lock, pc, op, arg, at, left, pos, seen, spoiled, plain, disturbed>>
    BY <1>2 DEF vars, mapVars, callVars, history
  <2>2. TypeOK' /\ Paths' /\ Locks' /\ Quiet'
    BY <1>0, <2>1 DEF TypeOK, Paths, OnPath, Locks, Holds, Quiet, Undisturbed, B
  <2>3. ASSUME NEW n, NEW r, Shape(n, r) PROVE Shape(n, r)'
    BY <2>1, <2>3 DEF Shape, Ghosts, Lists, Hands, Counts, Says, Searches, Steady, Undisturbed, Sought,
                      Once, B, AsInt
  <2>4. QED
    BY <1>0, <2>2, <2>3 DEF Inv
<1>3. QED
  BY <1>1, <1>2, Steps

\* The lists are there at every moment.
THEOREM Invariance == Spec => []Inv
<1>1. Init => Inv
  BY InitInv
<1>2. Inv /\ [Next]_vars => Inv'
  BY NextInv
<1>3. QED
  BY <1>1, <1>2, PTL DEF Spec

\* Every variable keeps its type; no pointer of a list leads out of the heads and
\* the entries.
THEOREM HashMapTyping == Spec => []TypeOK
<1>1. Inv => TypeOK
  BY DEF Inv
<1>2. QED
  BY <1>1, Invariance, PTL

\* A search under the lock stays among the entries of its bucket (hashmap.h:285).
THEOREM SearchesStay == Spec => []ScanSafe
<1>1. Inv => ScanSafe
  <2> SUFFICES ASSUME Inv, NEW p \in Procs, op[p] \in Locking,
                      pc[p] = "hit" \/ (pc[p] = "scan" /\ left[p] > 0)
               PROVE  at[p] \in used /\ Hash[key[at[p]]] = B(p)
    BY DEF ScanSafe
  <2>1. TypeOK /\ Paths /\ Locks /\ Quiet
    BY DEF Inv
  <2>2. PICK n, r : Shape(n, r)
    BY DEF Inv
  <2>3. Steady(p)
    BY <2>1 DEF Paths, OnPath, Steady, Locking
  <2>4. /\ AsInt(count[B(p)]) \in 0 .. n[B(p)] /\ B(p) \in Buckets
        /\ left[p] \in Nat /\ n[B(p)] \in Nat
    <3>1. AsInt(count[B(p)]) \in 0 .. n[B(p)]
      BY <2>1, <2>2, <2>3, CountSeen
    <3>2. B(p) \in Buckets /\ left[p] \in 0 .. Word /\ Word \in Nat
      BY <2>1, Pointing, Constants DEF TypeOK
    <3>3. n[B(p)] \in Nat
      BY <2>2, <3>2 DEF Shape, Ghosts
    <3>4. QED
      BY <3>1, <3>2, <3>3
  <2>5. \E i \in 1 .. n[B(p)] : at[p] = r[B(p)][i]
    <3>1. CASE pc[p] = "hit"
      BY <2>2, <2>3, <3>1 DEF Shape, Searches, Sought
    <3>2. CASE pc[p] = "scan" /\ left[p] > 0
      <4>1. PICK i \in 1 .. n[B(p)] + 1 : at[p] = r[B(p)][i] /\ left[p] + i - 1 = AsInt(count[B(p)])
        BY <2>2, <2>3, <3>2 DEF Shape, Searches, Sought
      <4>2. i \in 1 .. n[B(p)]
        BY <2>4, <3>2, <4>1
      <4>3. QED
        BY <4>1, <4>2
    <3>3. QED
      BY <3>1, <3>2
  <2>6. QED
    BY <2>1, <2>2, <2>4, <2>5, InLists
<1>2. QED
  BY <1>1, Invariance, PTL


\* Chain lists the entries of a bucket.
LEMMA ChainIs ==
  ASSUME TypeOK, NEW n, NEW r, Shape(n, r), NEW b \in Buckets
  PROVE  /\ Chain(b) = Items(r[b], n[b])
         /\ \A i \in 1 .. n[b] : Chain(b)[i] = r[b][i]
         /\ DOMAIN Chain(b) = 1 .. n[b]
         /\ Len(Chain(b)) = n[b]
<1>1. /\ n[b] \in Nat /\ n[b] <= Cardinality(Entries) /\ Cardinality(Entries) \in Nat
      /\ r[b] \in [Nat -> Nodes] /\ Ring(h, b, n[b], r[b]) /\ h.next \in [Nodes -> Nodes]
  BY InLists, LengthBound, Constants DEF Shape, TypeOK
<1>2. Chain(b) = Items(r[b], n[b])
  BY <1>1, WalkLists DEF Chain
<1>3. Items(r[b], n[b]) \in [1 .. n[b] -> Nodes] /\ \A i \in 1 .. n[b] : Items(r[b], n[b])[i] = r[b][i]
  BY <1>1 DEF Items
<1>4. QED
  BY <1>1, <1>2, <1>3, ListIsSeq

\* The keys in a bucket, by the list.
LEMMA KeysAre ==
  ASSUME TypeOK, NEW n, NEW r, Shape(n, r), NEW b \in Buckets
  PROVE  KeysIn(b) = {key[r[b][i]] : i \in 1 .. n[b]}
<1>1. ToSet(Chain(b)) = {r[b][i] : i \in 1 .. n[b]}
  BY ChainIs DEF ToSet
<1>2. QED
  BY <1>1 DEF KeysIn

\* In a program that does not call insert a key is in the table once, whoever
\* calls insertIfAbsent with it at the same time (hashmap.h:198).
THEOREM KeysOnce == Spec => []Distinct
<1>1. Inv => Distinct
  <2> SUFFICES ASSUME Inv, ~ plain, NEW b \in Buckets \ spoiled,
                      NEW i \in DOMAIN Chain(b), NEW k \in DOMAIN Chain(b),
                      key[Chain(b)[i]] = key[Chain(b)[k]]
               PROVE  i = k
    BY DEF Distinct
  <2>1. TypeOK
    BY DEF Inv
  <2>2. PICK n, r : Shape(n, r)
    BY DEF Inv
  <2>3. i \in 1 .. n[b] /\ k \in 1 .. n[b] /\ Chain(b)[i] = r[b][i] /\ Chain(b)[k] = r[b][k]
    BY <2>1, <2>2, ChainIs
  <2>4. QED
    BY <2>2, <2>3 DEF Shape, Once
<1>2. QED
  BY <1>1, Invariance, PTL

\* A find that nobody disturbed, insertIfAbsent and erase see what is in the bucket
\* when they have an answer (hashmap.h:164, 198).
THEOREM AnswersRight == Spec => []Agrees
<1>1. Inv => Agrees
  <2> SUFFICES ASSUME Inv, NEW p \in Procs, pc[p] \in {"hit", "miss"}, op[p] # "insert",
                      B(p) \notin spoiled, p \notin disturbed
               PROVE  pc[p] = "hit" <=> arg[p] \in KeysIn(B(p))
    BY DEF Agrees
  <2>1. TypeOK /\ Paths /\ Locks /\ Quiet
    BY DEF Inv
  <2>2. PICK n, r : Shape(n, r)
    BY DEF Inv
  <2> DEFINE b == B(p)
  <2>3. Steady(p)
    BY <2>1, Pointing DEF Paths, OnPath, Steady, Undisturbed, Locking
  <2>4. Sought(n, r, p)
    BY <2>2, <2>3 DEF Shape, Searches
  <2>5. AsInt(count[b]) = n[b] /\ b \in Buckets /\ n[b] \in Nat
    <3>1. AsInt(count[b]) = n[b]
      BY <2>1, <2>2, <2>3, CountSeen
    <3>2. QED
      BY <2>1, <2>2, <3>1, Pointing DEF Shape, Ghosts
  <2>6. KeysIn(b) = {key[r[b][i]] : i \in 1 .. n[b]}
    BY <2>1, <2>2, <2>5, KeysAre
  <2>7. pc[p] = "hit" => \E i \in 1 .. n[b] : key[r[b][i]] = arg[p]
    BY <2>4 DEF Sought
  <2>8. pc[p] = "miss" => \A i \in 1 .. n[b] : key[r[b][i]] # arg[p]
    BY <2>4, <2>5 DEF Sought
  <2>9. QED
    BY <2>6, <2>7, <2>8
<1>2. QED
  BY <1>1, Invariance, PTL


\* A bucket nobody holds is whole: the list reads the same in both directions, has
\* every entry of the bucket, and the count is its length until an absent key is
\* erased (hashmap.h:49).
THEOREM BucketsWhole == Spec => []BucketWhole
<1>1. Inv => BucketWhole
  <2> SUFFICES ASSUME Inv, NEW b \in Buckets, lock[b] = Nobody
               PROVE  /\ Chain(b) = Reverse(WalkBack(h, b, Cardinality(Entries)))
                      /\ ToSet(Chain(b)) = {e \in used : Hash[key[e]] = b}
                      /\ b \notin spoiled => count[b] = Len(Chain(b))
    BY DEF BucketWhole
  <2>1. TypeOK /\ Paths /\ Locks
    BY DEF Inv
  <2>2. PICK n, r : Shape(n, r)
    BY DEF Inv
  <2>3. \A p \in Procs : pc[p] \in Moving \cup {"link"} => B(p) # b
    BY <2>1, Owners
  <2>4. /\ n[b] \in Nat /\ n[b] <= Cardinality(Entries) /\ Cardinality(Entries) \in Nat
        /\ r[b] \in [Nat -> Nodes] /\ Ring(h, b, n[b], r[b])
        /\ h.next \in [Nodes -> Nodes] /\ h.prev \in [Nodes -> Nodes]
    BY <2>1, <2>2, InLists, LengthBound, Constants DEF Shape, TypeOK
  <2>5. Chain(b) = Reverse(WalkBack(h, b, Cardinality(Entries)))
    <3> PICK t : t = Back(r[b], n[b])
      OBVIOUS
    <3> PICK g : g = [next |-> h.prev, prev |-> h.next]
      OBVIOUS
    <3>1. t \in [Nat -> Nodes] /\ Ring(g, b, n[b], t)
      BY <2>4, RingBack
    <3>2. g.next \in [Nodes -> Nodes]
      BY <2>4
    <3>3. WalkBack(h, b, Cardinality(Entries)) = Items(t, n[b])
      BY <2>4, <3>1, <3>2, WalkLists DEF WalkBack
    <3>4. Items(t, n[b]) \in [1 .. n[b] -> Nodes]
      BY <3>1 DEF Items
    <3>5. Len(Items(t, n[b])) = n[b]
      BY <2>4, <3>4, ListIsSeq
    <3>6. \A i \in 1 .. n[b] : Items(t, n[b])[n[b] - i + 1] = r[b][i]
      <4> SUFFICES ASSUME NEW i \in 1 .. n[b] PROVE Items(t, n[b])[n[b] - i + 1] = r[b][i]
        OBVIOUS
      <4>1. n[b] - i + 1 \in 1 .. n[b] /\ n[b] + 1 - (n[b] - i + 1) = i /\ n[b] - i + 1 \in Nat
        BY <2>4
      <4>2. Items(t, n[b])[n[b] - i + 1] = t[n[b] - i + 1]
        BY <4>1 DEF Items
      <4>3. t[n[b] - i + 1] = r[b][n[b] + 1 - (n[b] - i + 1)]
        BY <2>4, <4>1 DEF Back
      <4>4. QED
        BY <4>1, <4>2, <4>3
    <3>7. Reverse(Items(t, n[b])) = [i \in 1 .. n[b] |-> r[b][i]]
      BY <3>5, <3>6 DEF Reverse
    <3>8. Chain(b) = [i \in 1 .. n[b] |-> r[b][i]]
      BY <2>1, <2>2, ChainIs DEF Items
    <3>9. QED
      BY <3>3, <3>7, <3>8
  <2>6. ToSet(Chain(b)) = {e \in used : Hash[key[e]] = b}
    <3>1. DOMAIN Chain(b) = 1 .. n[b] /\ \A i \in 1 .. n[b] : Chain(b)[i] = r[b][i]
      BY <2>1, <2>2, ChainIs
    <3>2. ToSet(Chain(b)) = {r[b][i] : i \in 1 .. n[b]}
      BY <3>1 DEF ToSet
    <3>3. \A i \in 1 .. n[b] : r[b][i] \in used /\ Hash[key[r[b][i]]] = b
      BY <2>1, <2>2, InLists
    <3>4. ASSUME NEW e \in used, Hash[key[e]] = b
          PROVE  \E i \in 1 .. n[b] : r[b][i] = e
      <4>1. ~ \E p \in Procs : pc[p] \in {"link", "reinit"} /\ at[p] = e
        BY <2>2, <2>3, <3>4 DEF Shape, Hands, Moving
      <4>2. QED
        BY <2>2, <3>4, <4>1 DEF Shape, Hands
    <3>5. QED
      BY <3>2, <3>3, <3>4
  <2>7. b \notin spoiled => count[b] = Len(Chain(b))
    <3>1. Len(Chain(b)) = n[b]
      BY <2>1, <2>2, ChainIs
    <3>2. Says(b, n[b])
      BY <2>2, <2>3 DEF Shape, Counts
    <3>3. QED
      BY <3>1, <3>2 DEF Says
  <2>8. QED
    BY <2>5, <2>6, <2>7
<1>2. QED
  BY <1>1, Invariance, PTL


-----------------------------------------------------------------------------
(* The iterator *)

\* The recursive function of FlattenSeq, for the first m sequences of q
Joined(f, q, i) == IF i = 1 THEN q[i] ELSE f[i - 1] \o q[i]
Flattens(f, q, m) == f = [i \in 1 .. m |-> Joined(f, q, i)]

\* The first k sequences of q, one after the other
Upto(q, k) == IF k = 0 THEN <<>> ELSE (CHOOSE f : Flattens(f, q, Len(q)))[k]

\* There is such a function.
LEMMA FlattenExists ==
  ASSUME NEW q
  PROVE  \A m \in Nat : \E f : Flattens(f, q, m)
<1> DEFINE S == {m \in Nat : \E f : Flattens(f, q, m)}
<1>1. 0 \in S
  <2> DEFINE f == [i \in 1 .. 0 |-> <<>>]
  <2>1. f = [i \in 1 .. 0 |-> Joined(f, q, i)]
    OBVIOUS
  <2> HIDE DEF f
  <2>2. QED
    BY <2>1 DEF Flattens
<1>2. ASSUME NEW m \in Nat, m \in S
      PROVE  m + 1 \in S
  <2>1. PICK f : f = [i \in 1 .. m |-> Joined(f, q, i)]
    BY <1>2 DEF Flattens
  <2> DEFINE g == [i \in 1 .. m + 1 |-> Joined(f, q, i)]
  <2>2. \A i \in 1 .. m : g[i] = f[i]
    BY <2>1
  <2>3. ASSUME NEW i \in 1 .. m + 1
        PROVE  Joined(f, q, i) = Joined(g, q, i)
    <3>1. i # 1 => i - 1 \in 1 .. m
      OBVIOUS
    <3> HIDE DEF g
    <3>2. QED
      BY <2>2, <3>1 DEF Joined
  <2>4. g = [i \in 1 .. m + 1 |-> Joined(g, q, i)]
    <3>1. [i \in 1 .. m + 1 |-> Joined(f, q, i)] = [i \in 1 .. m + 1 |-> Joined(g, q, i)]
      BY <2>3, Zenon
    <3>2. QED
      BY <3>1
  <2> HIDE DEF g
  <2>5. QED
    BY <2>4 DEF Flattens
<1> HIDE DEF S
<1>3. \A m \in Nat : m \in S
  BY <1>1, <1>2, Induction
<1>4. QED
  BY <1>3 DEF S

\* One sequence more, and all of them
LEMMA UptoGrows ==
  ASSUME NEW N, NEW q \in Seq(Seq(N))
  PROVE  /\ Upto(q, 0) = <<>>
         /\ \A k \in 0 .. Len(q) : Upto(q, k) \in Seq(N)
         /\ \A k \in 0 .. Len(q) - 1 : Upto(q, k + 1) = Upto(q, k) \o q[k + 1]
         /\ Len(q) # 0 => FlattenSeq(q) = Upto(q, Len(q))
<1> DEFINE f == CHOOSE f : Flattens(f, q, Len(q))
<1>1. Len(q) \in Nat /\ \A i \in 1 .. Len(q) : q[i] \in Seq(N)
  OBVIOUS
<1>2. Flattens(f, q, Len(q))
  BY <1>1, FlattenExists
<1>3. Upto(q, 0) = <<>> /\ \A k \in 1 .. Len(q) : Upto(q, k) = f[k]
  BY DEF Upto
<1>4. FlattenSeq(q) = IF Len(q) = 0 THEN q ELSE f[Len(q)]
  BY DEF FlattenSeq, Flattens, Joined
<1> HIDE DEF f
<1>5. \A k \in 1 .. Len(q) : f[k] = IF k = 1 THEN q[k] ELSE f[k - 1] \o q[k]
  BY <1>2 DEF Flattens, Joined
<1>6. \A k \in 0 .. Len(q) - 1 : Upto(q, k + 1) = Upto(q, k) \o q[k + 1]
  <2> SUFFICES ASSUME NEW k \in 0 .. Len(q) - 1 PROVE Upto(q, k + 1) = Upto(q, k) \o q[k + 1]
    OBVIOUS
  <2>1. k + 1 \in 1 .. Len(q)
    BY <1>1
  <2>2. CASE k = 0
    <3>1. Upto(q, 1) = q[1] /\ q[1] \in Seq(N)
      BY <1>1, <1>3, <1>5, <2>1, <2>2
    <3>2. <<>> \o q[1] = q[1]
      BY <3>1, ConcatEmptySeq
    <3>3. QED
      BY <1>3, <2>2, <3>1, <3>2
  <2>3. CASE k # 0
    <3>1. k \in 1 .. Len(q) /\ (k + 1) - 1 = k /\ k + 1 # 1
      BY <1>1, <2>3
    <3>2. f[k + 1] = f[k] \o q[k + 1]
      BY <1>5, <2>1, <3>1
    <3>3. QED
      BY <1>3, <2>1, <3>1, <3>2
  <2>4. QED
    BY <2>2, <2>3
<1>7. \A k \in 0 .. Len(q) : Upto(q, k) \in Seq(N)
  <2> DEFINE S == {k \in Nat : k <= Len(q) => Upto(q, k) \in Seq(N)}
  <2>1. 0 \in S
    <3>1. <<>> \in Seq(N)
      OBVIOUS
    <3>2. QED
      BY <1>3, <3>1
  <2>2. ASSUME NEW k \in Nat, k \in S
        PROVE  k + 1 \in S
    <3> SUFFICES ASSUME k + 1 <= Len(q) PROVE Upto(q, k + 1) \in Seq(N)
      OBVIOUS
    <3>1. k \in 0 .. Len(q) - 1 /\ k + 1 \in 1 .. Len(q) /\ Upto(q, k) \in Seq(N)
      BY <1>1, <2>2
    <3>2. Upto(q, k) \o q[k + 1] \in Seq(N)
      BY <1>1, <3>1, ConcatProperties
    <3>3. QED
      BY <1>6, <3>1, <3>2
  <2> HIDE DEF S
  <2>3. \A k \in Nat : k \in S
    BY <2>1, <2>2, Induction
  <2>4. QED
    BY <1>1, <2>3 DEF S
<1>8. Len(q) # 0 => FlattenSeq(q) = Upto(q, Len(q))
  BY <1>1, <1>3, <1>4
<1>9. QED
  BY <1>3, <1>6, <1>7, <1>8


\* An iteration that nobody has disturbed, over buckets whose counts tell their
\* lengths
Iterating(p) == op[p] = "iterate" /\ p \notin disturbed /\ spoiled = {}

\* Nobody is changing a bucket meanwhile.
Calm == \A p, q \in Procs : Iterating(p) => pc[q] \notin Moving

\* The lists of the buckets, in the order of the iterator
Chains == [i \in 1 .. _buckets |-> Chain(i - 1)]

\* It has returned the entries of the buckets before its own and, of its own, those
\* before the entry it looks at.
Sweep(p) ==
  /\ pc[p] = "seek" => seen[p] = Upto(Chains, pos[p])
  /\ pc[p] = "visit" =>
       \E i \in 1 .. Len(Chain(pos[p])) :
         /\ at[p] = Chain(pos[p])[i]
         /\ seen[p] = Upto(Chains, pos[p]) \o Items(Chain(pos[p]), i - 1)
  /\ pc[p] = "end" => seen[p] = Upto(Chains, _buckets)
Sweeps == \A p \in Procs : Iterating(p) => Sweep(p)

\* An iterator starts afresh.
Fresh == \A p \in Procs : op[p] # "iterate" => pos[p] = 0 /\ seen[p] = <<>>

\* Who was iterating undisturbed after a step of another was so before.
LEMMA IteratingBefore ==
  ASSUME TypeOK, NEW p \in Procs, Look(p) \/ Write(p), NEW q \in Procs, q # p, Iterating(q)'
  PROVE  Iterating(q)
<1>1. spoiled \subseteq spoiled'
  BY DEF Look, Write, Call, Take, First, Count, Scan, ScanEnd, Answer, Seek, Visit, IterationEnd,
         CreateNewEntry, InsertEntry, CountUp, Unlink, Reinit, EraseAbsent, CountDown, Disturb, history
<1>2. op'[q] = op[q] /\ (q \in disturbed => q \in disturbed')
  BY Locality DEF Local
<1>3. QED
  BY <1>1, <1>2 DEF Iterating

\* A list that is linked to or unlinked from disturbs every iteration.
LEMMA IterationsMet ==
  ASSUME TypeOK, Paths, NEW p \in Procs, InsertEntry(p) \/ Unlink(p) \/ EraseAbsent(p), NEW q \in Procs
  PROVE  ~ Iterating(q)'
<1>1. CASE EraseAbsent(p)
  BY <1>1 DEF EraseAbsent, Iterating
<1>2. CASE InsertEntry(p) \/ Unlink(p)
  <2>1. op' = op /\ disturbed' = disturbed \cup Readers(B(p))
    BY <1>2 DEF InsertEntry, Unlink, Disturb, callVars
  <2>2. op[q] = "iterate" => pc[q] # "idle"
    BY DEF Paths, OnPath
  <2>3. QED
    BY <2>1, <2>2 DEF Iterating, Readers
<1>3. QED
  BY <1>1, <1>2

\* Nobody starts to change a bucket under an undisturbed iteration.
LEMMA CalmKept ==
  ASSUME TypeOK, Paths, Locks, Calm, NEW p \in Procs, Look(p) \/ Write(p)
  PROVE  Calm'
<1> SUFFICES ASSUME NEW u \in Procs, NEW q \in Procs, Iterating(u)', pc'[q] \in Moving
             PROVE  FALSE
  BY DEF Calm
<1>1. Local(p) /\ OnPath(p)
  BY Locality DEF Paths
<1>2. ~ (InsertEntry(p) \/ Unlink(p) \/ EraseAbsent(p))
  BY IterationsMet
<1>3. pc[q] \in Moving
  <2>1. CASE q # p
    BY <1>1, <2>1 DEF Local
  <2>2. ASSUME pc'[p] \in Moving PROVE pc[p] \in Moving
    <3> USE DEF Goto, Return, Moving, TypeOK
    <3>1. CASE Look(p)
      <4>1. ASSUME NEW o \in Locking \cup {"find", "iterate"}, NEW k, Call(p, o, k)
            PROVE  pc'[p] \in {"lock", "first", "seek"}
        BY <4>1 DEF Call, Locking
      <4>2. CASE Take(p) \/ First(p) \/ Count(p) \/ Scan(p) \/ ScanEnd(p) \/ Seek(p) \/ Visit(p)
        BY <2>2, <4>2 DEF Take, First, Count, Scan, ScanEnd, Seek, Visit
      <4>3. CASE Answer(p) \/ IterationEnd(p)
        BY <2>2, <4>3 DEF Answer, IterationEnd
      <4>4. QED
        BY <2>2, <3>1, <4>1, <4>2, <4>3 DEF Look
    <3>2. ASSUME NEW e \in Entries, CreateNewEntry(p, e) PROVE FALSE
      BY <2>2, <3>2 DEF CreateNewEntry
    <3>3. CASE CountUp(p) \/ CountDown(p)
      BY <2>2, <3>3 DEF CountUp, CountDown
    <3>4. CASE Reinit(p)
      BY <3>4 DEF Reinit
    <3>5. QED
      BY <1>2, <3>1, <3>2, <3>3, <3>4 DEF Write
  <2>3. QED
    BY <2>1, <2>2
<1>4. CASE u # p
  BY <1>3, <1>4, IteratingBefore DEF Calm
<1>5. CASE u = p
  <2>1. op'[p] = "iterate" /\ p \notin disturbed' /\ spoiled' = {}
    BY <1>5 DEF Iterating
  <2>2. CASE Call(p, "iterate", AnyKey)
    <3>1. \A b \in Buckets : lock[b] = Nobody
      BY <2>1, <2>2 DEF Call, MeetsHolder
    <3>2. B(q) \in Buckets /\ lock[B(q)] # Nobody
      BY <1>3, Owners, Pointing
    <3>3. QED
      BY <3>1, <3>2
  <2>3. CASE ~ Call(p, "iterate", AnyKey)
    <3>1. op[p] = "iterate" /\ p \notin disturbed /\ spoiled = {}
      <4>1. ASSUME NEW o \in Locking \cup {"find"}, NEW k, Call(p, o, k) PROVE FALSE
        BY <2>1, <4>1 DEF Call, TypeOK, Locking
      <4>2. CASE Take(p) \/ First(p) \/ Count(p) \/ Scan(p) \/ ScanEnd(p) \/ Seek(p) \/ Visit(p)
        BY <2>1, <4>2 DEF Take, First, Count, Scan, ScanEnd, Seek, Visit, callVars, history
      <4>3. CASE Answer(p) \/ IterationEnd(p) \/ CountUp(p) \/ CountDown(p)
        BY <2>1, <4>3 DEF Answer, IterationEnd, CountUp, CountDown, Return, TypeOK
      <4>4. CASE Reinit(p)
        BY <2>1, <4>4 DEF Reinit, callVars, history
      <4>5. ASSUME NEW e \in Entries, CreateNewEntry(p, e) PROVE FALSE
        BY <2>1, <4>5 DEF CreateNewEntry
      <4>6. QED
        BY <1>2, <2>3, <4>1, <4>2, <4>3, <4>4, <4>5 DEF Look, Write
    <3>2. QED
      BY <1>3, <3>1 DEF Calm, Iterating
  <2>4. QED
    BY <2>2, <2>3
<1>6. QED
  BY <1>4, <1>5


\* A step that neither links an entry to a list nor unlinks one leaves the lists.
LEMMA ChainsKept ==
  ASSUME TypeOK, Paths, Locks, Quiet, NEW n, NEW r, Shape(n, r), NEW p \in Procs,
         Look(p) \/ Write(p), ~ (InsertEntry(p) \/ Unlink(p))
  PROVE  (\A b \in Buckets : Chain(b)' = Chain(b)) /\ Chains' = Chains
<1>1. \A b \in Buckets : Chain(b)' = Chain(b)
  <2>1. CASE h' = h
    BY <2>1 DEF Chain
  <2>2. CASE Reinit(p) \/ \E e \in Entries : CreateNewEntry(p, e)
    <3>1. Shape(n, r)'
      BY <2>2, CreateShape, ReinitShape
    <3>2. h'.next \in [Nodes -> Nodes]
      <4>1. TypeOK'
        BY <2>2, WriteTypes DEF Write
      <4>2. QED
        BY <4>1 DEF TypeOK, Nodes
    <3>3. ASSUME NEW b \in Buckets
          PROVE  Chain(b)' = Chain(b)
      <4>1. /\ n[b] \in Nat /\ n[b] <= Cardinality(Entries) /\ Cardinality(Entries) \in Nat
            /\ r[b] \in [Nat -> Nodes]
        BY InLists, LengthBound, Constants DEF Shape
      <4>2. Ring(h', b, n[b], r[b])
        BY <3>1 DEF Shape, Lists
      <4>3. Walk(h', b, Cardinality(Entries)) = Items(r[b], n[b])
        BY <3>2, <4>1, <4>2, WalkLists
      <4>4. Chain(b) = Items(r[b], n[b])
        BY ChainIs
      <4>5. QED
        BY <4>3, <4>4 DEF Chain
    <3>4. QED
      BY <3>3
  <2>3. Look(p) \/ CountUp(p) \/ CountDown(p) \/ EraseAbsent(p) => h' = h
    BY DEF Look, Call, Take, First, Count, Scan, ScanEnd, Answer, Seek, Visit, IterationEnd, CountUp,
           CountDown, EraseAbsent, mapVars
  <2>4. QED
    BY <2>1, <2>2, <2>3 DEF Write
<1>2. \A i \in 1 .. _buckets : i - 1 \in Buckets
  BY Constants
<1>3. QED
  BY <1>1, <1>2 DEF Chains

\* The lists of the buckets are a sequence of sequences.
LEMMA ChainsAre ==
  ASSUME TypeOK, NEW n, NEW r, Shape(n, r)
  PROVE  /\ Chains \in Seq(Seq(Nodes)) /\ Len(Chains) = _buckets
         /\ \A b \in Buckets : Chains[b + 1] = Chain(b) /\ Chain(b) \in Seq(Nodes)
<1>1. ASSUME NEW b \in Buckets
      PROVE  Chain(b) \in Seq(Nodes) /\ b + 1 \in 1 .. _buckets /\ (b + 1) - 1 = b
  <2>1. n[b] \in Nat /\ Items(r[b], n[b]) \in [1 .. n[b] -> Nodes]
    BY InLists DEF Items
  <2>2. Chain(b) \in Seq(Nodes)
    BY <2>1, ChainIs, ListIsSeq
  <2>3. QED
    BY <2>2, Constants
<1>2. \A i \in 1 .. _buckets : i - 1 \in Buckets
  BY Constants
<1>3. Chains \in [1 .. _buckets -> Seq(Nodes)]
  BY <1>1, <1>2 DEF Chains
<1>4. Chains \in Seq(Seq(Nodes)) /\ Len(Chains) = _buckets
  BY <1>3, Constants, ListIsSeq
<1>5. QED
  BY <1>1, <1>4 DEF Chains

\* The first entries of a list, and one more
LEMMA ItemsGrow ==
  ASSUME NEW N, NEW s \in Seq(N)
  PROVE  /\ Items(s, 0) = <<>> /\ Items(s, Len(s)) = s
         /\ \A i \in 1 .. Len(s) : Items(s, i) = Items(s, i - 1) \o <<s[i]>>
         /\ \A i \in 0 .. Len(s) : Items(s, i) \in Seq(N)
<1>1. Len(s) \in Nat /\ s \in [1 .. Len(s) -> N]
  OBVIOUS
<1>2. ASSUME NEW i \in 0 .. Len(s)
      PROVE  Items(s, i) \in Seq(N) /\ Len(Items(s, i)) = i /\ \A j \in 1 .. i : Items(s, i)[j] = s[j]
  <2>1. Items(s, i) \in [1 .. i -> N] /\ \A j \in 1 .. i : Items(s, i)[j] = s[j]
    BY <1>1 DEF Items
  <2>2. QED
    BY <1>1, <2>1, ListIsSeq
<1>3. Items(s, 0) = <<>>
  BY <1>1, <1>2
<1>4. Items(s, Len(s)) = s
  BY <1>1 DEF Items
<1>5. ASSUME NEW i \in 1 .. Len(s)
      PROVE  Items(s, i) = Items(s, i - 1) \o <<s[i]>>
  <2>1. i - 1 \in 0 .. Len(s) /\ i \in 0 .. Len(s) /\ s[i] \in N
    BY <1>1
  <2>2. <<s[i]>> \in Seq(N) /\ Len(<<s[i]>>) = 1 /\ <<s[i]>>[1] = s[i]
    BY <2>1
  <2>3. /\ Items(s, i - 1) \in Seq(N) /\ Len(Items(s, i - 1)) = i - 1
        /\ Items(s, i) \in Seq(N) /\ Len(Items(s, i)) = i
        /\ \A j \in 1 .. i : Items(s, i)[j] = s[j]
        /\ \A j \in 1 .. i - 1 : Items(s, i - 1)[j] = s[j]
    BY <1>2, <2>1
  <2> DEFINE t == Items(s, i - 1) \o <<s[i]>>
  <2>4. t \in Seq(N) /\ Len(t) = i /\ \A j \in 1 .. i : t[j] = IF j <= i - 1 THEN Items(s, i - 1)[j] ELSE s[i]
    <3>1. /\ t \in Seq(N) /\ Len(t) = (i - 1) + 1
          /\ \A j \in 1 .. (i - 1) + 1 :
               t[j] = IF j <= i - 1 THEN Items(s, i - 1)[j] ELSE <<s[i]>>[j - (i - 1)]
      BY <2>2, <2>3, ConcatProperties
    <3> HIDE DEF t
    <3>2. ASSUME NEW j \in 1 .. i
          PROVE  t[j] = IF j <= i - 1 THEN Items(s, i - 1)[j] ELSE s[i]
      <4>1. j <= i - 1 \/ j - (i - 1) = 1
        OBVIOUS
      <4>2. j \in 1 .. (i - 1) + 1
        OBVIOUS
      <4>3. QED
        BY <2>2, <3>1, <4>1, <4>2
    <3>3. QED
      BY <3>1, <3>2
  <2> HIDE DEF t
  <2>5. \A j \in 1 .. i : t[j] = Items(s, i)[j]
    BY <2>3, <2>4
  <2>6. t = Items(s, i)
    BY <2>3, <2>4, <2>5, SeqEqual
  <2>7. QED
    BY <2>6 DEF t
<1>6. QED
  BY <1>2, <1>3, <1>4, <1>5


\* begin() is the start of an iteration, and a call that is over forgets it.
LEMMA FreshKept ==
  ASSUME TypeOK, Paths, Fresh, NEW p \in Procs, Look(p) \/ Write(p)
  PROVE  Fresh'
<1>1. Local(p) /\ OnPath(p)
  BY Locality DEF Paths
<1>2. CASE Answer(p) \/ IterationEnd(p) \/ CountUp(p) \/ CountDown(p)
  <2>1. pos'[p] = 0 /\ seen'[p] = <<>>
    BY <1>2 DEF Answer, IterationEnd, CountUp, CountDown, Return, TypeOK
  <2>2. QED
    BY <1>1, <2>1 DEF Fresh, Local
<1>3. CASE Seek(p) \/ Visit(p)
  <2>1. op' = op /\ op[p] = "iterate"
    BY <1>1, <1>3, Pointing DEF Seek, Visit, OnPath, Locking
  <2>2. QED
    BY <1>1, <2>1 DEF Fresh, Local
<1>4. CASE pos' = pos /\ seen' = seen /\ (op'[p] = op[p] \/ op[p] = "find")
  BY <1>1, <1>4 DEF Fresh, Local
<1>5. ASSUME NEW o, NEW k, Call(p, o, k)
      PROVE  pos' = pos /\ seen' = seen /\ op[p] = "find"
  BY <1>1, <1>5, Pointing DEF Call, OnPath, Locking
<1>6. CASE Take(p) \/ First(p) \/ Count(p) \/ Scan(p) \/ ScanEnd(p)
  BY <1>4, <1>6 DEF Take, First, Count, Scan, ScanEnd, callVars
<1>7. CASE InsertEntry(p) \/ Unlink(p) \/ Reinit(p) \/ EraseAbsent(p) \/ \E e \in Entries : CreateNewEntry(p, e)
  BY <1>4, <1>7 DEF InsertEntry, Unlink, Reinit, EraseAbsent, CreateNewEntry, callVars
<1>8. QED
  BY <1>2, <1>3, <1>4, <1>5, <1>6, <1>7 DEF Look, Write

\* An undisturbed iteration goes on where it was.
LEMMA SweepsKept ==
  ASSUME TypeOK, Paths, Locks, Quiet, NEW n, NEW r, Shape(n, r), Calm, Sweeps, Fresh,
         NEW p \in Procs, Look(p) \/ Write(p)
  PROVE  Sweeps'
<1> SUFFICES ASSUME NEW u \in Procs, Iterating(u)' PROVE Sweep(u)'
  BY DEF Sweeps
<1>1. ~ (InsertEntry(p) \/ Unlink(p) \/ EraseAbsent(p))
  BY IterationsMet
<1>2. (\A b \in Buckets : Chain(b)' = Chain(b)) /\ Chains' = Chains
  BY <1>1, ChainsKept
<1>3. CASE u # p
  <2>1. Sweep(u)
    BY <1>3, IteratingBefore DEF Sweeps
  <2>2. pc'[u] = pc[u] /\ at'[u] = at[u] /\ pos'[u] = pos[u] /\ seen'[u] = seen[u]
    BY <1>3, Locality DEF Local
  <2>3. pc[u] = "visit" => Chain(pos[u])' = Chain(pos[u])
    <3>1. pc[u] = "visit" => pos[u] \in Buckets
      BY DEF Paths, OnPath
    <3>2. ASSUME NEW b \in Buckets, b = pos[u] PROVE Chain(pos[u])' = Chain(pos[u])
      BY <1>2, <2>2, <3>2
    <3>3. QED
      BY <3>1, <3>2
  <2>4. pc[u] = "seek" => Sweep(u)'
    BY <1>2, <2>1, <2>2 DEF Sweep
  <2>5. pc[u] = "visit" => Sweep(u)'
    BY <1>2, <2>1, <2>2, <2>3 DEF Sweep
  <2>6. pc[u] = "end" => Sweep(u)'
    BY <1>2, <2>1, <2>2 DEF Sweep
  <2>7. pc[u] \notin {"seek", "visit", "end"} => Sweep(u)'
    BY <2>2 DEF Sweep
  <2>8. QED
    BY <2>4, <2>5, <2>6, <2>7
<1>4. CASE u = p
  <2>1. op'[p] = "iterate" /\ p \notin disturbed' /\ spoiled' = {}
    BY <1>4 DEF Iterating
  <2> DEFINE c == pos[p]
  <2>2. /\ Chains \in Seq(Seq(Nodes)) /\ Len(Chains) = _buckets /\ _buckets \in Nat /\ c \in 0 .. _buckets
        /\ \A b \in Buckets : Chains[b + 1] = Chain(b) /\ Chain(b) \in Seq(Nodes)
    BY ChainsAre, Constants DEF TypeOK
  <2>3. /\ Upto(Chains, 0) = <<>>
        /\ \A k \in 0 .. _buckets : Upto(Chains, k) \in Seq(Nodes)
        /\ \A k \in 0 .. _buckets - 1 : Upto(Chains, k + 1) = Upto(Chains, k) \o Chains[k + 1]
    BY <2>2, UptoGrows
  <2>4. CASE Call(p, "iterate", AnyKey)
    <3>1. pc[p] = "idle" /\ pc'[p] = "seek" /\ pos' = pos /\ seen' = seen
      BY <2>4 DEF Call, Goto, TypeOK, Locking
    <3>2. op[p] # "iterate"
      BY <3>1 DEF Paths, OnPath
    <3>3. pos'[p] = 0 /\ seen'[p] = <<>>
      BY <3>1, <3>2 DEF Fresh
    <3>4. QED
      BY <1>2, <2>3, <3>1, <3>3, <1>4 DEF Sweep
  <2>5. CASE Seek(p)
    <3>1. pc[p] = "seek" /\ seen'[p] = seen[p] /\ op[p] = "iterate" /\ p \notin disturbed /\ spoiled = {}
      BY <2>1, <2>5 DEF Seek, history
    <3>2. seen[p] = Upto(Chains, c) /\ Upto(Chains, c) \in Seq(Nodes)
      BY <2>2, <2>3, <3>1 DEF Sweeps, Iterating, Sweep
    <3>3. CASE c = _buckets
      <4>1. pc'[p] = "end"
        BY <2>5, <3>3 DEF Seek, Goto, TypeOK
      <4>2. QED
        BY <1>2, <1>4, <3>1, <3>2, <3>3, <4>1 DEF Sweep
    <3>4. CASE c # _buckets
      <4>1. c \in Buckets /\ n[c] \in Nat /\ c \in 0 .. _buckets - 1
        BY <2>2, <3>4, Constants DEF Shape, Ghosts
      <4>2. count[c] = n[c]
        <5>1. \A q \in Procs : pc[q] \notin Moving
          BY <3>1 DEF Calm, Iterating
        <5>2. Says(c, n[c])
          BY <4>1, <5>1 DEF Shape, Counts
        <5>3. QED
          BY <3>1, <5>2 DEF Says
      <4>3. Len(Chain(c)) = n[c] /\ DOMAIN Chain(c) = 1 .. n[c] /\ \A i \in 1 .. n[c] : Chain(c)[i] = r[c][i]
        BY <4>1, ChainIs
      <4>4. Chain(c) \in Seq(Nodes) /\ Chains[c + 1] = Chain(c)
        BY <2>2, <4>1
      <4>5. CASE count[c] # 0
        <5>1. pc'[p] = "visit" /\ at'[p] = h.next[c] /\ pos' = pos
          BY <2>5, <3>4, <4>5 DEF Seek, Goto, TypeOK
        <5>2. h.next[c] = r[c][1]
          <6>1. Ring(h, c, n[c], r[c]) /\ 0 \in 0 .. n[c] /\ 0 + 1 = 1
            BY <4>1, InLists
          <6>2. QED
            BY <6>1 DEF Ring
        <5>3. 1 \in 1 .. Len(Chain(c)) /\ at'[p] = Chain(c)[1] /\ 1 - 1 = 0
          BY <4>1, <4>2, <4>3, <4>5, <5>1, <5>2
        <5>4. seen[p] = Upto(Chains, c) \o Items(Chain(c), 0)
          <6>1. Items(Chain(c), 0) = <<>>
            BY <4>4, ItemsGrow
          <6>2. QED
            BY <3>2, <6>1, ConcatEmptySeq
        <5>5. \E i \in 1 .. Len(Chain(c)) :
                at'[p] = Chain(c)[i] /\ seen[p] = Upto(Chains, c) \o Items(Chain(c), i - 1)
          BY <5>3, <5>4
        <5>6. Chain(pos[p])' = Chain(c)
          BY <1>2, <4>1, <5>1 DEF Chain
        <5>7. QED
          BY <1>2, <1>4, <3>1, <5>1, <5>5, <5>6 DEF Sweep
      <4>6. CASE count[c] = 0
        <5>1. pc'[p] = "seek" /\ pos'[p] = c + 1
          BY <2>5, <3>4, <4>6 DEF Seek, TypeOK
        <5>2. Chain(c) = <<>>
          BY <4>2, <4>3, <4>4, <4>6
        <5>3. Upto(Chains, c + 1) = Upto(Chains, c) \o <<>>
          BY <2>3, <4>1, <4>4, <5>2
        <5>4. Upto(Chains, c + 1) = Upto(Chains, c)
          BY <3>2, <5>3, ConcatEmptySeq
        <5>5. QED
          BY <1>2, <1>4, <3>1, <3>2, <5>1, <5>4 DEF Sweep
      <4>7. QED
        BY <4>5, <4>6
    <3>5. QED
      BY <3>3, <3>4
  <2>6. CASE Visit(p)
    <3>1. /\ pc[p] = "visit" /\ seen'[p] = Append(seen[p], at[p])
          /\ op[p] = "iterate" /\ p \notin disturbed /\ spoiled = {}
      BY <2>1, <2>6 DEF Visit, history, TypeOK
    <3>2. c \in Buckets /\ c \in 0 .. _buckets /\ c \in 0 .. _buckets - 1
      BY <2>2, <3>1, Constants DEF Paths, OnPath
    <3>3. PICK i \in 1 .. Len(Chain(c)) : at[p] = Chain(c)[i]
                                          /\ seen[p] = Upto(Chains, c) \o Items(Chain(c), i - 1)
      BY <3>1 DEF Sweeps, Iterating, Sweep
    <3>4. /\ Len(Chain(c)) = n[c] /\ n[c] \in Nat /\ Ring(h, c, n[c], r[c])
          /\ Chain(c)[i] = r[c][i] /\ \A j \in 1 .. n[c] : Chain(c)[j] = r[c][j]
      BY <3>2, <3>3, ChainIs, InLists
    <3>5. /\ Chain(c) \in Seq(Nodes) /\ Chains[c + 1] = Chain(c) /\ at[p] \in Nodes
          /\ Upto(Chains, c) \in Seq(Nodes)
      BY <2>2, <2>3, <3>2 DEF TypeOK
    <3>6. seen'[p] = Upto(Chains, c) \o Items(Chain(c), i)
      <4>1. i - 1 \in 0 .. Len(Chain(c)) /\ i \in 0 .. Len(Chain(c))
        BY <3>4
      <4>2. /\ Items(Chain(c), i - 1) \in Seq(Nodes) /\ <<at[p]>> \in Seq(Nodes)
            /\ Items(Chain(c), i) = Items(Chain(c), i - 1) \o <<at[p]>>
        BY <3>3, <3>5, <4>1, ItemsGrow
      <4>3. Upto(Chains, c) \o Items(Chain(c), i - 1) \in Seq(Nodes)
        BY <3>5, <4>2, ConcatProperties
      <4>4. seen'[p] = (Upto(Chains, c) \o Items(Chain(c), i - 1)) \o <<at[p]>>
        BY <3>1, <3>3, <3>5, <4>3, AppendIsConcat
      <4>5. (Upto(Chains, c) \o Items(Chain(c), i - 1)) \o <<at[p]>>
              = Upto(Chains, c) \o (Items(Chain(c), i - 1) \o <<at[p]>>)
        BY <3>5, <4>2, ConcatAssociative
      <4>6. QED
        BY <4>2, <4>4, <4>5
    <3>7. h.next[at[p]] = r[c][i + 1] /\ (AtTail(p) <=> i = n[c])
      <4>1. i \in 0 .. n[c] /\ 0 \in 0 .. n[c] /\ (i + 1 \in 0 .. n[c] \/ i = n[c]) /\ i + 1 # 0
        BY <3>4
      <4>2. h.next[at[p]] = r[c][i + 1] /\ r[c][0] = c /\ r[c][n[c] + 1] = c
        BY <3>3, <3>4, <4>1 DEF Ring
      <4>3. i + 1 \in 0 .. n[c] => r[c][i + 1] # c
        BY <3>4, <4>1, <4>2 DEF Ring
      <4>4. i = n[c] => ~ (i + 1 \in 0 .. n[c])
        BY <3>4
      <4>5. QED
        BY <4>1, <4>2, <4>3, <4>4 DEF AtTail, IsListTail
    <3>8. CASE AtTail(p)
      <4>1. pc'[p] = "seek" /\ pos'[p] = c + 1
        BY <2>6, <3>8 DEF Visit, Goto, TypeOK
      <4>2. Items(Chain(c), i) = Chain(c)
        BY <3>4, <3>5, <3>7, <3>8, ItemsGrow
      <4>3. seen'[p] = Upto(Chains, c + 1)
        BY <2>3, <3>2, <3>5, <3>6, <4>2
      <4>4. QED
        BY <1>2, <1>4, <4>1, <4>3 DEF Sweep
    <3>9. CASE ~ AtTail(p)
      <4>1. pc'[p] = "visit" /\ pos' = pos /\ at'[p] = h.next[at[p]]
        BY <2>6, <3>1, <3>9 DEF Visit, TypeOK
      <4>2. i + 1 \in 1 .. Len(Chain(c)) /\ at'[p] = Chain(c)[i + 1] /\ (i + 1) - 1 = i
        BY <3>4, <3>7, <3>9, <4>1
      <4>3. \E j \in 1 .. Len(Chain(c)) :
              at'[p] = Chain(c)[j] /\ seen'[p] = Upto(Chains, c) \o Items(Chain(c), j - 1)
        BY <3>6, <4>2
      <4>4. Chain(pos[p])' = Chain(c)
        BY <1>2, <3>2, <4>1 DEF Chain
      <4>5. QED
        BY <1>2, <1>4, <4>1, <4>3, <4>4 DEF Sweep
    <3>10. QED
      BY <3>8, <3>9
  <2>7. ~ (Call(p, "iterate", AnyKey) \/ Seek(p) \/ Visit(p)) => FALSE
    <3> SUFFICES ASSUME ~ (Call(p, "iterate", AnyKey) \/ Seek(p) \/ Visit(p)) PROVE FALSE
      OBVIOUS
    <3>0. op[p] = "iterate" => pc[p] \in {"seek", "visit", "end"}
      BY DEF Paths, OnPath
    <3>1. ASSUME NEW o \in Locking \cup {"find"}, NEW k, Call(p, o, k) PROVE FALSE
      BY <2>1, <3>1 DEF Call, TypeOK, Locking
    <3>2. CASE Take(p) \/ First(p) \/ Count(p) \/ Scan(p) \/ ScanEnd(p) \/ Reinit(p)
      BY <2>1, <3>0, <3>2 DEF Take, First, Count, Scan, ScanEnd, Reinit, callVars
    <3>3. CASE Answer(p) \/ IterationEnd(p) \/ CountUp(p) \/ CountDown(p)
      BY <2>1, <3>3 DEF Answer, IterationEnd, CountUp, CountDown, Return, TypeOK
    <3>4. ASSUME NEW e \in Entries, CreateNewEntry(p, e) PROVE FALSE
      BY <2>1, <3>4 DEF CreateNewEntry
    <3>5. QED
      BY <1>1, <3>1, <3>2, <3>3, <3>4 DEF Look, Write
  <2>8. QED
    BY <2>4, <2>5, <2>6, <2>7
<1>5. QED
  BY <1>3, <1>4


\* An iteration during which nobody changed the table returned every entry of every
\* bucket, once and in the order of the lists (hashmap.h:377).
THEOREM IterationsWhole == Spec => []IteratesAll
<1> DEFINE I == Inv /\ Calm /\ Fresh /\ Sweeps
<1>1. Init => I
  <2>1. Init => Inv
    BY InitInv
  <2>2. Init => Calm /\ Fresh /\ Sweeps
    BY DEF Init, Calm, Moving, Fresh, Sweeps, Iterating
  <2>3. QED
    BY <2>1, <2>2
<1>2. I /\ [Next]_vars => I'
  <2> SUFFICES ASSUME I, [Next]_vars PROVE I'
    OBVIOUS
  <2>1. Inv'
    BY NextInv
  <2>2. TypeOK /\ Paths /\ Locks /\ Quiet
    BY DEF Inv
  <2>3. PICK n, r : Shape(n, r)
    BY DEF Inv
  <2>4. ASSUME NEW p \in Procs, Look(p) \/ Write(p)
        PROVE  Calm' /\ Fresh' /\ Sweeps'
    BY <2>2, <2>3, <2>4, CalmKept, FreshKept, SweepsKept
  <2>5. CASE UNCHANGED vars
    <3>1. UNCHANGED <<h, pc, op, at, pos, seen, spoiled, disturbed>>
      BY <2>5 DEF vars, mapVars, callVars, history
    <3>2. \A b : Chain(b)' = Chain(b)
      BY <3>1 DEF Chain
    <3>3. Chains' = Chains
      BY <3>2 DEF Chains
    <3>4. Calm' /\ Fresh'
      BY <3>1 DEF Calm, Fresh, Iterating
    <3>5. ASSUME NEW u \in Procs, Sweep(u) PROVE Sweep(u)'
      <4>1. Chain(pos[u])' = Chain(pos[u])
        BY <3>1 DEF Chain
      <4>2. QED
        BY <3>1, <3>3, <3>5, <4>1 DEF Sweep
    <3>6. Sweeps'
      BY <3>1, <3>5 DEF Sweeps, Iterating
    <3>7. QED
      BY <2>1, <3>4, <3>6
  <2>6. QED
    BY <2>1, <2>4, <2>5, Steps
<1>3. I => IteratesAll
  <2> SUFFICES ASSUME I, NEW p \in Procs, pc[p] = "end", p \notin disturbed, spoiled = {}
               PROVE  seen[p] = FlattenSeq([i \in 1 .. _buckets |-> Chain(i - 1)])
    BY DEF IteratesAll
  <2>1. TypeOK /\ Paths
    BY DEF Inv
  <2>2. PICK n, r : Shape(n, r)
    BY DEF Inv
  <2>3. op[p] = "iterate"
    BY <2>1, Pointing DEF Paths, OnPath, Locking
  <2>4. seen[p] = Upto(Chains, _buckets)
    BY <2>3 DEF Sweeps, Iterating, Sweep
  <2>5. Chains \in Seq(Seq(Nodes)) /\ Len(Chains) = _buckets /\ _buckets # 0
    BY <2>1, <2>2, ChainsAre, Constants
  <2>6. FlattenSeq(Chains) = Upto(Chains, _buckets)
    BY <2>5, UptoGrows
  <2>7. QED
    BY <2>4, <2>6 DEF Chains
<1>4. QED
  BY <1>1, <1>2, <1>3, PTL DEF Spec

=============================================================================

------------------------------ MODULE HashMap -------------------------------
(***************************************************************************)
(* hashmap.h: a fixed array of buckets, each with a lock, a circular list  *)
(* of entries and a count.  insert, insertIfAbsent and erase hold the lock *)
(* of their bucket; find and the iterator do not.  A step is cut where a   *)
(* reader without the lock can tell.                                       *)
(***************************************************************************)
EXTENDS List, FiniteSets, Integers, SequencesExt

CONSTANTS
  Procs,
  Keys,
  Entries,     \* entries SourceHeap can provide
  _buckets,    \* buckets; a bucket's number also names the head of its list
  Hash,        \* bucket of each key
  Word,        \* size_t wraps at this
  Nobody

ASSUME HashMapAssumption ==
  /\ Keys # {} /\ IsFiniteSet(Entries) /\ Nobody \notin Procs
  /\ _buckets \in Nat \ {0}
  /\ Entries \cap (0 .. _buckets - 1) = {}
  /\ Hash \in [Keys -> 0 .. _buckets - 1]
  /\ Word \in Nat /\ Word \div 2 > Cardinality(Entries)

VARIABLES
  h,          \* list pointers of heads and entries
  key,        \* key stored in each entry
  count,      \* count of each bucket
  lock,       \* who holds the lock of each bucket
  used,       \* entries malloc has given out
  pc, op, arg,
  at,         \* the entry a process looks at
  left,       \* how many it will still look at
  pos, seen,  \* the iterator's bucket, and what it has returned
  spoiled,    \* history: buckets on which an absent key was erased
  plain,      \* does the program call insert, which does not look first?
  disturbed   \* history: readers without a lock that overlap a holder of it

mapVars == <<h, key, count, used>>
callVars == <<op, arg, at, left, pos, seen>>
history == <<spoiled, plain, disturbed>>
vars == <<mapVars, lock, pc, callVars, history>>

Buckets == 0 .. _buckets - 1
Nodes == Buckets \cup Entries
Locking == {"insert", "insertIfAbsent", "erase"}
B(p) == Hash[arg[p]]

TypeOK ==
  /\ h.next \in [Nodes -> Nodes] /\ h.prev \in [Nodes -> Nodes]
  /\ key \in [Entries -> Keys]
  /\ count \in [Buckets -> 0 .. Word - 1]
  /\ lock \in [Buckets -> Procs \cup {Nobody}]
  /\ used \subseteq Entries
  /\ pc \in [Procs -> {"idle", "lock", "first", "count", "scan", "hit", "miss", "link",
                       "counted", "unlink", "reinit", "uncount", "seek", "visit", "end"}]
  /\ op \in [Procs -> Locking \cup {"find", "iterate"}]
  /\ arg \in [Procs -> Keys]
  /\ at \in [Procs -> Nodes]
  /\ left \in [Procs -> 0 .. Word]
  /\ pos \in [Procs -> 0 .. _buckets]
  /\ seen \in [Procs -> Seq(Nodes)]
  /\ spoiled \subseteq Buckets /\ plain \in BOOLEAN /\ disturbed \subseteq Procs

AnyKey == CHOOSE k \in Keys : TRUE

\* HashMap::initialize has run.
Init ==
  /\ h = [next |-> [n \in Nodes |-> n], prev |-> [n \in Nodes |-> n]]
  /\ key = [e \in Entries |-> AnyKey]
  /\ count = [b \in Buckets |-> 0]
  /\ lock = [b \in Buckets |-> Nobody]
  /\ used = {}
  /\ pc = [p \in Procs |-> "idle"]
  /\ op = [p \in Procs |-> "find"]
  /\ arg = [p \in Procs |-> AnyKey]
  /\ at = [p \in Procs |-> 0]
  /\ left = [p \in Procs |-> 0]
  /\ pos = [p \in Procs |-> 0]
  /\ seen = [p \in Procs |-> <<>>]
  /\ spoiled = {} /\ plain \in BOOLEAN /\ disturbed = {}

Goto(p, label) == pc' = [pc EXCEPT ![p] = label]

\* Who reads bucket b without its lock
Readers(b) == {q \in Procs : \/ op[q] = "find" /\ pc[q] # "idle" /\ B(q) = b
                             \/ op[q] = "iterate" /\ pc[q] # "idle"}
MeetsHolder(o, k) ==
  \/ o = "find" /\ lock[Hash[k]] # Nobody
  \/ o = "iterate" /\ \E b \in Buckets : lock[b] # Nobody
Disturb(b) == disturbed' = disturbed \cup Readers(b)

-----------------------------------------------------------------------------
(* find, insert, insertIfAbsent and erase up to the end of getEntry        *)

Call(p, o, k) ==
  /\ pc[p] = "idle"
  /\ o = "insert" => plain
  /\ op' = [op EXCEPT ![p] = o]
  /\ arg' = [arg EXCEPT ![p] = k]
  /\ Goto(p, CASE o \in Locking -> "lock" [] o = "find" -> "first" [] o = "iterate" -> "seek")
  /\ disturbed' = IF MeetsHolder(o, k) THEN disturbed \cup {p} ELSE disturbed
  /\ UNCHANGED <<mapVars, lock, at, left, pos, seen, spoiled, plain>>

\* Fault: the bucket is not locked.
TakeNothing(p) ==
  /\ pc[p] = "lock"
  /\ Goto(p, IF op[p] = "insert" THEN "miss" ELSE "first")
  /\ UNCHANGED <<mapVars, lock, callVars, history>>

\* HashEntry::Lock; insert goes straight to insertEntry.
Take(p) ==
  /\ pc[p] = "lock"
  /\ lock[B(p)] = Nobody
  /\ lock' = [lock EXCEPT ![B(p)] = p]
  /\ Goto(p, IF op[p] = "insert" THEN "miss" ELSE "first")
  /\ UNCHANGED <<mapVars, callVars, history>>

\* getFirstEntry
First(p) ==
  /\ pc[p] = "first"
  /\ at' = [at EXCEPT ![p] = h.next[B(p)]]
  /\ Goto(p, "count")
  /\ UNCHANGED <<mapVars, lock, op, arg, left, pos, seen, history>>

\* Fault: one entry short
OneLess(n) == IF n >= Word \div 2 \/ n = 0 THEN 0 ELSE n - 1

\* int count = first->count: what has wrapped is negative
AsInt(n) == IF n >= Word \div 2 THEN 0 ELSE n

Count(p) ==
  /\ pc[p] = "count"
  /\ left' = [left EXCEPT ![p] = AsInt(count[B(p)])]
  /\ Goto(p, "scan")
  /\ UNCHANGED <<mapVars, lock, op, arg, at, pos, seen, history>>

\* The key of a list head is whatever follows its pointers, that of a freed entry
\* whatever the heap left there.
Scan(p) ==
  /\ pc[p] = "scan"
  /\ left[p] > 0
  /\ \E match \in BOOLEAN :
       /\ at[p] \in used => match = (key[at[p]] = arg[p])
       /\ IF match THEN Goto(p, "hit") /\ UNCHANGED <<at, left>>
          ELSE /\ at' = [at EXCEPT ![p] = h.next[at[p]]]
               /\ left' = [left EXCEPT ![p] = @ - 1]
               /\ UNCHANGED pc
  /\ UNCHANGED <<mapVars, lock, op, arg, pos, seen, history>>

ScanEnd(p) ==
  /\ pc[p] = "scan"
  /\ left[p] = 0
  /\ Goto(p, "miss")
  /\ UNCHANGED <<mapVars, lock, callVars, history>>

\* The call is over, and what it held in hand forgotten.
Return(p) ==
  /\ Goto(p, "idle")
  /\ op' = [op EXCEPT ![p] = "find"]
  /\ arg' = [arg EXCEPT ![p] = AnyKey]
  /\ at' = [at EXCEPT ![p] = 0]
  /\ left' = [left EXCEPT ![p] = 0]
  /\ pos' = [pos EXCEPT ![p] = 0]
  /\ seen' = [seen EXCEPT ![p] = <<>>]

\* find returns, or insertIfAbsent has found the key and unlocks.
Answer(p) ==
  /\ \/ op[p] = "find" /\ pc[p] \in {"hit", "miss"} /\ UNCHANGED lock
     \/ op[p] = "insertIfAbsent" /\ pc[p] = "hit" /\ lock' = [lock EXCEPT ![B(p)] = Nobody]
  /\ disturbed' = disturbed \ {p}
  /\ Return(p)
  /\ UNCHANGED <<mapVars, spoiled, plain>>

-----------------------------------------------------------------------------
(* insertEntry and the rest of erase                                       *)

\* createNewEntry: any free entry, its link to itself, its key
CreateNewEntry(p, e) ==
  /\ pc[p] = "miss"
  /\ op[p] \in {"insert", "insertIfAbsent"}
  /\ e \notin used
  /\ used' = used \cup {e}
  /\ h' = NodeInit(h, e)
  /\ key' = [key EXCEPT ![e] = arg[p]]
  /\ at' = [at EXCEPT ![p] = e]
  /\ Goto(p, "link")
  /\ UNCHANGED <<count, lock, op, arg, left, pos, seen, history>>

InsertEntry(p) ==
  /\ pc[p] = "link"
  /\ h' = ListInsertTail(h, at[p], B(p))
  /\ Disturb(B(p))
  /\ Goto(p, "counted")
  /\ UNCHANGED <<key, count, used, lock, callVars, spoiled, plain>>

\* head->count++, and Unlock
CountUp(p) ==
  /\ pc[p] = "counted"
  /\ count' = [count EXCEPT ![B(p)] = (@ + 1) % Word]
  /\ lock' = [lock EXCEPT ![B(p)] = Nobody]
  /\ disturbed' = disturbed \cup Readers(B(p))
  /\ Return(p)
  /\ UNCHANGED <<h, key, used, spoiled, plain>>

\* listRemoveNode links the neighbours ...
Unlink(p) ==
  /\ op[p] = "erase"
  /\ pc[p] = "hit"
  /\ h' = Link(h, h.prev[at[p]], h.next[at[p]])
  /\ Disturb(B(p))
  /\ Goto(p, "reinit")
  /\ UNCHANGED <<key, count, used, lock, callVars, spoiled, plain>>

\* ... and turns the node to itself; then it is freed.
Reinit(p) ==
  /\ pc[p] = "reinit"
  /\ h' = NodeInit(h, at[p])
  /\ used' = used \ {at[p]}
  /\ key' = [key EXCEPT ![at[p]] = AnyKey]
  /\ Goto(p, "uncount")
  /\ UNCHANGED <<count, lock, callVars, history>>

\* Bound: so many absent keys are not erased that the count wraps half way round
\* and is positive again.
EraseAbsent(p) ==
  /\ op[p] = "erase"
  /\ pc[p] = "miss"
  /\ count[B(p)] # Word \div 2
  /\ spoiled' = spoiled \cup {B(p)}
  /\ Goto(p, "uncount")
  /\ UNCHANGED <<mapVars, lock, callVars, plain, disturbed>>

\* Fault: the count is not taken down.
CountSame(p) ==
  /\ pc[p] = "uncount"
  /\ lock' = [lock EXCEPT ![B(p)] = Nobody]
  /\ Return(p)
  /\ UNCHANGED <<mapVars, history>>

\* Fault: the count is a signed number.
CountSigned(p) ==
  /\ pc[p] = "uncount"
  /\ count' = [count EXCEPT ![B(p)] = @ - 1]
  /\ lock' = [lock EXCEPT ![B(p)] = Nobody]
  /\ disturbed' = disturbed \cup Readers(B(p))
  /\ Return(p)
  /\ UNCHANGED <<h, key, used, spoiled, plain>>

\* first->count--, whether or not there was an entry, and Unlock
CountDown(p) ==
  /\ pc[p] = "uncount"
  /\ count' = [count EXCEPT ![B(p)] = (@ - 1) % Word]
  /\ lock' = [lock EXCEPT ![B(p)] = Nobody]
  /\ disturbed' = disturbed \cup Readers(B(p))
  /\ Return(p)
  /\ UNCHANGED <<h, key, used, spoiled, plain>>

-----------------------------------------------------------------------------
(* begin(), and ++ until end(); the program takes the entry of each        *)

\* The search for a bucket with a count, in begin and in ++
Seek(p) ==
  /\ pc[p] = "seek"
  /\ IF pos[p] = _buckets THEN Goto(p, "end") /\ UNCHANGED <<at, pos>>
     ELSE IF count[pos[p]] # 0
       THEN at' = [at EXCEPT ![p] = h.next[pos[p]]] /\ Goto(p, "visit") /\ UNCHANGED pos
     ELSE pos' = [pos EXCEPT ![p] = @ + 1] /\ UNCHANGED <<at, pc>>
  /\ UNCHANGED <<mapVars, lock, op, arg, left, seen, history>>

\* Fault: an iterator that leaves the bucket after its first entry
FirstIsTail(p) == TRUE

AtTail(p) == IsListTail(h, at[p], pos[p])

\* getkey and getData, then operator++
Visit(p) ==
  /\ pc[p] = "visit"
  /\ Len(seen[p]) < Cardinality(Entries)
  /\ seen' = [seen EXCEPT ![p] = Append(@, at[p])]
  /\ IF AtTail(p) THEN pos' = [pos EXCEPT ![p] = @ + 1] /\ Goto(p, "seek") /\ UNCHANGED at
     ELSE at' = [at EXCEPT ![p] = h.next[at[p]]] /\ UNCHANGED <<pos, pc>>
  /\ UNCHANGED <<mapVars, lock, op, arg, left, history>>

IterationEnd(p) ==
  /\ pc[p] = "end"
  /\ disturbed' = disturbed \ {p}
  /\ Return(p)
  /\ UNCHANGED <<mapVars, lock, spoiled, plain>>

Next == \E p \in Procs :
  \/ \E o \in Locking \cup {"find"}, k \in Keys : Call(p, o, k)
  \/ Call(p, "iterate", AnyKey)
  \/ Take(p) \/ First(p) \/ Count(p) \/ Scan(p) \/ ScanEnd(p) \/ Answer(p)
  \/ \E e \in Entries : CreateNewEntry(p, e)
  \/ InsertEntry(p) \/ CountUp(p)
  \/ Unlink(p) \/ Reinit(p) \/ EraseAbsent(p) \/ CountDown(p)
  \/ Seek(p) \/ Visit(p) \/ IterationEnd(p)

Spec == Init /\ [][Next]_vars

-----------------------------------------------------------------------------
(* Properties *)

Chain(b) == Walk(h, b, Cardinality(Entries))
KeysIn(b) == {key[e] : e \in ToSet(Chain(b))}

\* A process that searches under the lock looks at entries in use and never at
\* the head of the list, even when erasures of absent keys have spoiled the
\* count: the count is never more than the list is long (hashmap.h:285).
ScanSafe ==
  \A p \in Procs :
    op[p] \in Locking /\ (pc[p] = "hit" \/ (pc[p] = "scan" /\ left[p] > 0)) =>
      at[p] \in used /\ Hash[key[at[p]]] = B(p)

\* What a search answers is right: under the lock always, without it when the
\* bucket did not change meanwhile, as long as no absent key was erased there
\* (hashmap.h:164, 198).
Agrees ==
  \A p \in Procs :
    /\ pc[p] \in {"hit", "miss"}
    /\ op[p] # "insert"
    /\ B(p) \notin spoiled
    /\ p \notin disturbed
    => (pc[p] = "hit" <=> arg[p] \in KeysIn(B(p)))

\* When nobody holds the lock the list is whole in both directions, holds
\* entries of this bucket only, and, until an absent key is erased, as many as
\* the count says (hashmap.h:49).
BucketWhole ==
  \A b \in Buckets : lock[b] = Nobody =>
    /\ Chain(b) = Reverse(WalkBack(h, b, Cardinality(Entries)))
    /\ ToSet(Chain(b)) = {e \in used : Hash[key[e]] = b}
    /\ b \notin spoiled => count[b] = Len(Chain(b))

\* However many processes call insertIfAbsent with one key at a time, it is in
\* the table once, in a program that does not call insert (hashmap.h:198).
Distinct ==
  ~plain => \A b \in Buckets \ spoiled : \A i, k \in DOMAIN Chain(b) :
              key[Chain(b)[i]] = key[Chain(b)[k]] => i = k

\* An iteration during which the table did not change returned every entry
\* once (hashmap.h:377).
IteratesAll ==
  \A p \in Procs : pc[p] = "end" /\ p \notin disturbed /\ spoiled = {} =>
    seen[p] = FlattenSeq([i \in 1 .. _buckets |-> Chain(i - 1)])

=============================================================================

------------------------------- MODULE Stacks -------------------------------
(***************************************************************************)
(* Heaps that grow at one end, and the stack and the headers some of them  *)
(* rest on.                                                                *)
(*                                                                         *)
(*   xalloc    XallocHeap: one arena; a free of the last block gives back  *)
(*             all the free blocks before it;                              *)
(*   slop      SlopHeap: keeps SLOP bytes spare after the latest object;   *)
(*   dynstack  DynStack over DynamicArray, which grows and shrinks;        *)
(*   tags      ProvideObjectManager: a header with the sizes of an object  *)
(*             and of the one before, each with a bit for free.            *)
(*                                                                         *)
(* Addresses and sizes are counted in units of which a double has Double.  *)
(***************************************************************************)
EXTENDS Integers, Sequences, FiniteSets, FiniteSetsExt, Layer

CONSTANTS Double,         \* sizeof(double), and of a Nuggie
          ArenaUnits,     \* ArenaSize of XallocHeap
          StackSizes,     \* sizes asked for
          MaxOvershoot,   \* bound on end_of_array after mallocs that failed
          SlopUnits,      \* SLOP
          SlopMemory,     \* memory below SlopHeap
          MaxItems,       \* bound on DynStack
          MaxTagged       \* bound on objects with tags

StackAlign(n) == Double * ((n + Double - 1) \div Double)
Extent(o) == o.a .. o.a + o.size - 1

(***************************************************************************)
(* XallocHeap.  size[x] and use[x] are the word before the block at x:     *)
(* the size of the block before it, and whether the one at x is in use.    *)
(* last_block is 0 if there is none.  failed: a malloc failed since        *)
(* end_of_array was last set by a free; it was moved all the same.         *)
(***************************************************************************)
XAddresses == {x \in 0 .. ArenaUnits + 2 * Double : x % Double = 0}
XallocInit ==
  h = [kind |-> "xalloc", end |-> Double, last |-> 0, objs |-> {}, failed |-> FALSE,
       size |-> [x \in XAddresses |-> 0], use |-> [x \in XAddresses |-> FALSE]]

XEnd(sz) == h.end + StackAlign(sz + Double)
XMalloc(sz) ==
  LET new == XEnd(sz) IN
  \/ /\ h.end + sz >= ArenaUnits /\ new <= MaxOvershoot
     /\ h' = [h EXCEPT !.end = new, !.failed = TRUE]
  \/ /\ h.end + sz < ArenaUnits
     /\ h' = [h EXCEPT !.end = new, !.last = h.end, !.size[new] = new - h.end,
                       !.use = [@ EXCEPT ![new] = FALSE, ![h.end] = TRUE],
                       !.objs = @ \cup {[a |-> h.end, size |-> sz]}]
prev_block(x) == x - h.size[x]
\* Where the walk back from p stops: at the first block, or below one in use.
RECURSIVE WalkDown(_)
WalkDown(p) ==
  LET q == prev_block(p)
  IN  IF q = p THEN [end |-> p, last |-> 0]
      ELSE IF h.use[q] THEN [end |-> p, last |-> q] ELSE WalkDown(q)
XFree(o) ==
  LET freed == [h EXCEPT !.use[o.a] = FALSE, !.objs = @ \ {o}]
      w == WalkDown(o.a)
  IN  h' = IF o.a = h.last
           THEN [freed EXCEPT !.end = w.end, !.last = w.last, !.failed = FALSE]
           ELSE freed
\* No two objects, nor an object and a header, share a byte; the last block is
\* the highest in use, so the arena above it is free again; and the word after
\* the last block, unlike the objects, may lie one Nuggie past the arena.
XallocWhole ==
  /\ \A o, p \in h.objs : o # p => Extent(o) \cap Extent(p) = {}
  /\ \A o \in h.objs :
       /\ Extent(o) \subseteq 0 .. ArenaUnits - 1 /\ h.use[o.a]
       /\ o.a + StackAlign(o.size + Double) <= ArenaUnits + Double
       /\ \A p \in h.objs : Extent(o) \cap (p.a - Double .. p.a - 1) = {}
  /\ h.last = IF h.objs = {} THEN 0 ELSE Max({o.a : o \in h.objs})
  /\ ~h.failed =>
       h.end = IF h.objs = {} THEN Double
               ELSE LET o == CHOOSE q \in h.objs : q.a = h.last
                    IN  o.a + StackAlign(o.size + Double)

(***************************************************************************)
(* SlopHeap.  The heap below hands out memory upwards and may have given   *)
(* some to others in between; own is what it gave to this one.             *)
(***************************************************************************)
SlopInit ==
  h = [kind |-> "slop", ptr |-> 0, remaining |-> 0, next |-> 1, own |-> {}, objs |-> {}]
Contiguous(newptr) == h.ptr # 0 /\ h.ptr + h.remaining + SlopUnits = newptr
\* The slop kept so far may be used once there is more behind it.
Remaining(newptr) == IF Contiguous(newptr) THEN h.remaining + SlopUnits ELSE 0
SlopMalloc(n) ==
  \/ /\ n <= h.remaining
     /\ h' = [h EXCEPT !.remaining = @ - n, !.ptr = @ + n,
                       !.objs = @ \cup {[a |-> h.ptr, size |-> n]}]
  \/ /\ n > h.remaining
     /\ \E gap \in 0 .. 1 :
          LET newptr == h.next + gap
              p == IF Contiguous(newptr) THEN h.ptr ELSE newptr
              top == newptr + n + SlopUnits
          IN  /\ top <= SlopMemory
              /\ h' = [h EXCEPT !.ptr = p + n, !.remaining = Remaining(newptr), !.next = top,
                                !.own = @ \cup (newptr .. top - 1),
                                !.objs = @ \cup {[a |-> p, size |-> n]}]
SlopClear == h.own # {} /\ h' = [h EXCEPT !.ptr = 0, !.remaining = 0, !.next = 1,
                                          !.own = {}, !.objs = {}]
\* Objects are in memory of the heap and apart, and what remains and SLOP bytes
\* more follow the latest one, owned and in no object.
SlopWhole ==
  /\ \A o \in h.objs : Extent(o) \subseteq h.own
  /\ \A o, p \in h.objs : o # p => Extent(o) \cap Extent(p) = {}
  /\ h.ptr # 0 =>
       LET spare == h.ptr .. h.ptr + h.remaining + SlopUnits - 1
       IN  spare \subseteq h.own /\ \A o \in h.objs : Extent(o) \cap spare = {}

(***************************************************************************)
(* DynStack: items 1 .. numItems of the array; entry 0 is wasted.  stack   *)
(* is what it should hold.  An entry nobody has written is Unwritten.      *)
(***************************************************************************)
Unwritten == 0
Entries(len, old) == [i \in 0 .. len - 1 |-> IF i \in DOMAIN old THEN old[i] ELSE Unwritten]
\* operator[] of DynamicArray: an index beyond the end doubles the array.
GrowTo(arr, i) ==
  IF i < Cardinality(DOMAIN arr) THEN arr ELSE Entries(i * 2 + 1, arr)
Trim(arr, nelts) ==
  IF nelts * 4 < Cardinality(DOMAIN arr)
  THEN Entries(nelts * 2, [i \in 0 .. nelts - 1 |-> arr[i]])
  ELSE arr
DynStackInit == h = [kind |-> "dynstack", numItems |-> 0, items |-> GrowTo(<<>>, 0), stack |-> << >>]
push(v) ==
  LET n == h.numItems + 1
  IN  h' = [h EXCEPT !.numItems = n, !.items = [GrowTo(@, n) EXCEPT ![n] = v],
                     !.stack = Append(@, v)]
pop ==
  /\ h.numItems > 0
  /\ h' = [h EXCEPT !.numItems = @ - 1, !.items = Trim(GrowTo(@, h.numItems), h.numItems),
                    !.stack = SubSeq(@, 1, Len(@) - 1)]
top == IF h.numItems > 0 THEN h.items[h.numItems] ELSE 0
\* The stack holds what was pushed, however the array has grown and shrunk, and
\* never reads an entry beyond its end.
DynStackWhole ==
  /\ h.numItems = Len(h.stack) /\ h.numItems < Cardinality(DOMAIN h.items)
  /\ \A i \in 1 .. h.numItems : h.items[i] = h.stack[i]
  /\ top = IF h.stack = << >> THEN 0 ELSE h.stack[Len(h.stack)]

(***************************************************************************)
(* ProvideObjectManager.  The heap below carves objects one after another  *)
(* and gives an object that was freed to the next request of its size.     *)
(* hdr[i] precedes the i-th; there is one more than there are objects.     *)
(***************************************************************************)
Header(sz, prev) == [sz |-> sz, free |-> FALSE, prev |-> prev, prevFree |-> FALSE]
TagsInit == h = [kind |-> "tags", hdr |-> <<Header(0, 0)>>, size |-> << >>, used |-> {}]
\* The constructor writes both sizes without their bits, and the size into the
\* header after.
makeObject(hdr, i, sz) ==
  LET h1 == IF i = Len(hdr) THEN Append(hdr, Header(0, 0)) ELSE hdr
  IN  [h1 EXCEPT ![i] = Header(sz, @.prev), ![i + 1].prev = sz, ![i + 1].prevFree = FALSE]
markInUse(hdr, i) == [hdr EXCEPT ![i].free = FALSE, ![i + 1].prevFree = FALSE]
markFree(hdr, i) == [hdr EXCEPT ![i].free = TRUE, ![i + 1].prevFree = TRUE]
TaggedMalloc(sz) ==
  \E i \in {j \in DOMAIN h.size : j \notin h.used /\ h.size[j] = sz} \cup {Len(h.size) + 1} :
    /\ i <= MaxTagged
    /\ h' = [h EXCEPT !.hdr = markInUse(makeObject(@, i, sz), i), !.used = @ \cup {i},
                      !.size = IF i > Len(@) THEN Append(@, sz) ELSE @]
TaggedFree(i) == h' = [h EXCEPT !.hdr = markFree(@, i), !.used = @ \ {i}]
\* Each header has the sizes of its object and of the one before, and says free
\* of its own when it is and of the one before only when that is: the walk to
\* the neighbours never leaves the objects, and nothing in use is merged.
TagsWhole ==
  \A i \in 1 .. Len(h.size) :
    /\ h.hdr[i].sz = h.size[i] /\ h.hdr[i + 1].prev = h.size[i]
    /\ h.hdr[i].free = (i \notin h.used)
    /\ h.hdr[i + 1].prevFree => i \notin h.used
    /\ i = Len(h.size) => h.hdr[i + 1].prevFree = (i \notin h.used)

(***************************************************************************)
StackKinds == {"xalloc", "slop", "dynstack", "tags"}
StacksInit == XallocInit \/ SlopInit \/ DynStackInit \/ TagsInit
StacksNext ==
  \/ /\ h.kind = "xalloc"
     /\ (\E sz \in StackSizes : XMalloc(sz)) \/ (\E o \in h.objs : XFree(o))
  \/ h.kind = "slop" /\ ((\E n \in StackSizes : SlopMalloc(n)) \/ SlopClear)
  \/ /\ h.kind = "dynstack"
     /\ (h.numItems < MaxItems /\ \E v \in 1 .. 2 : push(v)) \/ pop
  \/ /\ h.kind = "tags"
     /\ (\E sz \in StackSizes : TaggedMalloc(sz)) \/ (\E i \in h.used : TaggedFree(i))
StacksWhole ==
  /\ h.kind = "xalloc" => XallocWhole
  /\ h.kind = "slop" => SlopWhole
  /\ h.kind = "dynstack" => DynStackWhole
  /\ h.kind = "tags" => TagsWhole
=============================================================================

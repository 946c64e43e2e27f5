------------------------------ MODULE LeaHeap -------------------------------
(***************************************************************************)
(* LeaHeap of dlheap.h, built of layers:                                   *)
(*                                                                         *)
(*   SelectMmapHeap     large objects have a mapping of their own;         *)
(*   Threshold          flushes the quick lists when they hold too much;   *)
(*   StrictSegHeap      quick lists of small objects, one per size;        *)
(*   CoalesceHeap       splits what it allocates, merges what it frees;    *)
(*   SegHeap            bins of free objects, with a map of the non-empty; *)
(*   CoalesceableHeap   memory from sbrk, with a header per object.        *)
(*                                                                         *)
(* Memory is cut into units of sizeof(double).  A header has two words:    *)
(* header units, 1 when the library is built for 32 bits and 2 for 64.     *)
(* Its constructor asserts that it is not larger than a double, and so     *)
(* with 64 bits the first split and the first mapping end the program.     *)
(* Requests come through ANSIWrapper, which makes them two words at least. *)
(* A free object thus has room for the two pointers of its list entry.     *)
(*                                                                         *)
(* An object is the address of its header.  size is its own, prev and      *)
(* free the size and state of the object in front of it: whether an object *)
(* is free is written in the header behind it.  Address 0 is the header of *)
(* what lies in front of the heap.  dead says that an assertion has failed *)
(* or a null pointer was read through.  The kind lea is the heap, leaclass *)
(* a size whose class is computed.                                         *)
(***************************************************************************)
EXTENDS Naturals, Sequences, FiniteSets, SequencesExt, FiniteSetsExt, Layer

CONSTANTS LeaUnits,       \* what sbrk can give, in headers
          LeaHeaders,     \* units of a header: 1 or 2
          LeaSizes,       \* sizes of requests
          QuickMax,       \* largest size of the quick lists, in headers
          MapAbove,       \* requests above this size are mapped
          HeldBase        \* 16384 of Threshold

LeaAddresses(header) == 0 .. (LeaUnits + 2) * header
LeaClasses(header) == 1 .. LeaUnits * header
QuickClasses(header) == 1 .. QuickMax * header
NoHeader == [size |-> 0, prev |-> 0, free |-> FALSE]

LeaInit ==
  \E before \in {0, 1}, header \in LeaHeaders :
    h = [kind |-> "lea", header |-> header,
         hd |-> [a \in LeaAddresses(header) |->
                   [NoHeader EXCEPT !.size = IF a = 0 THEN before ELSE 0]],
         brk |-> header, bins |-> [c \in LeaClasses(header) |-> << >>], marked |-> {},
         quick |-> [c \in QuickClasses(header) |-> << >>],
         held |-> 0, inUse |-> 0, maxInUse |-> 0,
         used |-> {}, mapped |-> 0, dead |-> FALSE]

(***************************************************************************)
(* Headers.                                                                *)
(***************************************************************************)
NextHeader(g, a) == a + g.header + g.hd[a].size
PrevHeader(g, a) == a - g.header - g.hd[a].prev
MarkFree(g, a, free) == [g EXCEPT !.hd[NextHeader(g, a)].free = free]
IsFree(g, a) == g.hd[NextHeader(g, a)].free

\* What the constructor of Header asserts: sizeof(Header) <= sizeof(double).
HeaderFits(g) == g.header <= 1
\* makeObject: the header p gets the sizes before and after it, the one behind it
\* the latter.
MakeObject(g, p, prev, sz) ==
  IF ~HeaderFits(g) THEN [g EXCEPT !.dead = TRUE]
  ELSE [g EXCEPT !.hd = [@ EXCEPT ![p + g.header + sz].prev = sz,
                                  ![p] = [size |-> sz, prev |-> prev, free |-> FALSE]]]

\* malloc of CoalesceableHeap.  It writes the header behind the object, and
\* the state in the one behind that, so that nothing merges past the end.
Sbrk(g, sz) ==
  LET a == g.brk
      n == a + g.header + sz
  IN  [g EXCEPT !.brk = n,
                !.hd = [@ EXCEPT ![a].size = sz, ![n] = [@ EXCEPT !.prev = sz, !.size = 0],
                                 ![n + g.header].free = FALSE]]

(***************************************************************************)
(* SegHeap.  For the sizes used here a class has one size.  remove looks   *)
(* at a list of its own, not at the bin: it can unlink an object from the  *)
(* middle of a bin, and reads through a null pointer for the first one.    *)
(***************************************************************************)
SegFree(g, a) ==
  LET c == g.hd[a].size
  IN  [g EXCEPT !.bins[c] = <<a>> \o @, !.marked = @ \cup {c}]
SegRemove(g, a) ==
  LET c == g.hd[a].size IN
  IF Head(g.bins[c]) = a THEN [g EXCEPT !.dead = TRUE]
  ELSE [g EXCEPT !.bins[c] = SelectSeq(@, LAMBDA b : b # a)]
\* malloc looks at the marked bins from the class of the request upwards and
\* clears the mark of those it finds empty; a pair of the heap and the object.
SegMalloc(g, sz) ==
  LET found == {c \in g.marked : c >= sz /\ g.bins[c] # << >>}
      c == Min(found)
      passed == {d \in g.marked : d >= sz /\ (found # {} => d < c)}
      s == [g EXCEPT !.marked = @ \ passed]
  IN  IF found = {} THEN <<Sbrk(s, sz), s.brk>>
      ELSE <<[s EXCEPT !.bins[c] = Tail(@)], Head(g.bins[c])>>

(***************************************************************************)
(* CoalesceHeap.                                                           *)
(***************************************************************************)
\* SplitTo cuts a to sz units, and frees what is left of rest units with a header.
SplitTo(g, a, sz, rest) ==
  LET p == a + g.header + sz
      m == MakeObject([g EXCEPT !.hd[a].size = sz], p, sz, rest - g.header)
  IN  IF m.dead THEN m ELSE SegFree(MarkFree(m, p, TRUE), p)
\* A mutant: a rest that has room for a header only is split off too.
SplitTight(g, a, sz) ==
  LET rest == g.hd[a].size - sz
  IN  IF rest < g.header THEN g ELSE SplitTo(g, a, sz, rest)
\* split: the rest must have room for a header and a double.
Split(g, a, sz) ==
  LET rest == g.hd[a].size - sz
  IN  IF rest < g.header + 1 THEN g ELSE SplitTo(g, a, sz, rest)
BigMalloc(g, sz) ==
  LET m == SegMalloc(g, sz)
      a == m[2]
  IN  <<Split(MarkFree(m[1], a, FALSE), a, sz), a>>

\* coalesce: the second object and its header become part of the first.
Coalesce(g, a, b) ==
  LET size == g.hd[a].size + g.header + g.hd[b].size
      hd == [g.hd EXCEPT ![a].size = size, ![b] = NoHeader]
  IN  [g EXCEPT !.hd = [hd EXCEPT ![a + g.header + size].prev = size]]
MergePrev(g, a) ==
  LET b == PrevHeader(g, a) IN
  IF ~g.hd[a].free THEN <<g, a>> ELSE <<Coalesce(SegRemove(g, b), b, a), b>>
MergeNext(g, a) ==
  LET b == NextHeader(g, a) IN
  IF ~IsFree(g, b) THEN g ELSE Coalesce(SegRemove(g, b), a, b)
\* free.  An object whose neighbours do not know it, the first of the heap
\* when the memory before it is not zero, is not merged and not marked.
Alone(g, a) == NextHeader(g, PrevHeader(g, a)) # a
BigFree(g, a) ==
  IF Alone(g, a) THEN SegFree(g, a)
  ELSE LET m == MergePrev(g, a)
           s == MergeNext(m[1], m[2])
       IN  IF s.dead THEN s ELSE SegFree(MarkFree(s, m[2], TRUE), m[2])

(***************************************************************************)
(* The quick lists.  held grows with every free and shrinks only when they *)
(* are flushed, so that it bounds what they hold from above.               *)
(***************************************************************************)
QuickMalloc(g, sz) ==
  IF sz \in QuickClasses(g.header) /\ g.quick[sz] # << >>
  THEN <<[g EXCEPT !.quick[sz] = Tail(@)], Head(g.quick[sz])>>
  ELSE BigMalloc(g, sz)
QuickFree(g, a) ==
  LET c == g.hd[a].size IN
  IF c \notin QuickClasses(g.header) THEN BigFree(g, a)
  ELSE [g EXCEPT !.quick[c] = <<a>> \o @, !.held = @ + c]
QuickAll(g) == FlattenSeq(g.quick)
FreeAll(g) ==
  LET Step(s, a) == IF s.dead THEN s ELSE BigFree(s, a)
  IN  FoldLeft(Step, [g EXCEPT !.quick = [c \in QuickClasses(g.header) |-> << >>], !.held = 0],
               QuickAll(g))

(***************************************************************************)
(* Threshold and SelectMmapHeap.                                           *)
(***************************************************************************)
LeaThreshold(g) == IF g.maxInUse = 0 THEN 0 ELSE HeldBase + g.maxInUse \div 2
LeaMalloc(sz) ==
  LET m == QuickMalloc(h, sz)
      inUse == h.inUse + m[1].hd[m[2]].size
  IN  /\ ~h.dead /\ sz <= MapAbove /\ h.brk + sz <= LeaUnits * h.header
      /\ h' = IF m[1].dead THEN m[1]
              ELSE [m[1] EXCEPT !.used = @ \cup {<<m[2], sz>>}, !.inUse = inUse,
                                !.maxInUse = IF inUse > @ THEN inUse ELSE @]
\* A mapping gets its header from makeObject; what else is in it is left out,
\* and only the number of mappings kept.
LeaMap(sz) ==
  /\ ~h.dead /\ sz > MapAbove /\ h.mapped < 1
  /\ h' = IF HeaderFits(h) THEN [h EXCEPT !.mapped = @ + 1] ELSE [h EXCEPT !.dead = TRUE]
LeaUnmap == ~h.dead /\ h.mapped > 0 /\ h' = [h EXCEPT !.mapped = @ - 1]
LeaFree(r) ==
  LET a == r[1]
      g == QuickFree([h EXCEPT !.used = @ \ {r}, !.inUse = @ - h.hd[a].size], a)
  IN  ~h.dead /\ h' = IF ~g.dead /\ g.held > LeaThreshold(g) THEN FreeAll(g) ELSE g

\* ANSIWrapper: two words are the size of a header.
LeaAsks == {sz \in LeaSizes : sz >= h.header}
LeaNext ==
  \/ \E sz \in LeaAsks : LeaMalloc(sz) \/ LeaMap(sz)
  \/ LeaUnmap
  \/ \E r \in h.used : LeaFree(r)

(***************************************************************************)
(* What the headers should say.                                            *)
(***************************************************************************)
Objs ==
  LET reach[k \in 0 .. LeaUnits] ==
        IF k = 0 THEN {h.header}
        ELSE reach[k - 1] \cup {NextHeader(h, a) : a \in {b \in reach[k - 1] : b < h.brk}}
  IN  reach[LeaUnits]
InBins == UNION {ToSet(h.bins[c]) : c \in DOMAIN h.bins}
InQuick == ToSet(QuickAll(h))
InProgram == {r[1] : r \in h.used}
\* The headers tile the heap up to the break and agree with their neighbours;
\* every object is with the program, large enough for what it was asked for,
\* or in one quick list or one bin, that of its size, which is then marked;
\* those in bins, and no others, are marked free, and two neighbours never
\* both, but for a first object with memory in front of it; and the counters
\* are right, held from above.
LeaWhole ==
  LET objs == Objs
      bins == InBins
      quick == InQuick
      program == InProgram
  IN
  ~h.dead =>
  /\ h.brk \in objs /\ \A a \in objs : a <= h.brk
  /\ \A a \in objs \ {h.brk} :
       LET n == NextHeader(h, a) IN
       /\ h.hd[n].prev = h.hd[a].size
       /\ h.hd[n].free => a \in bins
       /\ a \in bins => h.hd[n].free \/ (a = h.header /\ h.hd[0].size # 0)
       /\ h.hd[0].size = 0 => ~(h.hd[a].free /\ h.hd[n].free)
  /\ objs \ {h.brk} = bins \cup quick \cup program
  /\ bins \cap quick = {} /\ bins \cap program = {} /\ quick \cap program = {}
  /\ IsInjective(QuickAll(h))
  /\ \A c \in DOMAIN h.bins :
       /\ \A a \in ToSet(h.bins[c]) : h.hd[a].size = c
       /\ h.bins[c] # << >> => c \in h.marked
  /\ \A r \in h.used : h.hd[r[1]].size >= r[2]
  /\ h.inUse = FoldSet(LAMBDA a, n : h.hd[a].size + n, 0, program)
  /\ h.held >= FoldSet(LAMBDA a, n : h.hd[a].size + n, 0, quick)
  /\ h.held <= LeaThreshold(h)

(***************************************************************************)
(* The size classes of the big heap, in bytes (DLBigHeapNS).  The last     *)
(* bin, of 2^31 bytes, is left out.                                        *)
(***************************************************************************)
Pow2(n) == 2 ^ n
LeaBins ==
  [i \in 1 .. 64 |-> 8 * i] \o [i \in 1 .. 25 |-> 512 + 64 * i]
    \o [i \in 1 .. 17 |-> 2048 + 512 * i] \o [i \in 1 .. 8 |-> 8192 + 4096 * i]
    \o [i \in 1 .. 4 |-> 32768 + 32768 * i] \o [i \in 1 .. 13 |-> Pow2(17 + i)]
LeaClassSize(c) == LeaBins[c + 1]
Log2(n) == Max({k \in 0 .. 30 : Pow2(k) <= n} \cup {0})
LeaSizeClass(sz) ==
  LET s == sz - 1 IN
  IF s <= 513 THEN s \div 8
  ELSE IF s \div 64 <= 32 THEN 56 + s \div 64
  ELSE IF s \div 512 <= 20 THEN 91 + s \div 512
  ELSE IF s \div 4096 <= 10 THEN 104 + s \div 4096
  ELSE IF s \div 32768 <= 4 THEN 113 + s \div 32768
  ELSE IF s \div 262144 <= 2 THEN 118 + s \div 262144
  ELSE 120 + Log2(s \div 524288)
\* The bin free walks down to from there.
LeaBinOf(sz) ==
  Max({c \in 0 .. LeaSizeClass(sz) : LeaClassSize(c) <= sz} \cup {0})

ClassSamples ==
  {n \in UNION {{b - 1, b, b + 1} : b \in ToSet(LeaBins)} : n >= 8 /\ n <= Pow2(30)}
LeaClassInit == h \in [kind : {"leaclass"}, sz : ClassSamples]

\* At both ends of every bin and beyond: the class of a size exists and is
\* large enough, an object is put in a bin whose objects are not larger than
\* it, and so an object found in the class of a request, or above, serves it.
LeaClassesHold ==
  LET c == LeaSizeClass(h.sz) IN
  /\ c < Len(LeaBins) /\ LeaClassSize(c) >= h.sz
  /\ LeaClassSize(LeaBinOf(h.sz)) <= h.sz
  /\ h.sz <= Pow2(29) => LeaClassSize(LeaBinOf(h.sz) + 1) > h.sz
=============================================================================

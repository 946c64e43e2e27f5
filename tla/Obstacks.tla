------------------------------ MODULE Obstacks ------------------------------
(***************************************************************************)
(*   obstack  ObstackHeap: objects lie one behind the other in chunks; the *)
(*            last one can grow, and free gives back everything allocated  *)
(*            since an object (obstack.h and its copy obstackheap.h);      *)
(*   nested   NestedHeap: a tree of heaps, cleared from the top down.      *)
(*                                                                         *)
(* chunks are the chunks of the obstack, the current one last; objs the    *)
(* finished objects the program may still use, in the order of their       *)
(* allocation; base and next delimit the object that can grow.             *)
(*                                                                         *)
(* finalize casts a pointer to int and back.  span is the number of        *)
(* addresses of the program: that of the ints when it is built for 32      *)
(* bits, where the cast changes nothing, or more, where it cuts.  (g++     *)
(* reports the cast when pointers are wider; -fpermissive lets it pass.)   *)
(* dead says that an assertion has failed.                                 *)
(***************************************************************************)
EXTENDS Naturals, Sequences, FiniteSets, SequencesExt, FiniteSetsExt, Layer

CONSTANTS ObstackChunk,   \* ChunkSize less the header
          ObstackAlign,   \* sizeof(double)
          Spare,          \* what copyToNew adds: 100 and an eighth
          IntSpan,        \* addresses an int can tell apart: 2^32 bytes
          ObstackPlaces,  \* for a number of addresses, that of the ints or more,
                          \* where the heap below can place a chunk
          PlaceUnits,     \* distance between two places
          MaxObjects,     \* finished objects
          MaxGrown,       \* size of the growing object
          NumHeaps        \* heaps of a tree

(***************************************************************************)
(* ObstackHeap                                                             *)
(***************************************************************************)
AlignObject(n) == ((n + ObstackAlign - 1) \div ObstackAlign) * ObstackAlign
\* makeChunk.  first is the address behind the header, limit getLimit().
Taken(chunks) == {ch.place : ch \in ToSet(chunks)}
MakeChunk(chunks, place, sz) ==
  LET first == place * PlaceUnits
  IN  Append(chunks, [place |-> place, first |-> first, limit |->
        first + AlignObject(IF sz > ObstackChunk THEN sz ELSE ObstackChunk)])

Current(g) == Last(g.chunks)
AtStart(g, chunks) ==
  [g EXCEPT !.chunks = chunks, !.base = Last(chunks).first, !.next = Last(chunks).first]
ObstackInit ==
  \E span \in DOMAIN ObstackPlaces : \E p \in ObstackPlaces[span] :
    h = [kind |-> "obstack", chunks |-> MakeChunk(<< >>, p, ObstackChunk), objs |-> << >>,
         base |-> p * PlaceUnits, next |-> p * PlaceUnits, grown |-> 0,
         span |-> span, dead |-> FALSE]

Fits(g, sz) == g.next + sz <= Current(g).limit
\* The chunk the heap below gives for a request, if it has one left.
NewPlace == ObstackPlaces[h.span] \ Taken(h.chunks)

\* copyToNew: the growing object moves to a chunk that has room for more.
CopyToNew(g, place, sz) ==
  LET n == g.next - g.base
      s == AtStart(g, MakeChunk(g.chunks, place, n + sz + Spare))
  IN  [s EXCEPT !.next = s.base + n]

Grow(sz) ==
  /\ ~h.dead /\ h.grown + sz <= MaxGrown
  /\ \/ Fits(h, sz) /\ h' = [h EXCEPT !.next = @ + sz, !.grown = @ + sz]
     \/ /\ ~Fits(h, sz)
        /\ \E p \in NewPlace :
             h' = [CopyToNew(h, p, sz) EXCEPT !.next = @ + sz, !.grown = @ + sz]

\* isValid.  base is compared with the chunk's first byte: none lies in a header.
isValid(g) == /\ g.base <= g.next /\ g.next <= Current(g).limit
              /\ Current(g).first <= g.base
\* (int) ptr, widened to a size_t: negative ints become the largest addresses.
CutToInt(span, ptr) ==
  LET i == ptr % IntSpan
  IN  IF i < IntSpan \div 2 THEN i ELSE span - IntSpan + i
\* finalize: an object r of the program is finished, and the next starts behind it.
Finalized(g, r) ==
  LET n == AlignObject(CutToInt(g.span, g.next))
      s == [g EXCEPT !.next = n, !.base = n, !.objs = Append(@, r), !.grown = 0]
  IN  IF isValid(s) THEN s ELSE [g EXCEPT !.dead = TRUE]
ObstackFinalize ==
  /\ ~h.dead /\ h.grown > 0 /\ Len(h.objs) < MaxObjects
  /\ h' = Finalized(h, <<h.base, h.next - h.base>>)

\* malloc: whatever was growing is left where it is.
ObstackMalloc(sz) ==
  LET Put(g) == Finalized([g EXCEPT !.base = g.next, !.next = @ + sz, !.grown = 0], <<g.next, sz>>)
  IN  /\ ~h.dead /\ Len(h.objs) < MaxObjects
      /\ \/ Fits(h, sz) /\ h' = Put(h)
         \/ /\ ~Fits(h, sz)
            /\ \E p \in NewPlace : h' = Put(AtStart(h, MakeChunk(h.chunks, p, sz)))

\* free: chunks go back until the current one has the address, and the next
\* object will be put there.
Inside(ch, ptr) == ch.first <= ptr /\ ptr <= ch.limit
ObstackFree(i) ==
  LET ptr == h.objs[i][1]
      keep == Max({k \in DOMAIN h.chunks : Inside(h.chunks[k], ptr)})
  IN  /\ ~h.dead
      /\ h' = [h EXCEPT !.chunks = SubSeq(@, 1, keep), !.base = ptr, !.next = ptr,
                         !.objs = SubSeq(@, 1, i - 1), !.grown = 0]
\* free of NULL empties the obstack and gets one chunk.
ObstackFreeAll ==
  ~h.dead /\ \E p \in ObstackPlaces[h.span] :
    h' = [AtStart(h, MakeChunk(<< >>, p, ObstackChunk)) EXCEPT !.objs = << >>, !.grown = 0]

ObstackNext ==
  \/ \E sz \in 1 .. ObstackChunk + 1 : Grow(sz) \/ ObstackMalloc(sz)
  \/ ObstackFinalize \/ ObstackFreeAll
  \/ \E i \in DOMAIN h.objs : ObstackFree(i)

ObjectUnits(r) == r[1] .. r[1] + r[2] - 1
\* isValid, and what it is for: an object that was not freed lies in a chunk
\* that was not given back, apart from every other object and from what is
\* growing, whatever was freed, abandoned or moved to another chunk in between;
\* and the growing object has kept all it was given.  The program dies only
\* where a pointer is wider than an int, over a chunk the positive ints do not
\* reach.
ObstackWhole ==
  /\ h.dead => h.span > IntSpan /\ Current(h).limit >= IntSpan \div 2
  /\ isValid(h)
  /\ h.grown > 0 => h.next - h.base = h.grown
  /\ \A i \in DOMAIN h.objs :
       /\ \E k \in DOMAIN h.chunks :
            ObjectUnits(h.objs[i]) \subseteq h.chunks[k].first .. h.chunks[k].limit - 1
       /\ ObjectUnits(h.objs[i]) \cap (h.base .. h.next) = {}
       /\ \A j \in DOMAIN h.objs \ {i} : ObjectUnits(h.objs[i]) \cap ObjectUnits(h.objs[j]) = {}
  /\ Cardinality(Taken(h.chunks)) = Len(h.chunks)

(***************************************************************************)
(* NestedHeap.  0 is NULL.  live are the heaps that exist, full those with *)
(* something to clear.  A heap is destroyed after its children, as a heap  *)
(* with children would leave them a dangling parent.  order[p] lists the   *)
(* children p should have, to compare the links with.                      *)
(***************************************************************************)
Heaps == 1 .. NumHeaps
NestedInit ==
  h = [kind |-> "nested", live |-> {1}, full |-> {},
       parent |-> [i \in Heaps |-> 0], child |-> [i \in Heaps |-> 0],
       prev |-> [i \in Heaps |-> 0], next |-> [i \in Heaps |-> 0],
       order |-> [i \in Heaps |-> << >>]]

NestedMalloc(i) == i \notin h.full /\ h' = [h EXCEPT !.full = @ \cup {i}]
AddChild(p, c) ==
  LET old == h.child[p] IN
  h' = [h EXCEPT !.live = @ \cup {c}, !.parent[c] = p, !.child[p] = c, !.next[c] = old,
                 !.prev = IF old = 0 THEN @ ELSE [@ EXCEPT ![old] = c],
                 !.order[p] = <<c>> \o @]

RemoveSibling(g, c) ==
  LET p == g.prev[c]
      n == g.next[c]
  IN  [g EXCEPT !.next = IF p = 0 THEN @ ELSE [@ EXCEPT ![p] = n],
                !.prev = IF n = 0 THEN @ ELSE [@ EXCEPT ![n] = p]]
RemoveChild(g, p, c) ==
  LET heir == IF g.prev[c] # 0 THEN g.prev[c] ELSE g.next[c]
  IN  RemoveSibling([g EXCEPT !.child[p] = IF @ = c THEN heir ELSE @], c)

\* clear: this heap, then its children by their links.
Subtree(i) ==
  LET level[k \in 0 .. NumHeaps] ==
        IF k = 0 THEN {i}
        ELSE LET up == level[k - 1]
                 first == {h.child[j] : j \in up} \ {0}
                 sibling == {h.next[j] : j \in up \ {i}} \ {0}
             IN  up \cup first \cup sibling
  IN  level[NumHeaps]
NestedClear(i) == h.full \cap Subtree(i) # {} /\ h' = [h EXCEPT !.full = @ \ Subtree(i)]
NestedDestroy(i) ==
  LET p == h.parent[i]
      g == [h EXCEPT !.full = @ \ {i}, !.live = @ \ {i},
                     !.order = IF p = 0 THEN @ ELSE
                       [@ EXCEPT ![p] = SelectSeq(@, LAMBDA c : c # i)]]
      r == RemoveSibling(IF p = 0 THEN g ELSE RemoveChild(g, p, i), i)
  IN  /\ i # 1 /\ h.child[i] = 0
      /\ h' = [r EXCEPT !.parent[i] = 0, !.prev[i] = 0, !.next[i] = 0]

NestedNext ==
  \E i \in h.live :
    \/ NestedMalloc(i) \/ NestedClear(i) \/ NestedDestroy(i)
    \/ \E c \in Heaps \ h.live : AddChild(i, c)

\* The links spell out the children of every heap in both directions and
\* reach no heap that was destroyed, so that clear reaches all of a heap's
\* descendants and nothing else.
NestedWhole ==
  /\ \A i \in h.live :
       LET s == h.order[i] IN
       /\ h.child[i] = IF s = << >> THEN 0 ELSE s[1]
       /\ \A k \in DOMAIN s :
            /\ h.parent[s[k]] = i /\ s[k] \in h.live
            /\ h.next[s[k]] = IF k = Len(s) THEN 0 ELSE s[k + 1]
            /\ h.prev[s[k]] = IF k = 1 THEN 0 ELSE s[k - 1]
  /\ h.full \subseteq h.live
  /\ Subtree(1) = h.live

ObstacksInit == ObstackInit \/ NestedInit
ObstacksNext == \/ h.kind = "obstack" /\ ObstackNext
                \/ h.kind = "nested" /\ NestedNext
ObstackKinds == {"obstack", "nested"}
ObstacksWhole ==
  /\ h.kind = "obstack" => ObstackWhole
  /\ h.kind = "nested" => NestedWhole
=============================================================================

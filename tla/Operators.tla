----------------------------- MODULE Operators ------------------------------
(***************************************************************************)
(* The sequential algorithms against what they should compute: requests    *)
(* and size classes for every size up to a bound, list operations on every *)
(* pair of lists of a few nodes.  One state is one input.                  *)
(***************************************************************************)
EXTENDS Requests, List, SequencesExt, Layer

CONSTANTS ListItems, ListA, ListB   \* nodes, and the heads of two lists

ASSUME OperatorsAssumption ==
  /\ IsFiniteSet(ListItems)
  /\ ListA \notin ListItems /\ ListB \notin ListItems /\ ListA # ListB

SizesInit == h \in [kind : {"sizes"}, size : 0 .. MaxSize]

PairsInit == h = [kind |-> "pairs", lists |-> <<<<>>, <<>>>>]
PairsNext ==
  \E i \in 1 .. 2, n \in ListItems \ (ToSet(h.lists[1]) \cup ToSet(h.lists[2])) :
    h' = [h EXCEPT !.lists[i] = Append(@, n)]

OperatorsInit == SizesInit \/ PairsInit
OperatorsNext == h.kind = "pairs" /\ PairsNext
OperatorsSpec == OperatorsInit /\ [][OperatorsNext]_h

-----------------------------------------------------------------------------
(* Sizes *)

size == h.size

\* size2Class names the smallest class a size fits, so its assertion and those
\* of StrictSegHeap::malloc hold (kingsleyheap.h:80, segheap.h:318).
TightFit ==
  h.kind = "sizes" /\ size > 0 =>
      /\ class2Size(size2Class(size)) >= size
      /\ \A c \in 0 .. size2Class(size) - 1 : class2Size(c) < size

\* A block that was freed is found by requests it is large enough for, and
\* by no others, whatever size it was first asked for (segheap.h:313).
RecycledFits ==
  h.kind = "sizes" =>
    LET block == BlockSize(size)
        bin == FreeBin(block)
    IN  \A sz \in 1 .. MaxSize : MallocBin(sz) # Big /\ MallocBin(sz) = bin => block >= sz

\* tempmalloc never hands out a byte outside its buffer nor one below what it has
\* handed out, for any request that is less than the buffer is long.  From there
\* on the sum may be a negative int and pass the check (libmythread.cpp:47).
TempInside ==
  h.kind = "sizes" =>
    \A allocated \in {n \in 0 .. InitialMallocSize : n % 16 = 0} :
      LET sz == TempRequest(size) IN
        sz < InitialMallocSize /\ size < InitialMallocSize /\ ~TempRefuses(allocated, ToInt(sz)) =>
          /\ TempBlock(allocated, ToInt(sz)) \subseteq 0 .. InitialMallocSize - 1
          /\ Cardinality(TempBlock(allocated, ToInt(sz))) >= size

\* The pages taken for a large object hold the Arena record, the header and the
\* object, unless the request is within a few headers and a page of the largest
\* size_t: no sum on the way has wrapped (xpheap.h:51, zoneheap.h:92, xheap.h:92).
PagesCover ==
  h.kind = "sizes" /\ size + ArenaHeader + HeaderSize + 16 + PageSize < Word =>
      PagesTaken(size) >= ArenaHeader + HeaderSize + size

\* What calloc clears lies in the object it got, even if the product wraps, and
\* what realloc copies lies in both objects, for all sizes that short of the
\* largest (libmythread.cpp:87, xmemory.h:105).
WritesInside ==
  h.kind = "sizes" =>
    \A other \in 0 .. 20 :
      LET n == CallocAsks(other, size) IN
        /\ n + 8 < Word => CallocClears(other, size) <= Usable(n)
        /\ size + 8 < Word => /\ CopySize(Usable(other), size) <= Usable(size)
                              /\ CopySize(Usable(other), size) <= Usable(other)

\* Every byte that a request of any size makes the library hand out, clear or
\* copy lies in memory that was taken for it: TempInside, PagesCover and
\* WritesInside (libmythread.cpp:47, xpheap.h:51, libmythread.cpp:87).
RequestsInside == TempInside /\ PagesCover /\ WritesInside

-----------------------------------------------------------------------------
(* Lists *)

ListNodes == ListItems \cup {ListA, ListB}
WithHead(head, s) == <<head>> \o s
After(ring, n) == LET i == CHOOSE k \in DOMAIN ring : ring[k] = n IN
                    ring[IF i = Len(ring) THEN 1 ELSE i + 1]

\* Two lists as list.h keeps them; the other nodes are initialised.
RingOf(n) ==
  LET a == WithHead(ListA, h.lists[1])
      b == WithHead(ListB, h.lists[2])
  IN  IF n \in ToSet(a) THEN a ELSE IF n \in ToSet(b) THEN b ELSE <<n>>
PairPointers == [next |-> [n \in ListNodes |-> After(RingOf(n), n)],
             prev |-> [n \in ListNodes |-> After(Reverse(RingOf(n)), n)]]

Is(g, head, s) ==
  /\ Walk(g, head, Cardinality(ListNodes)) = s
  /\ WalkBack(g, head, Cardinality(ListNodes)) = Reverse(s)

Unlisted == ListItems \ (ToSet(h.lists[1]) \cup ToSet(h.lists[2]))
A == h.lists[1]
BB == h.lists[2]

\* Insertion at either end and behind a node, removal, taking the first and
\* splicing two lists give the sequences they should, in both directions, and
\* leave the other list alone.  Splices are of lists that are not empty: with an
\* empty one list.h would link its head (list.h:127).
ListsAgree ==
  h.kind = "pairs" =>
    /\ Is(PairPointers, ListA, A) /\ Is(PairPointers, ListB, BB)
    /\ \A n \in Unlisted :
         /\ Is(ListInsertHead(PairPointers, n, ListA), ListA, <<n>> \o A)
         /\ Is(ListInsertTail(PairPointers, n, ListA), ListA, Append(A, n))
         /\ \A i \in DOMAIN A : Is(ListInsertNode(PairPointers, n, A[i]), ListA, InsertAt(A, i + 1, n))
    /\ \A i \in DOMAIN A :
         LET g == ListRemoveNode(PairPointers, A[i]) IN
           Is(g, ListA, RemoveAt(A, i)) /\ Is(g, ListB, BB) /\ IsListEmpty(g, A[i])
    /\ Is(ListRetrieveItem(PairPointers, ListA), ListA, IF A = <<>> THEN A ELSE Tail(A))
    /\ BB # <<>> =>
         /\ Is(ListInsertListTail(PairPointers, ListB, ListA), ListA, A \o BB)
         /\ A = <<>> => LET g == ListRetrieveAllItems(PairPointers, ListA, ListB) IN
                          Is(g, ListA, BB) /\ Is(g, ListB, <<>>)

=============================================================================

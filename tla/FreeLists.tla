----------------------------- MODULE FreeLists ------------------------------
(***************************************************************************)
(* Heaps of Heap Layers that keep freed objects on a list and ask the heap *)
(* below only when the list cannot serve.                                  *)
(*                                                                         *)
(*   fifo      FIFOFreelistHeap, singly linked, two sentinels;             *)
(*   fifodl    FIFODLFreelistHeap, doubly linked, with remove;             *)
(*   freelist  FreelistHeap over FreeSLList, a stack;                      *)
(*   bounded   BoundedFreeListHeap, which clears the list now and then;    *)
(*   firstfit  FirstFitHeap, in address order, objects of several sizes;   *)
(*   batch     BatchHeap over MultiMalloc, two lists;                      *)
(*   multi     MultiMalloc of multimalloc.h, which keeps freed batches.    *)
(*                                                                         *)
(* Objects are addresses.  used are those the program has, super those the *)
(* heap below has; queue is what the list should hold, oldest first, kept  *)
(* beside the links of the first two heaps to compare them with.  The      *)
(* links of an object in the hands of the program are its data: Null.      *)
(***************************************************************************)
EXTENDS Naturals, Sequences, FiniteSets, SequencesExt, FiniteSetsExt, Layer

CONSTANTS NumObjects,     \* objects of the heap below
          MaxObject,      \* sizes of objects of FirstFitHeap: 1 .. MaxObject
          Bound,          \* numObjects of BoundedFreeListHeap
          BatchNumber     \* of BatchHeap

Objects == 1 .. NumObjects
HeadNode == 0
TailNode == NumObjects + 1
Null == NumObjects + 2
Links(first) == [n \in 0 .. NumObjects + 1 |-> IF n \in Objects THEN Null ELSE first[n]]

Places == [used |-> {}, super |-> Objects]
FromSuper(o) == h' = [h EXCEPT !.used = @ \cup {o}, !.super = @ \ {o}]

(***************************************************************************)
(* FIFOFreelistHeap.  next of the tail is the last object, or the tail.    *)
(***************************************************************************)
FifoInit ==
  h = [kind |-> "fifo", queue |-> << >>,
       next |-> Links((HeadNode :> TailNode) @@ (TailNode :> TailNode))] @@ Places

FifoMalloc ==
  LET p == h.next[HeadNode]
      q == h.next[p]
  IN  \/ p = TailNode /\ \E o \in h.super : FromSuper(o)
      \/ /\ p # TailNode
         /\ h' = [h EXCEPT !.next = [@ EXCEPT ![HeadNode] = q, ![p] = Null,
                             ![TailNode] = IF q = TailNode THEN TailNode ELSE @],
                           !.used = @ \cup {p}, !.queue = Tail(@)]

\* A mutant: the last object is not told of the new one.
LinkLastShort(next, p) == [next EXCEPT ![p] = TailNode, ![TailNode] = p]
LinkLast(next, p) ==
  LET n1 == [next EXCEPT ![p] = TailNode]
      n2 == [n1 EXCEPT ![n1[TailNode]] = p]
  IN  [n2 EXCEPT ![TailNode] = p]
LinkFifo(next, p) ==
  LET n == LinkLast(next, p)
  IN  IF n[HeadNode] = TailNode THEN [n EXCEPT ![HeadNode] = p] ELSE n
FifoFree(p) ==
  h' = [h EXCEPT !.next = LinkFifo(h.next, p), !.used = @ \ {p}, !.queue = Append(@, p)]

(***************************************************************************)
(* FIFODLFreelistHeap: freed objects enter after the head, malloc takes    *)
(* the one before the tail.                                                *)
(***************************************************************************)
FifoDLInit ==
  h = [kind |-> "fifodl", queue |-> << >>,
       next |-> Links((HeadNode :> TailNode) @@ (TailNode :> TailNode)),
       prev |-> Links((HeadNode :> HeadNode) @@ (TailNode :> HeadNode))] @@ Places

FifoDLMalloc ==
  LET p == h.prev[TailNode] IN
  \/ p = HeadNode /\ \E o \in h.super : FromSuper(o)
  \/ /\ p # HeadNode
     /\ h' = [h EXCEPT !.next = [@ EXCEPT ![h.prev[p]] = TailNode, ![p] = Null],
                       !.prev = [@ EXCEPT ![TailNode] = h.prev[p], ![p] = Null],
                       !.used = @ \cup {p}, !.queue = Tail(@)]
FifoDLFree(p) ==
  h' = [h EXCEPT !.next = [@ EXCEPT ![p] = h.next[HeadNode], ![HeadNode] = p],
                 !.prev = [@ EXCEPT ![h.next[HeadNode]] = p, ![p] = HeadNode],
                 !.used = @ \ {p}, !.queue = Append(@, p)]
\* remove: any object on the list leaves it, for whoever asked.
FifoDLRemove(p) ==
  h' = [h EXCEPT !.next = [@ EXCEPT ![h.prev[p]] = h.next[p], ![p] = Null],
                 !.prev = [@ EXCEPT ![h.next[p]] = h.prev[p], ![p] = Null],
                 !.used = @ \cup {p}, !.queue = SelectSeq(@, LAMBDA o : o # p)]

(***************************************************************************)
(* FreelistHeap and BoundedFreeListHeap: stacks.  nObjects of the latter   *)
(* counts the objects freed since the list was cleared, for malloc does    *)
(* not count down; the free that finds the bound reached clears the list   *)
(* and forgets its own object.                                             *)
(***************************************************************************)
StackInit ==
  \E k \in {"freelist", "bounded"} :
    h = [kind |-> k, list |-> << >>, n |-> 0, lost |-> {}] @@ Places

StackMalloc ==
  \/ h.list = << >> /\ \E o \in h.super : FromSuper(o)
  \/ /\ h.list # << >>
     /\ h' = [h EXCEPT !.list = Tail(@), !.used = @ \cup {Head(h.list)}]
Insert(p) == h' = [h EXCEPT !.list = <<p>> \o @, !.used = @ \ {p},
                            !.n = IF h.kind = "bounded" THEN @ + 1 ELSE @]
FreelistFree(p) == h.kind = "freelist" /\ Insert(p)
Cleared == [h EXCEPT !.super = @ \cup ToSet(h.list), !.list = << >>, !.n = 0]
Clear == h.list # << >> /\ h' = Cleared
BoundedFree(p) ==
  /\ h.kind = "bounded"
  /\ \/ h.n < Bound /\ Insert(p)
     \/ /\ h.n >= Bound
        /\ h' = [Cleared EXCEPT !.used = @ \ {p}, !.lost = @ \cup {p}]

(***************************************************************************)
(* FirstFitHeap.  size[o] is the size the object was made with, ask[o] the *)
(* size of the request it serves.                                          *)
(***************************************************************************)
FirstFitInit ==
  h = [kind |-> "firstfit", list |-> << >>, n |-> 0, size |-> [o \in Objects |-> 0],
       ask |-> [o \in Objects |-> 0]] @@ Places

Fitting(sz) == {i \in DOMAIN h.list : h.size[h.list[i]] >= sz}
FirstFitMalloc(sz) ==
  \/ /\ Fitting(sz) = {}
     /\ \E o \in h.super :
          h' = [h EXCEPT !.used = @ \cup {o}, !.super = @ \ {o},
                         !.size[o] = sz, !.ask[o] = sz]
  \/ /\ Fitting(sz) # {}
     /\ LET i == Min(Fitting(sz)) IN
        h' = [h EXCEPT !.used = @ \cup {h.list[i]}, !.ask[h.list[i]] = sz,
                       !.list = RemoveAt(@, i), !.n = @ - 1]
\* free walks past the objects at lower addresses.
Below(p) == Cardinality({i \in DOMAIN h.list : h.list[i] <= p})
FirstFitFree(p) ==
  h' = [h EXCEPT !.list = InsertAt(@, Below(p) + 1, p), !.n = @ + 1,
                 !.used = @ \ {p}, !.ask[p] = 0]

(***************************************************************************)
(* BatchHeap.  multimalloc fetches up to BatchNumber objects; multifree    *)
(* gives that many back and reads through a null pointer when the list is  *)
(* shorter, as taking from an empty list does: then the heap is dead.      *)
(***************************************************************************)
BatchInit ==
  h = [kind |-> "batch", list |-> <<<< >>, << >>>>, n |-> 0, dead |-> FALSE] @@ Places

LowestOf(S, k) == {o \in S : Cardinality({q \in S : q <= o}) <= k}
MultiMalloc(g) ==
  LET got == LowestOf(g.super, BatchNumber)
  IN  [g EXCEPT !.list[1] = SetToSortSeq(got, LAMBDA a, b : a < b),
                !.super = @ \ got, !.n = Cardinality(got)]
MultiFree(g) ==
  IF Len(g.list[2]) < BatchNumber
  THEN [g EXCEPT !.dead = TRUE]
  ELSE [g EXCEPT !.super = @ \cup ToSet(SubSeq(g.list[2], 1, BatchNumber)), !.list[2] = << >>]
\* Which of the two lists malloc takes from and free puts on.
Second(n) == IF n > BatchNumber THEN 2 ELSE 1
BatchTake(g) ==
  LET l == Second(g.n) IN
  IF g.list[l] = << >> THEN [g EXCEPT !.dead = TRUE]
  ELSE [g EXCEPT !.list[l] = Tail(@), !.n = @ - 1, !.used = @ \cup {Head(g.list[l])}]
BatchMalloc ==
  /\ ~h.dead /\ (h.n = 0 => h.super # {})
  /\ h' = BatchTake(IF h.n = 0 THEN MultiMalloc(h) ELSE h)
BatchFree(p) ==
  LET g == [h EXCEPT !.list[Second(h.n)] = <<p>> \o @, !.n = @ + 1, !.used = @ \ {p}]
  IN  ~h.dead /\ h' = IF g.n = 2 * BatchNumber THEN MultiFree(g) ELSE g

(***************************************************************************)
(* MultiMalloc of multimalloc.h: objects come and go in batches.  A freed  *)
(* batch goes on a stack, and must be asked for again with its own number: *)
(* anything else fails an assertion.                                       *)
(***************************************************************************)
MultiInit == h = [kind |-> "multi", stk |-> << >>, dead |-> FALSE] @@ Places
multimalloc(num) ==
  IF h.stk = << >>
  THEN /\ Cardinality(h.super) >= num
       /\ LET new == LowestOf(h.super, num) IN
          h' = [h EXCEPT !.super = @ \ new, !.used = @ \cup new]
  ELSE IF Cardinality(Head(h.stk)) # num THEN h' = [h EXCEPT !.dead = TRUE]
  ELSE h' = [h EXCEPT !.stk = Tail(@), !.used = @ \cup Head(h.stk)]
\* The program may put the objects it has together as it likes.
multifree(batch) == h' = [h EXCEPT !.stk = <<batch>> \o @, !.used = @ \ batch]

ListsInit == FifoInit \/ FifoDLInit \/ StackInit \/ FirstFitInit \/ BatchInit \/ MultiInit
ListsNext ==
  \/ h.kind = "fifo" /\ (FifoMalloc \/ \E p \in h.used : FifoFree(p))
  \/ /\ h.kind = "fifodl"
     /\ \/ FifoDLMalloc
        \/ \E p \in h.used : FifoDLFree(p)
        \/ \E p \in ToSet(h.queue) : FifoDLRemove(p)
  \/ /\ h.kind \in {"freelist", "bounded"}
     /\ StackMalloc \/ Clear \/ \E p \in h.used : FreelistFree(p) \/ BoundedFree(p)
  \/ /\ h.kind = "firstfit"
     /\ \/ \E sz \in 1 .. MaxObject : FirstFitMalloc(sz)
        \/ \E p \in h.used : FirstFitFree(p)
  \/ h.kind = "batch" /\ (BatchMalloc \/ \E p \in h.used : BatchFree(p))
  \/ /\ h.kind = "multi" /\ ~h.dead
     /\ \/ \E num \in 1 .. BatchNumber : multimalloc(num)
        \/ \E batch \in (SUBSET h.used) \ {{}} : multifree(batch)
ListKinds == {"fifo", "fifodl", "freelist", "bounded", "firstfit", "batch", "multi"}

(***************************************************************************)
(* The links from a node, followed k times.                                *)
(***************************************************************************)
FollowList(links, from) ==
  LET at[k \in 0 .. NumObjects + 1] == IF k = 0 THEN from ELSE links[at[k - 1]]
  IN  at

\* The links of the two queues spell out what was freed and not yet used
\* again, forwards and, where there are two, backwards; they end at the
\* sentinels.
QueueLinked ==
  LET n == Len(h.queue) IN
  IF h.kind = "fifo"
  THEN /\ \A k \in 1 .. n : FollowList(h.next, HeadNode)[k] = h.queue[k]
       /\ FollowList(h.next, HeadNode)[n + 1] = TailNode
  ELSE /\ \A k \in 1 .. n : /\ FollowList(h.prev, TailNode)[k] = h.queue[k]
                            /\ FollowList(h.next, HeadNode)[k] = h.queue[n + 1 - k]
       /\ FollowList(h.prev, TailNode)[n + 1] = HeadNode
       /\ FollowList(h.next, HeadNode)[n + 1] = TailNode

OnList ==
  CASE h.kind \in {"fifo", "fifodl"} -> h.queue
    [] h.kind = "batch" -> h.list[1] \o h.list[2]
    [] h.kind = "multi" -> FlattenSeq([i \in DOMAIN h.stk |-> SetToSeq(h.stk[i])])
    [] OTHER -> h.list

\* Every object is in one place: with the program, on a list once, or with
\* the heap below; only BoundedFreeListHeap loses some.
OnePlace ==
  LET lost == IF h.kind \in {"freelist", "bounded"} THEN h.lost ELSE {} IN
  /\ Cardinality(h.used) + Cardinality(h.super) + Len(OnList) + Cardinality(lost)
       = NumObjects
  /\ UNION {h.used, h.super, ToSet(OnList), lost} = Objects
  /\ lost # {} => h.kind = "bounded"

\* Counters agree with the lists: FirstFitHeap's and BatchHeap's exactly,
\* BoundedFreeListHeap's from above and within the bound; FirstFitHeap's list
\* is in address order and an object serves no request larger than it is;
\* BatchHeap dies only once its first list holds one object too many, which
\* free lets happen (it compares with <= before it counts the object).
ListCounted ==
  CASE h.kind = "firstfit" ->
         /\ h.n = Len(h.list)
         /\ \A i, j \in DOMAIN h.list : i < j => h.list[i] < h.list[j]
         /\ \A o \in h.used : h.size[o] >= h.ask[o]
    [] h.kind = "bounded" -> Len(h.list) <= h.n /\ h.n <= Bound
    [] h.kind = "batch" ->
         IF h.dead THEN Len(h.list[1]) = BatchNumber + 1
         ELSE /\ h.n = Len(OnList)
              /\ Len(h.list[1]) <= BatchNumber + 1
              /\ h.list[2] # << >> => Len(h.list[1]) = BatchNumber + 1
    [] OTHER -> TRUE

ListsWhole ==
  /\ OnePlace /\ ListCounted
  /\ h.kind \in {"fifo", "fifodl"} => QueueLinked
=============================================================================

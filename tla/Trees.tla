------------------------------- MODULE Trees --------------------------------
(***************************************************************************)
(* Two heaps of Heap Layers that search what was freed for an object that  *)
(* fits: CartesianHeap ("treap"), which keeps freed objects in a Treap     *)
(* ordered by size, and AOFFHeap ("aoff"), address-ordered first fit.      *)
(*                                                                         *)
(* A node of the treap is the freed object itself.  kid, parent, key and   *)
(* prio are its fields; Nil is the null pointer.  Sizes are counted in     *)
(* units: HeaderUnits is sizeof(allocatedObject) and FreedUnits is         *)
(* sizeof(freedObject).                                                    *)
(***************************************************************************)
EXTENDS Naturals, Sequences, FiniteSets, SequencesExt, FiniteSetsExt, Layer

CONSTANTS NumNodes,       \* objects of the heap below CartesianHeap
          NodeSize,       \* sizeof(Treap::Node)
          MaxKey,         \* largest size asked for
          MaxPriority,    \* addresses cut to an unsigned int: 1 .. MaxPriority
          AoffUnits,      \* memory of the heap below AOFFHeap
          AoffSizes,      \* sizes asked of AOFFHeap
          FreeThreshold

Nodes == 1 .. NumNodes
Nil == 0
HeaderUnits == 1
FreedUnits == 3

(***************************************************************************)
(* Treap.                                                                  *)
(***************************************************************************)
Other(side) == IF side = "left" THEN "right" ELSE "left"
TreapInit ==
  h = [kind |-> "treap", root |-> Nil, used |-> {}, super |-> Nodes,
       kid |-> [s \in {"left", "right"} |-> [n \in Nodes |-> Nil]],
       parent |-> [n \in Nodes |-> Nil], key |-> [n \in Nodes |-> 0],
       prio |-> [n \in Nodes |-> 0], ask |-> [n \in Nodes |-> 0]]

\* The pointer that leads to n now leads to c.
Relink(t, n, c) ==
  LET p == t.parent[n]
  IN  IF p = Nil THEN [t EXCEPT !.root = c]
      ELSE [t EXCEPT !.kid[IF t.kid["left"][p] = n THEN "left" ELSE "right"][p] = c]

\* The child of n on side takes the place of n, which becomes its child on the
\* other side; the grandchild between them changes hands.
Rotate(t, n, side) ==
  LET c == t.kid[side][n]
      inner == t.kid[Other(side)][c]
  IN  [Relink(t, n, c) EXCEPT !.kid[side][n] = inner, !.kid[Other(side)][c] = n,
         !.parent = [x \in Nodes |-> CASE x = inner -> n
                                       [] x = c -> t.parent[n]
                                       [] x = n -> c
                                       [] OTHER -> t.parent[x]]]
rotateLeft(t, n) == Rotate(t, n, "right")
rotateRight(t, n) == Rotate(t, n, "left")

RECURSIVE lookupFrom(_, _, _)
lookupFrom(t, n, key) ==
  IF n = Nil \/ t.key[n] = key THEN n
  ELSE lookupFrom(t, t.kid[IF key < t.key[n] THEN "left" ELSE "right"][n], key)
lookup(t, key) == lookupFrom(t, t.root, key)

RECURSIVE lookupGeqFrom(_, _, _, _)
lookupGeqFrom(t, n, key, best) ==
  IF n = Nil THEN best
  ELSE IF t.key[n] = key THEN n
  ELSE IF t.key[n] < key THEN lookupGeqFrom(t, t.kid["right"][n], key, best)
  ELSE lookupGeqFrom(t, t.kid["left"][n], key,
                     IF best = Nil \/ t.key[best] > t.key[n] THEN n ELSE best)
lookupGeq(t, key) == lookupGeqFrom(t, t.root, key, Nil)

\* The node below which a new one of this key is hung; equal keys go right.
RECURSIVE LeafFor(_, _, _, _)
LeafFor(t, n, p, key) ==
  IF n = Nil THEN p
  ELSE LeafFor(t, t.kid[IF key < t.key[n] THEN "left" ELSE "right"][n], n, key)

RECURSIVE MoveUp(_, _)
MoveUp(t, n) ==
  LET p == t.parent[n]
  IN  IF p = Nil \/ t.prio[p] <= t.prio[n] THEN t
      ELSE MoveUp(IF t.kid["left"][p] = n THEN rotateRight(t, p) ELSE rotateLeft(t, p), n)

insert(t, n, key) ==
  LET p == LeafFor(t, t.root, Nil, key)
      t1 == [t EXCEPT !.key[n] = key, !.parent[n] = p]
  IN  MoveUp(IF p = Nil THEN [t1 EXCEPT !.root = n]
             ELSE [t1 EXCEPT !.kid[IF key < t.key[p] THEN "left" ELSE "right"][p] = n], n)

LowerChild(t, n) ==
  LET l == t.kid["left"][n]
      r == t.kid["right"][n]
  IN  IF r = Nil \/ (l # Nil /\ t.prio[l] < t.prio[r]) THEN "left" ELSE "right"
RECURSIVE MoveDown(_, _)
MoveDown(t, n) ==
  IF t.kid["left"][n] = Nil /\ t.kid["right"][n] = Nil THEN t
  ELSE MoveDown(IF LowerChild(t, n) = "left" THEN rotateRight(t, n) ELSE rotateLeft(t, n), n)
remove(t, n) == [Relink(MoveDown(t, n), n, Nil) EXCEPT !.parent[n] = Nil]

(***************************************************************************)
(* CartesianHeap.  The priority of an object is its address cut to 32      *)
(* bits, so two objects may have the same.  size is what the heap below    *)
(* knows of an object.                                                     *)
(***************************************************************************)
NodeRounded(sz) == IF sz < NodeSize THEN NodeSize ELSE sz
CartesianMalloc(sz) ==
  LET n == lookupGeq(h, NodeRounded(sz)) IN
  \/ /\ n # Nil
     /\ h' = [remove(h, n) EXCEPT !.used = @ \cup {n}, !.ask[n] = sz]
  \/ /\ n = Nil /\ h.super # {}
     /\ \E p \in 1 .. MaxPriority :
          LET o == Min(h.super) IN
          h' = [h EXCEPT !.super = @ \ {o}, !.used = @ \cup {o}, !.prio[o] = p,
                         !.key[o] = NodeRounded(sz), !.ask[o] = sz]
CartesianFree(n) ==
  h' = [insert(h, n, h.key[n]) EXCEPT !.used = @ \ {n}, !.ask[n] = 0]
InTreap == Nodes \ (h.used \cup h.super)
\* remove(ptr): a layer above takes a freed object out, to merge it with another.
CartesianRemove(n) == h' = [remove(h, n) EXCEPT !.used = @ \cup {n}]

TreapNext ==
  \/ \E sz \in 1 .. MaxKey : CartesianMalloc(sz)
  \/ \E n \in h.used : CartesianFree(n)
  \/ \E n \in InTreap : CartesianRemove(n)

RECURSIVE heapProperty(_, _)
heapProperty(n, lbound) ==
  n = Nil \/ /\ h.prio[n] >= lbound
             /\ heapProperty(h.kid["left"][n], h.prio[n])
             /\ heapProperty(h.kid["right"][n], h.prio[n])
RECURSIVE bstProperty(_, _, _)
bstProperty(n, lbound, ubound) ==
  n = Nil \/ /\ lbound <= h.key[n] /\ h.key[n] <= ubound
             /\ bstProperty(h.kid["left"][n], lbound, h.key[n])
             /\ bstProperty(h.kid["right"][n], h.key[n], ubound)
\* The nodes deleteTreap visits, in order.
RECURSIVE deleteTreap(_)
deleteTreap(n) ==
  IF n = Nil THEN << >>
  ELSE deleteTreap(h.kid["left"][n]) \o deleteTreap(h.kid["right"][n]) \o <<n>>

TreapWhole ==
  /\ heapProperty(h.root, 0) /\ bstProperty(h.root, 0, MaxKey)
  /\ LET all == deleteTreap(h.root) IN ToSet(all) = InTreap /\ IsInjective(all)
  /\ \A n \in InTreap, s \in {"left", "right"} :
       h.kid[s][n] # Nil => h.parent[h.kid[s][n]] = n
  /\ \A k \in 1 .. MaxKey :
       LET fit == {h.key[n] : n \in {m \in InTreap : h.key[m] >= k}}
           g == lookupGeq(h, k)
       IN  /\ IF fit = {} THEN g = Nil ELSE h.key[g] = Min(fit)
           /\ (lookup(h, k) # Nil) = (k \in fit)
  /\ \A n \in h.used : h.key[n] >= h.ask[n]

(***************************************************************************)
(* AOFFHeap.  list is the free list; the units a split loses (it takes a   *)
(* freedObject off the rest, where only an allocatedObject is used) belong *)
(* to nobody.                                                              *)
(***************************************************************************)
AoffInit == h = [kind |-> "aoff", used |-> {}, list |-> << >>, super |-> 1 .. AoffUnits]

Object(a, sz) == [a |-> a, size |-> sz]
getSuccessor(o) == o.a + HeaderUnits + o.size
Span(o) == o.a .. getSuccessor(o) - 1
BigEnough(sz) == {i \in DOMAIN h.list : h.list[i].size >= sz + FreedUnits}

AoffMalloc(sz) ==
  \/ /\ BigEnough(sz) = {}
     /\ \E a \in h.super :
          LET o == Object(a, sz) IN
          /\ Span(o) \subseteq h.super
          /\ h' = [h EXCEPT !.super = @ \ Span(o), !.used = @ \cup {o}]
  \/ /\ BigEnough(sz) # {}
     /\ LET i == Min(BigEnough(sz))
            o == Object(h.list[i].a, sz)
        IN  h' = [h EXCEPT !.used = @ \cup {o},
                    !.list[i] = Object(getSuccessor(o), @.size - sz - FreedUnits)]

coalesce(curr, succ) == Object(curr.a, curr.size + succ.size + HeaderUnits)
\* The objects i and i + 1 of the list become one when the first ends where the
\* second starts.
Coalesced(list, i) ==
  IF i \in 1 .. Len(list) - 1 /\ getSuccessor(list[i]) = list[i + 1].a
  THEN [RemoveAt(list, i + 1) EXCEPT ![i] = coalesce(list[i], list[i + 1])]
  ELSE list
\* The object just inserted at i: first with the one before it, then with the
\* one after; at is where it has ended up.
AoffFree(o) ==
  LET i == Cardinality({j \in DOMAIN h.list : h.list[j].a < o.a}) + 1
      l1 == InsertAt(h.list, i, o)
      l2 == Coalesced(l1, i - 1)
      at == IF Len(l2) < Len(l1) THEN i - 1 ELSE i
      l3 == Coalesced(l2, at)
      freed == [h EXCEPT !.used = @ \ {o}]
  IN  h' = IF l3[at].size >= FreeThreshold
           THEN [freed EXCEPT !.list = RemoveAt(l3, at), !.super = @ \cup Span(l3[at])]
           ELSE [freed EXCEPT !.list = l3]
\* free of an object that is on the list: the code walks away.
AoffFreeAgain(o) == UNCHANGED h

AoffNext ==
  \/ \E sz \in AoffSizes : AoffMalloc(sz)
  \/ \E o \in h.used : AoffFree(o)
  \/ \E i \in DOMAIN h.list : AoffFreeAgain(h.list[i])

\* What an object on the list writes: its links, and all it may hand out.
FreeSpan(o) == Span(o) \cup (o.a .. o.a + FreedUnits - 1)
AoffWhole ==
  /\ \A i \in DOMAIN h.list, j \in DOMAIN h.list :
       i < j => /\ h.list[i].a < h.list[j].a
                /\ FreeSpan(h.list[i]) \cap FreeSpan(h.list[j]) = {}
                /\ getSuccessor(h.list[i]) # h.list[j].a
  /\ \A i \in DOMAIN h.list : \A o \in h.used : FreeSpan(h.list[i]) \cap Span(o) = {}
  /\ \A i \in DOMAIN h.list : FreeSpan(h.list[i]) \cap h.super = {}
  /\ \A o, p \in h.used : o # p => Span(o) \cap Span(p) = {}
  /\ \A o \in h.used : Span(o) \cap h.super = {}

(***************************************************************************)
TreeKinds == {"treap", "aoff"}
TreesInit == TreapInit \/ AoffInit
TreesNext ==
  \/ h.kind = "treap" /\ TreapNext
  \/ h.kind = "aoff" /\ AoffNext
\* In every order of malloc, free and remove: the treap stays a search tree by
\* size and a heap by priority whose links are inverse to each other, holds the
\* freed objects once each and finds the smallest that fits; the address-ordered
\* list never overlaps an object in use and leaves no two neighbours unmerged.
TreesWhole ==
  /\ h.kind = "treap" => TreapWhole
  /\ h.kind = "aoff" => AoffWhole
=============================================================================

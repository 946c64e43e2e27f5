-------------------------------- MODULE List --------------------------------
(***************************************************************************)
(* list.h: circular doubly linked lists.  h holds the next and the prev    *)
(* pointer of every node; each operation gives the pointers it leaves.     *)
(***************************************************************************)
EXTENDS Naturals, Sequences

\* __list_link
Link(h, p, n) == [next |-> [h.next EXCEPT ![p] = n], prev |-> [h.prev EXCEPT ![n] = p]]

NodeInit(h, n) == Link(h, n, n)

IsListEmpty(h, head) == h.next[head] = head

\* __insert_between: node's own pointers, then those of its neighbours
InsertBetween(h, node, p, n) ==
  LET own == [next |-> [h.next EXCEPT ![node] = n], prev |-> [h.prev EXCEPT ![node] = p]]
  IN  [next |-> [own.next EXCEPT ![p] = node], prev |-> [own.prev EXCEPT ![n] = node]]

ListInsertNode(h, node, p) == InsertBetween(h, node, p, h.next[p])
ListInsertTail(h, node, head) == InsertBetween(h, node, h.prev[head], head)
ListInsertHead(h, node, head) == InsertBetween(h, node, head, h.next[head])

\* The second link reads where->next, which the first has just set.
ListInsertList(h, list, where) ==
  LET h1 == Link(h, where, list) IN Link(h1, h1.prev[list], h1.next[where])

ListInsertListTail(h, list, where) ==
  LET h1 == Link(h, h.prev[where], h.next[list]) IN Link(h1, h1.prev[list], where)

\* Fault: the node is unlinked on one side only.
HalfRemove(h, node) ==
  NodeInit([h EXCEPT !.prev[h.next[node]] = h.prev[node]], node)

ListRemoveNode(h, node) == NodeInit(Link(h, h.prev[node], h.next[node]), node)

IsListTail(h, node, head) == h.next[node] = head

\* The pointers after the first entry is taken off, and that entry
ListRetrieveItem(h, list) ==
  IF IsListEmpty(h, list) THEN h ELSE ListRemoveNode(h, h.next[list])

\* first->prev, last->next, dest->next, dest->prev, and the source afresh
ListRetrieveAllItems(h, dest, src) ==
  LET first == h.next[src]
      last  == h.prev[src]
  IN  NodeInit([next |-> [h.next EXCEPT ![last] = dest, ![dest] = first],
                prev |-> [h.prev EXCEPT ![first] = dest, ![dest] = last]], src)

\* The nodes listPrintItems would print, at most max of them
Walk(h, head, max) ==
  LET from[left \in 0 .. max] ==
        [n \in DOMAIN h.next |->
           IF n = head \/ left = 0 THEN <<>> ELSE <<n>> \o from[left - 1][h.next[n]]]
  IN  from[max][h.next[head]]

\* The same list read backwards
WalkBack(h, head, max) == Walk([next |-> h.prev, prev |-> h.next], head, max)

=============================================================================

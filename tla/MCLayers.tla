------------------------------ MODULE MCLayers ------------------------------
(***************************************************************************)
(* The building blocks of the library that no program shares: each         *)
(* behaviour of this specification is a behaviour of one of them, chosen   *)
(* by the initial state and named by h.kind.                               *)
(***************************************************************************)
EXTENDS Operators, DoubleTake, SlotHeaps, FreeLists, Regions, Obstacks, LeaHeap,
        Trees, Stacks, Shims, ThreadHeaps

\* A program for 32 bits, and one for 64 bits whose chunks lie below the middle
\* of the ints, across it, and beyond the ints.
MCPlaces == [span \in {96, 512} |-> IF span = 96 THEN {1, 2, 3} ELSE {1, 2, 5}]

Init ==
  \/ OperatorsInit
  \/ DTInit
  \/ SlotHeapsInit
  \/ ListsInit
  \/ RegionsInit
  \/ ObstacksInit
  \/ LeaInit \/ LeaClassInit
  \/ TreesInit \/ StacksInit
  \/ ShimsInit
  \/ SharedHeapsInit

Next ==
  \/ OperatorsNext
  \/ h.kind = "doubletake" /\ DTNext
  \/ SlotHeapsNext
  \/ h.kind \in ListKinds /\ ListsNext
  \/ h.kind \in RegionKinds /\ RegionsNext
  \/ h.kind \in ObstackKinds /\ ObstacksNext
  \/ h.kind = "lea" /\ LeaNext
  \/ h.kind \in TreeKinds /\ TreesNext
  \/ h.kind \in StackKinds /\ StacksNext
  \/ ShimsNext
  \/ h.kind \in ThreadKinds /\ SharedHeapsNext

Spec == Init /\ [][Next]_h

(***************************************************************************)
(* What each family promises.                                              *)
(***************************************************************************)
\* The free lists, the treap, the address-ordered list and what is built on them
\* keep every object in one place, their counters, their order and their links
\* (ListsWhole, TreesWhole).
FreeListsWhole ==
  /\ h.kind \in ListKinds => ListsWhole
  /\ h.kind \in TreeKinds => TreesWhole

\* What the bump allocators, the bit string, the map of mappings, the obstacks,
\* the nested heaps and the heaps that grow at one end hand out does not overlap
\* and is not lost (RegionsWhole, ObstacksWhole, StacksWhole).
RegionsAndObstacksWhole ==
  /\ h.kind \in RegionKinds => RegionsWhole
  /\ h.kind \in ObstackKinds => ObstacksWhole
  /\ h.kind \in StackKinds => StacksWhole

\* The boundary tags of the Lea-style heap agree with the blocks whatever is
\* split, merged, put away or given back, and its size classes tile the sizes
\* (LeaWhole, LeaClassesHold).
LeaTagged ==
  /\ h.kind = "lea" => LeaWhole
  /\ h.kind = "leaclass" => LeaClassesHold
=============================================================================

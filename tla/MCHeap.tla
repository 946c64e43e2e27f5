------------------------------- MODULE MCHeap -------------------------------
(***************************************************************************)
(* Small instances of Heap for TLC.                                        *)
(***************************************************************************)
EXTENDS Heap, TLC

CONSTANTS p1, p2

MCTwoProcs == {p1, p2}

\* Thread ids that differ by less than NUM_HEAPS, and that differ by NUM_HEAPS
MCOwn       == p1 :> 4 @@ p2 :> 5
MCColliding == p1 :> 4 @@ p2 :> 6
MCAnyTids   == {MCOwn, MCColliding}
MCCollide   == {MCColliding}
MCOwnTids   == {MCOwn}

MCOneClass   == {"small"}
MCTwoClasses == {"small", "big"}
MCSize == [c \in Classes |-> IF c = "small" THEN 1 ELSE 3]

=============================================================================

----------------------------- MODULE MCHashMap ------------------------------
(***************************************************************************)
(* A small instance of HashMap for TLC.                                    *)
(***************************************************************************)
EXTENDS HashMap

CONSTANTS k1, k2, k3

MCHash == k1 :> 0 @@ k2 :> 0 @@ k3 :> 1

MCSymmetry == Permutations(Procs) \cup Permutations(Entries)

=============================================================================

----------------------------- MODULE MCUserSync -----------------------------
(***************************************************************************)
(* Small instances of UserSync for TLC.                                    *)
(***************************************************************************)
EXTENDS UserSync, TLC

CONSTANTS p1, p2, p3, m1, m2, m3

MCThreeProcs == {p1, p2, p3}
MCThreeMutexes == {m1, m2, m3}

\* One mutex of each sort: initialised, static, and one trylock is called on
MCStatic == {m2}
MCTried  == {m3}

MCSymmetry == Permutations(Procs)

=============================================================================

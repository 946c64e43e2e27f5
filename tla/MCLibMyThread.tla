--------------------------- MODULE MCLibMyThread ---------------------------
(***************************************************************************)
(* Small instances of LibMyThread for TLC.                                 *)
(***************************************************************************)
EXTENDS LibMyThread, TLC

CONSTANTS t1, t2, t3

MCTwoThreads   == {t1, t2}
MCThreeThreads == {t1, t2, t3}

MCMainCreates == {Main}

MCReturn == {"return"}
MCExit   == {"pthread_exit"}
MCBoth   == {"return", "pthread_exit"}

\* Zero is what the committed build leaves in eax at the end of childRegister:
\* the result of the pthread_mutex_unlock before it.
MCGarbage == {0}

=============================================================================

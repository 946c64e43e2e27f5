------------------------------- MODULE Mutex -------------------------------
(***************************************************************************)
(* The C library's futex mutex, as the library and its programs use it     *)
(* from processes that share the memory it lies in.  A mutex is a word:    *)
(* 0 free, 1 locked, 2 locked and perhaps awaited.                         *)
(*                                                                         *)
(* A mutex that was not made PTHREAD_PROCESS_SHARED wakes sleepers of the  *)
(* unlocking process only.  Here every process has one thread, so such a   *)
(* mutex wakes nobody.                                                     *)
(***************************************************************************)
EXTENDS Naturals

CONSTANTS Procs, Mutexes

VARIABLES
  word,     \* the futex word of each mutex
  kind,     \* "private" or "shared"; "none" before initialisation
  asleep    \* processes in futex_wait on each mutex

mutexVars == <<word, kind, asleep>>

Kinds == {"none", "private", "shared"}

MutexTypeOK ==
  /\ word \in [Mutexes -> 0 .. 2]
  /\ kind \in [Mutexes -> Kinds]
  /\ asleep \in [Mutexes -> SUBSET Procs]

\* The first attempt of a lock stores 1, the later ones a 2 that will make the
\* unlock wake a sleeper.
AcquireFirst(m) ==
  /\ word[m] = 0
  /\ word' = [word EXCEPT ![m] = 1]
  /\ UNCHANGED <<kind, asleep>>

AcquireLater(m) ==
  /\ word[m] = 0
  /\ word' = [word EXCEPT ![m] = 2]
  /\ UNCHANGED <<kind, asleep>>

\* Fault: the word counts its waiters.
FallAsleepCounting(p, m) ==
  /\ word[m] # 0
  /\ word' = [word EXCEPT ![m] = @ + 1]
  /\ asleep' = [asleep EXCEPT ![m] = @ \cup {p}]
  /\ UNCHANGED kind

FallAsleep(p, m) ==
  /\ word[m] # 0
  /\ word' = [word EXCEPT ![m] = 2]
  /\ asleep' = [asleep EXCEPT ![m] = @ \cup {p}]
  /\ UNCHANGED kind

\* Those an unlock can reach
Reachable(m) == IF word[m] = 2 /\ kind[m] = "shared" THEN asleep[m] ELSE {}

Release(m) ==
  /\ word' = [word EXCEPT ![m] = 0]
  /\ \/ Reachable(m) = {} /\ UNCHANGED asleep
     \/ \E q \in Reachable(m) : asleep' = [asleep EXCEPT ![m] = @ \ {q}]
  /\ UNCHANGED kind

=============================================================================

------------------------------ MODULE UserSync ------------------------------
(***************************************************************************)
(* The mutexes and condition variables of the program: the wrappers of     *)
(* libmythread.cpp over myrun.h, called by running threads.                *)
(* Each wrapper first reads the shared flag initialized and does nothing,  *)
(* successfully, when it is down.                                          *)
(***************************************************************************)
EXTENDS Mutex, FiniteSets

CONSTANTS Static,      \* mutexes made with PTHREAD_MUTEX_INITIALIZER
          Conds,       \* condition variables, all made by pthread_cond_init
          MayEnd,      \* may a thread return (and run the destructor)?
          Tried,       \* mutexes the program calls pthread_mutex_trylock on
          NoMutex      \* no mutex

ASSUME UserSyncAssumption ==
  /\ Static \subseteq Mutexes
  /\ MayEnd \in BOOLEAN
  /\ Tried \subseteq Mutexes
  /\ NoMutex \notin Mutexes

VARIABLES
  initialized,   \* bool initialized
  pc,            \* what each process is doing
  about,         \* the mutex a blocked call is about
  inside,        \* the mutexes each process has been told it holds
  waiters        \* processes in pthread_cond_wait on each condition

syncVars == <<initialized, pc, about, inside, waiters>>
vars == <<mutexVars, syncVars>>

\* A mutex word is one the futex algorithm writes, and a process that blocks has
\* the mutex it is to come back with (myrun.h:110).
TypeOK ==
  /\ MutexTypeOK
  /\ initialized \in BOOLEAN
  /\ pc \in [Procs -> {"run", "lock", "contend", "cond", "exited"}]
  /\ about \in [Procs -> Mutexes \cup {NoMutex}]
  /\ \A p \in Procs : pc[p] \in {"lock", "contend", "cond"} => about[p] \in Mutexes
  /\ inside \in [Procs -> SUBSET Mutexes]
  /\ waiters \in [Conds -> SUBSET Procs]

Init ==
  /\ word = [m \in Mutexes |-> 0]
  /\ kind = [m \in Mutexes |-> IF m \in Static THEN "private" ELSE "none"]
  /\ asleep = [m \in Mutexes |-> {}]
  /\ initialized = TRUE
  /\ pc = [p \in Procs |-> "run"]
  /\ about = [p \in Procs |-> NoMutex]
  /\ inside = [p \in Procs |-> {}]
  /\ waiters = [c \in Conds |-> {}]

Enter(p, m) == inside' = [inside EXCEPT ![p] = @ \cup {m}]
Leave(p, m) == inside' = [inside EXCEPT ![p] = @ \ {m}]

-----------------------------------------------------------------------------
(* Mutexes *)

\* Fault: the mutex gets default attributes.
InitPrivate(m) == kind' = [kind EXCEPT ![m] = "private"]

\* mutex_init passes _mutexattr, which is process-shared.
InitShared(m) == kind' = [kind EXCEPT ![m] = "shared"]

\* A wrapper that does nothing leaves zeroed memory, a private mutex.
MutexInit(p, m) ==
  /\ pc[p] = "run"
  /\ kind[m] = "none"
  /\ IF initialized THEN InitShared(m) ELSE kind' = [kind EXCEPT ![m] = "private"]
  /\ UNCHANGED <<word, asleep, syncVars>>

MutexLock(p, m) ==
  /\ pc[p] = "run"
  /\ kind[m] # "none"
  /\ m \notin inside[p]
  /\ initialized
  /\ pc' = [pc EXCEPT ![p] = "lock"]
  /\ about' = [about EXCEPT ![p] = m]
  /\ UNCHANGED <<mutexVars, initialized, inside, waiters>>

LockSkipped(p, m) ==
  /\ pc[p] = "run"
  /\ kind[m] # "none"
  /\ m \notin inside[p]
  /\ ~initialized
  /\ Enter(p, m)
  /\ UNCHANGED <<mutexVars, initialized, pc, about, waiters>>

LockFirst(p) ==
  /\ pc[p] = "lock"
  /\ AcquireFirst(about[p])
  /\ Enter(p, about[p])
  /\ pc' = [pc EXCEPT ![p] = "run"]
  /\ UNCHANGED <<initialized, about, waiters>>

LockMiss(p) ==
  /\ pc[p] = "lock"
  /\ word[about[p]] # 0
  /\ pc' = [pc EXCEPT ![p] = "contend"]
  /\ UNCHANGED <<mutexVars, initialized, about, inside, waiters>>

Contending(p, m) == pc[p] = "contend" /\ about[p] = m /\ p \notin asleep[m]

LockSleep(p) ==
  /\ Contending(p, about[p])
  /\ FallAsleep(p, about[p])
  /\ UNCHANGED syncVars

LockLater(p) ==
  /\ Contending(p, about[p])
  /\ AcquireLater(about[p])
  /\ Enter(p, about[p])
  /\ pc' = [pc EXCEPT ![p] = "run"]
  /\ UNCHANGED <<initialized, about, waiters>>

\* Always 0, and the mutex is not touched.
MutexTrylock(p, m) ==
  /\ m \in Tried
  /\ pc[p] = "run"
  /\ kind[m] # "none"
  /\ m \notin inside[p]
  /\ Enter(p, m)
  /\ UNCHANGED <<mutexVars, initialized, pc, about, waiters>>

MutexUnlock(p, m) ==
  /\ pc[p] = "run"
  /\ m \in inside[p]
  /\ IF initialized THEN Release(m) ELSE UNCHANGED mutexVars
  /\ Leave(p, m)
  /\ UNCHANGED <<initialized, pc, about, waiters>>

-----------------------------------------------------------------------------
(* Condition variables; a thread waits with a mutex it holds.              *)

\* Fault: the waiter goes to sleep with the mutex locked.
CondWaitLocked(p, c, m) ==
  /\ pc[p] = "run"
  /\ m \in inside[p]
  /\ initialized
  /\ Leave(p, m)
  /\ waiters' = [waiters EXCEPT ![c] = @ \cup {p}]
  /\ about' = [about EXCEPT ![p] = m]
  /\ pc' = [pc EXCEPT ![p] = "cond"]
  /\ UNCHANGED <<mutexVars, initialized>>

CondWait(p, c, m) ==
  /\ pc[p] = "run"
  /\ m \in inside[p]
  /\ initialized
  /\ Release(m)
  /\ Leave(p, m)
  /\ waiters' = [waiters EXCEPT ![c] = @ \cup {p}]
  /\ about' = [about EXCEPT ![p] = m]
  /\ pc' = [pc EXCEPT ![p] = "cond"]
  /\ UNCHANGED <<initialized>>

\* Fault: a woken waiter carries on without the mutex.
WakeWithout(S) ==
  /\ pc' = [q \in Procs |-> IF q \in S THEN "run" ELSE pc[q]]
  /\ inside' = [q \in Procs |-> IF q \in S THEN inside[q] \cup {about[q]} ELSE inside[q]]

\* Woken waiters compete for the mutex again.
Wake(S) ==
  /\ pc' = [q \in Procs |-> IF q \in S THEN "contend" ELSE pc[q]]
  /\ UNCHANGED inside

CondSignal(p, c) ==
  /\ pc[p] = "run"
  /\ initialized
  /\ \E q \in waiters[c] : /\ waiters' = [waiters EXCEPT ![c] = @ \ {q}]
                           /\ Wake({q})
  /\ UNCHANGED <<mutexVars, initialized, about>>

CondBroadcast(p, c) ==
  /\ pc[p] = "run"
  /\ initialized
  /\ waiters[c] # {}
  /\ waiters' = [waiters EXCEPT ![c] = {}]
  /\ Wake(waiters[c])
  /\ UNCHANGED <<mutexVars, initialized, about>>

-----------------------------------------------------------------------------

\* A thread returns holding nothing; exit(0) runs the destructor.
ThreadEnd(p) ==
  /\ MayEnd
  /\ pc[p] = "run"
  /\ inside[p] = {}
  /\ pc' = [pc EXCEPT ![p] = "exited"]
  /\ initialized' = FALSE
  /\ UNCHANGED <<mutexVars, about, inside, waiters>>

\* What a blocked call does on its own
Blocked(p) == LockFirst(p) \/ LockMiss(p) \/ LockSleep(p) \/ LockLater(p)

Next == \E p \in Procs :
  \/ \E m \in Mutexes :
       \/ MutexInit(p, m) \/ MutexLock(p, m) \/ LockSkipped(p, m)
       \/ MutexTrylock(p, m) \/ MutexUnlock(p, m)
       \/ \E c \in Conds : CondWait(p, c, m)
  \/ \E c \in Conds : CondSignal(p, c) \/ CondBroadcast(p, c)
  \/ Blocked(p)
  \/ ThreadEnd(p)

Spec == Init /\ [][Next]_vars

-----------------------------------------------------------------------------
(* Properties *)

\* While no thread has returned, two processes that pthread_mutex_lock has let in
\* are in different sections, whatever trylock does to other mutexes (myrun.h:80).
MutualExclusion ==
  initialized =>
    \A p, q \in Procs : p # q => inside[p] \cap inside[q] \subseteq Tried

\* While no thread has returned, a locked mutex has a holder who will unlock it,
\* so a waiter that was woken and takes it back never finds it orphaned
\* (myrun.h:110).
HeldBySomebody ==
  initialized =>
    \A m \in Mutexes \ Tried : word[m] # 0 => \E p \in Procs : m \in inside[p]

\* Nobody sleeps on a free mutex made by pthread_mutex_init unless somebody awake
\* is about to take it: no unlock has missed its sleepers (myrun.h:74).
NoLostWakeup ==
  \A m \in Mutexes \ Static : word[m] = 0 /\ asleep[m] # {} =>
    \E p \in Procs : Contending(p, m)

=============================================================================

--------------------------- MODULE UserSyncProofs ---------------------------
(***************************************************************************)
(* Proofs about UserSync, for every number of processes, mutexes and       *)
(* condition variables.                                                    *)
(***************************************************************************)
EXTENDS UserSync, TLAPS

\* A process in the queue of a condition variable is in pthread_cond_wait,
\* and in no other queue.
WaitersWait ==
  \A c \in Conds : \A q \in waiters[c] :
    pc[q] = "cond" /\ \A d \in Conds \ {c} : q \notin waiters[d]

\* TypeOK alone is not inductive: a signal sends a waiter back to the mutex it
\* came with, and only WaitersWait says that it came with one.
Typed == TypeOK /\ WaitersWait

\* One step keeps every variable typed and the queues in order.
LEMMA TypedStep ==
  ASSUME Typed, [Next]_vars
  PROVE  Typed'
<1> USE UserSyncAssumption DEF Typed, TypeOK, MutexTypeOK, Kinds, WaitersWait
<1>1. CASE UNCHANGED vars
  BY <1>1 DEF vars, syncVars, mutexVars
<1>2. ASSUME NEW p \in Procs, NEW m \in Mutexes, MutexInit(p, m)
      PROVE  Typed'
  BY <1>2 DEF MutexInit, InitShared, syncVars
<1>3. ASSUME NEW p \in Procs, NEW m \in Mutexes, MutexLock(p, m)
      PROVE  Typed'
  BY <1>3 DEF MutexLock, mutexVars
<1>4. ASSUME NEW p \in Procs, NEW m \in Mutexes,
             LockSkipped(p, m) \/ MutexTrylock(p, m)
      PROVE  Typed'
  BY <1>4 DEF LockSkipped, MutexTrylock, Enter, mutexVars
<1>5. ASSUME NEW p \in Procs, NEW m \in Mutexes, MutexUnlock(p, m)
      PROVE  Typed'
  BY <1>5 DEF MutexUnlock, Leave, Release, Reachable, mutexVars
<1>6. ASSUME NEW p \in Procs, NEW m \in Mutexes, NEW c \in Conds, CondWait(p, c, m)
      PROVE  Typed'
  <2>1. TypeOK'
    BY <1>6 DEF CondWait, Leave, Release, Reachable
  <2>2. WaitersWait'
    BY <1>6 DEF CondWait
  <2>3. QED
    BY <2>1, <2>2
<1>7. ASSUME NEW p \in Procs, NEW c \in Conds, CondSignal(p, c)
      PROVE  Typed'
  <2>1. PICK q \in waiters[c] :
          /\ waiters' = [waiters EXCEPT ![c] = @ \ {q}]
          /\ pc' = [r \in Procs |-> IF r \in {q} THEN "contend" ELSE pc[r]]
    BY <1>7 DEF CondSignal, Wake
  <2>2. q \in Procs /\ pc[q] = "cond" /\ about[q] \in Mutexes
    OBVIOUS
  <2>3. UNCHANGED <<mutexVars, initialized, about, inside>>
    BY <1>7 DEF CondSignal, Wake
  <2>4. TypeOK'
    BY <2>1, <2>2, <2>3 DEF mutexVars
  <2>5. WaitersWait'
    BY <2>1, <2>2
  <2>6. QED
    BY <2>4, <2>5
<1>8. ASSUME NEW p \in Procs, NEW c \in Conds, CondBroadcast(p, c)
      PROVE  Typed'
  <2>1. /\ waiters' = [waiters EXCEPT ![c] = {}]
        /\ pc' = [r \in Procs |-> IF r \in waiters[c] THEN "contend" ELSE pc[r]]
        /\ UNCHANGED <<mutexVars, initialized, about, inside>>
    BY <1>8 DEF CondBroadcast, Wake
  <2>2. TypeOK'
    BY <2>1 DEF mutexVars
  <2>3. WaitersWait'
    BY <2>1
  <2>4. QED
    BY <2>2, <2>3
<1>9. ASSUME NEW p \in Procs, LockFirst(p) \/ LockLater(p)
      PROVE  Typed'
  <2>1. TypeOK'
    BY <1>9 DEF LockFirst, LockLater, Contending, Enter, AcquireFirst, AcquireLater
  <2>2. WaitersWait'
    BY <1>9 DEF LockFirst, LockLater, Contending
  <2>3. QED
    BY <2>1, <2>2
<1>10. ASSUME NEW p \in Procs, LockMiss(p) \/ LockSleep(p)
       PROVE  Typed'
  BY <1>10 DEF LockMiss, LockSleep, Contending, FallAsleep, mutexVars, syncVars
<1>11. ASSUME NEW p \in Procs, ThreadEnd(p)
       PROVE  Typed'
  BY <1>11 DEF ThreadEnd, mutexVars
<1>12. QED
  BY <1>1, <1>2, <1>3, <1>4, <1>5, <1>6, <1>7, <1>8, <1>9, <1>10, <1>11
     DEF Next, Blocked

\* A mutex word has one of the three values and a blocked call is about a
\* mutex, whatever the program calls (myrun.h:73).
THEOREM SyncTyping == Spec => []TypeOK
<1>1. Init => Typed
  BY UserSyncAssumption DEF Init, Typed, TypeOK, MutexTypeOK, Kinds, WaitersWait
<1>2. Typed /\ [Next]_vars => Typed'
  BY TypedStep
<1>3. Typed => TypeOK
  BY DEF Typed
<1>4. QED
  BY <1>1, <1>2, <1>3, PTL DEF Spec

-----------------------------------------------------------------------------

\* While no thread has returned, the word of a mutex trylock is not called on is
\* free exactly when no process is inside.
WordTellsHolders ==
  \A m \in Mutexes \ Tried : word[m] = 0 <=> \A p \in Procs : m \notin inside[p]

Exclusion == initialized => WordTellsHolders /\ MutualExclusion

\* Whatever Exclusion is about is as it was.
LEMMA SyncQuiet ==
  Exclusion /\ UNCHANGED <<word, initialized, inside>> => Exclusion'
  BY DEF Exclusion, WordTellsHolders, MutualExclusion

\* One step keeps Exclusion.
LEMMA ExclusionStep ==
  ASSUME TypeOK, Exclusion, [Next]_vars
  PROVE  Exclusion'
<1> USE DEF TypeOK, MutexTypeOK, Exclusion, WordTellsHolders, MutualExclusion
<1>1. CASE UNCHANGED vars
  BY <1>1, SyncQuiet DEF vars, syncVars, mutexVars
<1>2. ASSUME NEW p \in Procs, NEW m \in Mutexes,
             MutexInit(p, m) \/ MutexLock(p, m)
      PROVE  Exclusion'
  BY <1>2, SyncQuiet DEF MutexInit, MutexLock, syncVars, mutexVars
<1>3. ASSUME NEW p \in Procs, NEW m \in Mutexes,
             LockSkipped(p, m) \/ MutexTrylock(p, m)
      PROVE  Exclusion'
  <2>1. initialized' = initialized /\ word' = word
    BY <1>3 DEF LockSkipped, MutexTrylock, mutexVars
  <2>2. initialized => m \in Tried
    BY <1>3 DEF LockSkipped, MutexTrylock
  <2>3. inside' = [inside EXCEPT ![p] = @ \cup {m}]
    BY <1>3 DEF LockSkipped, MutexTrylock, Enter
  <2>4. QED
    BY <2>1, <2>2, <2>3
<1>4. ASSUME NEW p \in Procs, NEW m \in Mutexes, MutexUnlock(p, m)
      PROVE  Exclusion'
  BY <1>4 DEF MutexUnlock, Leave, Release
<1>5. ASSUME NEW p \in Procs, NEW m \in Mutexes, NEW c \in Conds, CondWait(p, c, m)
      PROVE  Exclusion'
  BY <1>5 DEF CondWait, Leave, Release
<1>6. ASSUME NEW p \in Procs, NEW c \in Conds, CondSignal(p, c) \/ CondBroadcast(p, c)
      PROVE  Exclusion'
  BY <1>6, SyncQuiet DEF CondSignal, CondBroadcast, Wake, mutexVars
<1>7. ASSUME NEW p \in Procs, LockFirst(p) \/ LockLater(p)
      PROVE  Exclusion'
  <2>1. about[p] \in Mutexes
    BY <1>7 DEF LockFirst, LockLater, Contending
  <2>2. /\ word[about[p]] = 0
        /\ word' = [word EXCEPT ![about[p]] = 1] \/ word' = [word EXCEPT ![about[p]] = 2]
        /\ inside' = [inside EXCEPT ![p] = @ \cup {about[p]}]
        /\ UNCHANGED initialized
    BY <1>7 DEF LockFirst, LockLater, Contending, Enter, AcquireFirst, AcquireLater
  <2>3. QED
    BY <2>1, <2>2
<1>8. ASSUME NEW p \in Procs, LockMiss(p)
      PROVE  Exclusion'
  BY <1>8, SyncQuiet DEF LockMiss, mutexVars
<1>9. ASSUME NEW p \in Procs, LockSleep(p)
      PROVE  Exclusion'
  BY <1>9 DEF LockSleep, Contending, FallAsleep, syncVars
<1>10. ASSUME NEW p \in Procs, ThreadEnd(p)
       PROVE  Exclusion'
  BY <1>10, SyncQuiet DEF ThreadEnd, mutexVars
<1>11. QED
  BY <1>1, <1>2, <1>3, <1>4, <1>5, <1>6, <1>7, <1>8, <1>9, <1>10 DEF Next, Blocked

\* Exclusion holds in every program: until a thread returns, a word and what the
\* callers have been told never disagree (myrun.h:80, 86).
THEOREM ExclusionHolds == Spec => []Exclusion
<1>1. Init => Exclusion
  BY DEF Init, Exclusion, WordTellsHolders, MutualExclusion
<1>2. TypeOK /\ Exclusion /\ [Next]_vars => Exclusion'
  BY ExclusionStep
<1>3. QED
  BY <1>1, <1>2, SyncTyping, PTL DEF Spec

\* Until a thread returns, two processes that pthread_mutex_lock has let in are in
\* different sections, except on mutexes trylock is called on (myrun.h:80).
THEOREM MutexesExclude == Spec => []MutualExclusion
<1>1. Exclusion => MutualExclusion
  BY DEF Exclusion, MutualExclusion
<1>2. QED
  BY <1>1, ExclusionHolds, PTL

\* Under the same conditions a locked mutex has a holder who will unlock it
\* (myrun.h:86).
THEOREM MutexesAreHeld == Spec => []HeldBySomebody
<1>1. Exclusion => HeldBySomebody
  BY DEF Exclusion, WordTellsHolders, HeldBySomebody
<1>2. QED
  BY <1>1, ExclusionHolds, PTL

-----------------------------------------------------------------------------

\* A sleeper is inside a lock call for the mutex it sleeps on.
SleepersContend ==
  \A m \in Mutexes : \A q \in asleep[m] : pc[q] = "contend" /\ about[q] = m

\* Nobody has come to a mutex that pthread_mutex_init has not made process-shared:
\* either it is not made yet, or it was made when the library was down already.
SharedIfUsed ==
  \A m \in Mutexes \ Static : kind[m] # "shared" =>
    /\ \A q \in Procs : pc[q] \in {"lock", "contend", "cond"} => about[q] # m
    /\ kind[m] = "private" => ~initialized
    /\ kind[m] = "none" => \A q \in Procs : m \notin inside[q]

\* A word other than 2 makes the next unlock wake nobody, so somebody must be
\* awake already.
AwakeOrMarked ==
  \A m \in Mutexes \ Static : word[m] # 2 /\ asleep[m] # {} =>
    \E p \in Procs : Contending(p, m)

\* NoLostWakeup is not inductive: a newcomer may take a free mutex with a 1, and
\* only the contender it overtook will then store the 2 the sleepers wait for.
Wakeful == SleepersContend /\ SharedIfUsed /\ AwakeOrMarked

\* A step in which every contender stays awake, and that changes no mutex, keeps
\* what the sleepers need.
LEMMA WakefulQuiet ==
  ASSUME SleepersContend, AwakeOrMarked, UNCHANGED <<word, asleep>>,
         \A q \in Procs : pc[q] = "contend" => pc'[q] = "contend" /\ about'[q] = about[q],
         TypeOK
  PROVE  SleepersContend' /\ AwakeOrMarked'
<1>1. SleepersContend'
  BY DEF SleepersContend, TypeOK, MutexTypeOK
<1>2. AwakeOrMarked'
  BY DEF AwakeOrMarked, Contending
<1>3. QED
  BY <1>1, <1>2

\* An unlock finds a sleeper if there is one and nobody is awake.
LEMMA WakefulRelease ==
  ASSUME TypeOK, Wakeful, NEW m \in Mutexes, Release(m),
         \A q \in Procs : pc[q] = "contend" => pc'[q] = "contend" /\ about'[q] = about[q]
  PROVE  SleepersContend' /\ AwakeOrMarked'
<1>1. /\ \A n \in Mutexes : asleep'[n] \subseteq asleep[n]
      /\ \A n \in Mutexes \ {m} : asleep'[n] = asleep[n] /\ word'[n] = word[n]
  BY DEF Release, TypeOK, MutexTypeOK
<1>2. SleepersContend'
  BY <1>1 DEF Wakeful, SleepersContend, TypeOK, MutexTypeOK
<1>3. ASSUME NEW n \in Mutexes \ Static, word'[n] # 2, asleep'[n] # {}
      PROVE  \E p \in Procs : Contending(p, n)'
  <2>1. CASE word[n] # 2
    <3>1. PICK p \in Procs : Contending(p, n)
      BY <1>1, <1>3, <2>1 DEF Wakeful, AwakeOrMarked
    <3>2. Contending(p, n)'
      BY <1>1, <3>1 DEF Contending
    <3>3. QED
      BY <3>2
  <2>2. CASE word[n] = 2
    <3>1. n = m
      BY <1>1, <1>3, <2>2
    <3>2. PICK s \in asleep[n] : s \in Procs /\ pc[s] = "contend" /\ about[s] = n
      BY <1>1, <1>3 DEF Wakeful, SleepersContend, TypeOK, MutexTypeOK
    <3>3. kind[n] = "shared"
      BY <3>2 DEF Wakeful, SharedIfUsed
    <3>4. PICK q \in asleep[n] : asleep' = [asleep EXCEPT ![n] = @ \ {q}]
      BY <2>2, <3>1, <3>2, <3>3 DEF Release, Reachable
    <3>5. q \in Procs /\ pc[q] = "contend" /\ about[q] = n /\ q \notin asleep'[n]
      BY <3>4 DEF Wakeful, SleepersContend, TypeOK, MutexTypeOK
    <3>6. Contending(q, n)'
      BY <3>5 DEF Contending
    <3>7. QED
      BY <3>5, <3>6
  <2>3. QED
    BY <2>1, <2>2
<1>4. AwakeOrMarked'
  BY <1>3 DEF AwakeOrMarked
<1>5. QED
  BY <1>2, <1>4

\* One step keeps the sleepers' hope.
LEMMA WakefulStep ==
  ASSUME Typed, Wakeful, [Next]_vars
  PROVE  Wakeful'
<1>a. TypeOK /\ SleepersContend /\ SharedIfUsed /\ AwakeOrMarked /\ WaitersWait
  BY DEF Typed, Wakeful
<1>b. \A p \in Procs, m \in Mutexes : p \in asleep[m] => pc[p] = "contend" /\ about[p] = m
  BY <1>a DEF SleepersContend
<1>1. CASE UNCHANGED vars
  BY <1>1 DEF vars, syncVars, mutexVars, Wakeful, SleepersContend, SharedIfUsed, AwakeOrMarked, Contending
<1>2. ASSUME NEW p \in Procs, NEW m \in Mutexes, MutexInit(p, m)
      PROVE  Wakeful'
  <2>1. UNCHANGED <<word, asleep, syncVars>> /\ kind[m] = "none"
        /\ kind' = [kind EXCEPT ![m] = IF initialized THEN "shared" ELSE "private"]
    BY <1>2 DEF MutexInit, InitShared
  <2>2. SharedIfUsed'
    BY <1>a, <2>1 DEF SharedIfUsed, syncVars, TypeOK, MutexTypeOK
  <2>3. QED
    BY <1>a, <2>1, <2>2, WakefulQuiet DEF Wakeful, syncVars
<1>3. ASSUME NEW p \in Procs, NEW m \in Mutexes, MutexLock(p, m)
      PROVE  Wakeful'
  <2>1. /\ UNCHANGED <<word, asleep, kind, initialized, inside>> /\ initialized /\ kind[m] # "none"
        /\ pc[p] = "run" /\ pc' = [pc EXCEPT ![p] = "lock"] /\ about' = [about EXCEPT ![p] = m]
    BY <1>3 DEF MutexLock, mutexVars
  <2>2. SharedIfUsed'
    BY <1>a, <2>1 DEF SharedIfUsed, TypeOK, MutexTypeOK, Kinds
  <2>3. \A q \in Procs : pc[q] = "contend" => pc'[q] = "contend" /\ about'[q] = about[q]
    BY <1>a, <2>1 DEF TypeOK
  <2>4. QED
    BY <1>a, <2>1, <2>2, <2>3, WakefulQuiet DEF Wakeful
<1>4. ASSUME NEW p \in Procs, NEW m \in Mutexes, LockSkipped(p, m) \/ MutexTrylock(p, m)
      PROVE  Wakeful'
  <2>1. /\ UNCHANGED <<word, asleep, kind, initialized, pc, about>> /\ kind[m] # "none"
        /\ inside' = [inside EXCEPT ![p] = @ \cup {m}]
    BY <1>4 DEF LockSkipped, MutexTrylock, Enter, mutexVars
  <2>2. SharedIfUsed'
    BY <1>a, <2>1 DEF SharedIfUsed, TypeOK
  <2>3. QED
    BY <1>a, <2>1, <2>2, WakefulQuiet DEF Wakeful
<1>5. ASSUME NEW p \in Procs, NEW m \in Mutexes, MutexUnlock(p, m)
      PROVE  Wakeful'
  <2>1. UNCHANGED <<kind, initialized, pc, about>> /\ inside' = [inside EXCEPT ![p] = @ \ {m}]
    BY <1>5 DEF MutexUnlock, Leave, Release, mutexVars
  <2>2. SharedIfUsed'
    BY <1>a, <2>1 DEF SharedIfUsed, TypeOK
  <2>3. CASE initialized
    BY <1>5, <1>a, <2>1, <2>2, <2>3, WakefulRelease DEF MutexUnlock, Wakeful
  <2>4. CASE ~initialized
    BY <1>5, <1>a, <2>1, <2>2, <2>4, WakefulQuiet DEF MutexUnlock, Wakeful, mutexVars
  <2>5. QED
    BY <2>3, <2>4
<1>6. ASSUME NEW p \in Procs, NEW m \in Mutexes, NEW c \in Conds, CondWait(p, c, m)
      PROVE  Wakeful'
  <2>1. /\ Release(m) /\ UNCHANGED <<kind, initialized>> /\ initialized /\ m \in inside[p]
        /\ inside' = [inside EXCEPT ![p] = @ \ {m}]
        /\ pc[p] = "run" /\ pc' = [pc EXCEPT ![p] = "cond"] /\ about' = [about EXCEPT ![p] = m]
    BY <1>6 DEF CondWait, Leave, Release
  <2>2. m \in Static \/ kind[m] = "shared"
    BY <1>a, <2>1 DEF SharedIfUsed, TypeOK, MutexTypeOK, Kinds
  <2>3. SharedIfUsed'
    BY <1>a, <2>1, <2>2 DEF SharedIfUsed, TypeOK
  <2>4. \A q \in Procs : pc[q] = "contend" => pc'[q] = "contend" /\ about'[q] = about[q]
    BY <1>a, <2>1 DEF TypeOK
  <2>5. QED
    BY <1>a, <2>1, <2>3, <2>4, WakefulRelease DEF Wakeful
<1>7. ASSUME NEW p \in Procs, NEW c \in Conds, CondSignal(p, c) \/ CondBroadcast(p, c)
      PROVE  Wakeful'
  <2>1. PICK S \in SUBSET waiters[c] :
          /\ pc' = [q \in Procs |-> IF q \in S THEN "contend" ELSE pc[q]]
          /\ UNCHANGED <<word, asleep, kind, initialized, inside, about>>
    <3>1. CASE CondSignal(p, c)
      <4>1. PICK q \in waiters[c] : Wake({q}) /\ UNCHANGED <<word, asleep, kind, initialized, inside, about>>
        BY <3>1 DEF CondSignal, Wake, mutexVars
      <4>2. {q} \in SUBSET waiters[c]
        BY <4>1
      <4>3. QED
        BY <4>1, <4>2 DEF Wake
    <3>2. CASE CondBroadcast(p, c)
      BY <3>2 DEF CondBroadcast, Wake, mutexVars
    <3>3. QED
      BY <1>7, <3>1, <3>2
  <2>2. \A q \in S : pc[q] = "cond"
    BY <1>a DEF WaitersWait
  <2>3. SharedIfUsed'
    BY <1>a, <2>1, <2>2 DEF SharedIfUsed
  <2>4. \A q \in Procs : pc[q] = "contend" => pc'[q] = "contend" /\ about'[q] = about[q]
    BY <2>1
  <2>5. QED
    BY <1>a, <2>1, <2>3, <2>4, WakefulQuiet DEF Wakeful
<1>8. ASSUME NEW p \in Procs, LockFirst(p)
      PROVE  Wakeful'
  <2>1. /\ about[p] \in Mutexes /\ word[about[p]] = 0 /\ word' = [word EXCEPT ![about[p]] = 1]
        /\ UNCHANGED <<kind, asleep, initialized, about>> /\ inside' = [inside EXCEPT ![p] = @ \cup {about[p]}]
        /\ pc[p] = "lock" /\ pc' = [pc EXCEPT ![p] = "run"]
    BY <1>8, <1>a DEF LockFirst, AcquireFirst, Enter, TypeOK
  <2>2. SharedIfUsed'
    BY <1>a, <2>1 DEF SharedIfUsed, TypeOK
  <2>3. SleepersContend'
    BY <1>a, <2>1 DEF SleepersContend, TypeOK, MutexTypeOK
  <2>4. AwakeOrMarked'
    <3>1. \A m \in Mutexes : word'[m] # 2 => word[m] # 2
      BY <1>a, <2>1 DEF TypeOK, MutexTypeOK
    <3>2. \A m \in Mutexes, q \in Procs : Contending(q, m) => Contending(q, m)'
      BY <1>a, <2>1 DEF Contending, TypeOK
    <3>3. QED
      BY <1>a, <2>1, <3>1, <3>2 DEF AwakeOrMarked
  <2>5. QED
    BY <2>2, <2>3, <2>4 DEF Wakeful
<1>9. ASSUME NEW p \in Procs, LockMiss(p)
      PROVE  Wakeful'
  <2>1. /\ UNCHANGED <<word, kind, asleep, initialized, about, inside>>
        /\ pc[p] = "lock" /\ pc' = [pc EXCEPT ![p] = "contend"]
    BY <1>9 DEF LockMiss, mutexVars
  <2>2. SharedIfUsed'
    BY <1>a, <2>1 DEF SharedIfUsed, TypeOK
  <2>3. \A q \in Procs : pc[q] = "contend" => pc'[q] = "contend" /\ about'[q] = about[q]
    BY <1>a, <2>1 DEF TypeOK
  <2>4. QED
    BY <1>a, <2>1, <2>2, <2>3, WakefulQuiet DEF Wakeful
<1>10. ASSUME NEW p \in Procs, LockSleep(p) \/ LockLater(p)
       PROVE  Wakeful'
  <2>1. PICK m \in Mutexes : m = about[p] /\ pc[p] = "contend"
    BY <1>10, <1>a DEF LockSleep, LockLater, Contending, TypeOK
  <2>2. /\ word' = [word EXCEPT ![m] = 2] /\ UNCHANGED <<kind, initialized, about>>
        /\ \A n \in Mutexes \ {m} : asleep'[n] = asleep[n]
        /\ asleep'[m] \subseteq asleep[m] \cup {p}
        /\ \A q \in Procs \ {p} : pc'[q] = pc[q] /\ inside'[q] = inside[q]
        /\ inside'[p] \subseteq inside[p] \cup {m}
        /\ pc'[p] = "run" \/ pc'[p] = "contend"
        /\ p \in asleep'[m] => pc'[p] = "contend"
    BY <1>10, <1>a, <2>1
       DEF LockSleep, LockLater, Contending, FallAsleep, AcquireLater, Enter, syncVars, TypeOK, MutexTypeOK
  <2>3. m \in Static \/ kind[m] = "shared"
    BY <1>a, <2>1 DEF SharedIfUsed
  <2>4. SharedIfUsed'
    BY <1>a, <2>1, <2>2, <2>3 DEF SharedIfUsed
  <2>5. SleepersContend'
    <3>1. ASSUME NEW n \in Mutexes, NEW q \in asleep'[n]
          PROVE  pc'[q] = "contend" /\ about'[q] = n
      <4>1. q \in Procs
        BY <1>a, <2>2 DEF TypeOK, MutexTypeOK
      <4>2. CASE n = m
        BY <1>b, <2>1, <2>2, <4>1, <4>2
      <4>3. CASE n # m
        BY <1>b, <2>1, <2>2, <4>1, <4>3
      <4>4. QED
        BY <4>2, <4>3
    <3>2. QED
      BY <3>1 DEF SleepersContend
  <2>6. AwakeOrMarked'
    <3>1. ASSUME NEW n \in Mutexes \ Static, word'[n] # 2, asleep'[n] # {}
          PROVE  \E q \in Procs : Contending(q, n)'
      <4>1. n # m /\ word[n] # 2 /\ asleep[n] # {}
        BY <1>a, <2>2, <3>1 DEF TypeOK, MutexTypeOK
      <4>2. PICK q \in Procs : Contending(q, n)
        BY <1>a, <4>1 DEF AwakeOrMarked
      <4>3. q # p
        BY <2>1, <4>1, <4>2 DEF Contending
      <4>4. Contending(q, n)'
        BY <2>2, <4>1, <4>2, <4>3 DEF Contending
      <4>5. QED
        BY <4>4
    <3>2. QED
      BY <3>1 DEF AwakeOrMarked
  <2>7. QED
    BY <2>4, <2>5, <2>6 DEF Wakeful
<1>11. ASSUME NEW p \in Procs, ThreadEnd(p)
       PROVE  Wakeful'
  <2>1. /\ UNCHANGED <<word, kind, asleep, about, inside>> /\ initialized' = FALSE
        /\ pc[p] = "run" /\ pc' = [pc EXCEPT ![p] = "exited"]
    BY <1>11 DEF ThreadEnd, mutexVars
  <2>2. SharedIfUsed'
    BY <1>a, <2>1 DEF SharedIfUsed, TypeOK
  <2>3. \A q \in Procs : pc[q] = "contend" => pc'[q] = "contend" /\ about'[q] = about[q]
    BY <1>a, <2>1 DEF TypeOK
  <2>4. QED
    BY <1>a, <2>1, <2>2, <2>3, WakefulQuiet DEF Wakeful
<1>12. QED
  BY <1>1, <1>2, <1>3, <1>4, <1>5, <1>6, <1>7, <1>8, <1>9, <1>10, <1>11 DEF Next, Blocked

\* No unlock misses its sleepers: on a mutex of pthread_mutex_init nobody sleeps
\* while it is free unless somebody awake is about to take it (myrun.h:74), also
\* after the destructor, and whatever trylock does.
THEOREM WakeupsReach == Spec => []NoLostWakeup
<1>1. Init => Typed /\ Wakeful
  BY UserSyncAssumption
     DEF Init, Typed, TypeOK, MutexTypeOK, Kinds, WaitersWait, Wakeful, SleepersContend, SharedIfUsed,
         AwakeOrMarked
<1>2. Typed /\ Wakeful /\ [Next]_vars => Typed' /\ Wakeful'
  BY TypedStep, WakefulStep
<1>3. Typed /\ Wakeful => NoLostWakeup
  BY DEF Wakeful, AwakeOrMarked, NoLostWakeup
<1>4. QED
  BY <1>1, <1>2, <1>3, PTL DEF Spec

=============================================================================

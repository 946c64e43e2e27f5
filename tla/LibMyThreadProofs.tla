------------------------- MODULE LibMyThreadProofs -------------------------
(***************************************************************************)
(* Theorems about LibMyThread, for any set of threads.                     *)
(***************************************************************************)
EXTENDS LibMyThread, FiniteSetTheorems, TLAPS

\* Every process works on an entry of the array when it uses current_index.
LEMMA ZeroIndex == 0 \in Index
  BY MyDetermAssumption DEF Index

\* Every variable of the library has its type, whatever the program does.
THEOREM Typing == Spec => []TypeOK
<1>1. Init => TypeOK
  <2> SUFFICES ASSUME Init PROVE TypeOK
    OBVIOUS
  <2>1. 0 \in Index /\ 1 \in 0 .. MAX_THREADS
    BY ZeroIndex, MyDetermAssumption
  <2>2. pc \in [Procs -> Labels]
    BY DEF Init, Labels
  <2>3. entry \in [Index -> Entries]
    BY DEF Init, DetInit, Entries, Link, Status
  <2>4. creator \in [Threads -> Procs \cup {None}] /\ arg \in [Procs -> Threads \cup {None}]
    BY DEF Init
  <2> QED
    BY <2>1, <2>2, <2>3, <2>4
       DEF Init, DetInit, TypeOK, Link, EndKinds, Creating, Joining
<1>2. TypeOK /\ [Next]_vars => TypeOK'
  <2> SUFFICES ASSUME TypeOK, [Next]_vars PROVE TypeOK'
    OBVIOUS
  <2> USE DEF TypeOK, Procs, Labels, Registering, Creating, Joining, Ended
  <2>1. ASSUME NEW p \in Procs, ClientStep(p) PROVE TypeOK'
    <3>1. ASSUME NEW t \in Threads, Spawn(p, t) PROVE TypeOK'
      BY <3>1 DEF Spawn, MayCreate, detVars
    <3>2. ASSUME NEW t \in Threads, CreateDropped(p, t) PROVE TypeOK'
      BY <3>2 DEF CreateDropped, MayCreate, Goto, detVars
    <3>3. ASSUME NEW t \in Threads, JoinCall(p, t) PROVE TypeOK'
      BY <3>3 DEF JoinCall, MayJoin, Goto, detVars
    <3>4. ASSUME NEW t \in Threads, JoinSkipped(p, t) PROVE TypeOK'
      BY <3>4 DEF JoinSkipped, detVars
    <3>5. CASE ReturnFromThread(p)
      BY <3>5 DEF ReturnFromThread, Goto, detVars, EndKinds
    <3>6. CASE PthreadExit(p)
      BY <3>6 DEF PthreadExit, Goto, detVars, EndKinds
    <3>7. CASE MainReturns
      BY <3>7 DEF MainReturns, Goto, detVars, EndKinds
    <3> QED
      BY <2>1, <3>1, <3>2, <3>3, <3>4, <3>5, <3>6, <3>7 DEF ClientStep
  <2>2. ASSUME NEW p \in Procs, RegisterStep(p) PROVE TypeOK'
    <3>1. CASE TakeIndex(p)
      BY <3>1, MyDetermAssumption DEF TakeIndex, Goto, detVars, Index
    <3>2. CASE StoreIndex(p)
      BY <3>2 DEF StoreIndex, Goto, detVars
    <3>3. CASE LoadIndex(p)
      BY <3>3 DEF LoadIndex, Goto, detVars
    <3>4. CASE CtorPrev(p) /\ UNCHANGED libVars
      BY <3>4 DEF CtorPrev, libVars, Goto, Entries, Link, Status
    <3>5. CASE CtorRest(p) /\ UNCHANGED libVars
      BY <3>5 DEF CtorRest, libVars, Goto, Entries, Link, Status
    <3>6. CASE InsertEntry(p) /\ UNCHANGED libVars
      BY <3>6 DEF InsertEntry, ListInsertTail, libVars, Goto, Entries, Link, Status
    <3>7. CASE PublishIndex(p)
      <4> PICK g \in Garbage : /\ idx' = [idx EXCEPT ![p] = g]
                               /\ tsIndex' = [tsIndex EXCEPT ![p] = g]
        BY <3>7 DEF PublishIndex
      <4> g \in Index
        BY LibMyThreadAssumption
      <4> QED
        BY <3>7 DEF PublishIndex, Goto, detVars
    <3>8. CASE ResetGlobalIndex(p)
      BY <3>8, MyDetermAssumption DEF ResetGlobalIndex, Goto, detVars, Index
    <3>9. CASE WaitParentNotify(p) /\ UNCHANGED libVars
      BY <3>9 DEF WaitParentNotify, SignalParent, ParentWaiters, libVars, Goto
    <3> QED
      BY <2>2, <3>1, <3>2, <3>3, <3>4, <3>5, <3>6, <3>7, <3>8, <3>9 DEF RegisterStep
  <2>3. ASSUME NEW p \in Procs, CreateStep(p) PROVE TypeOK'
    <3>1. CASE WaitChildRegistered(p) /\ UNCHANGED libVars
      BY <3>1 DEF WaitChildRegistered, ResetFlag, libVars, Goto
    <3>2. CASE ParentWoken(p) /\ UNCHANGED libVars
      BY <3>2 DEF ParentWoken, ResetFlag, libVars, Goto
    <3> QED
      BY <2>3, <3>1, <3>2 DEF CreateStep
  <2>4. ASSUME NEW p \in Procs, JoinStep(p) PROVE TypeOK'
    <3>1. CASE JoinLock(p) /\ UNCHANGED libVars
      <4>1. entry' \in [Index -> Entries]
        <5>1. entry \in [Index -> Entries] /\ CurrentIndex \in Index
          BY ZeroIndex DEF CurrentIndex
        <5>2. \A e \in Entries : [e EXCEPT !.status = "JOINING"] \in Entries
          BY DEF Entries, Status
        <5>3. entry' = [entry EXCEPT ![CurrentIndex] = [@ EXCEPT !.status = "JOINING"]] \/ entry' = entry
          BY <3>1 DEF JoinLock, MarkJoining
        <5>4. QED
          BY <5>1, <5>2, <5>3
      <4> QED
        BY <3>1, <4>1 DEF JoinLock, libVars, Goto
    <3>2. CASE JoinWait(p) /\ UNCHANGED libVars
      BY <3>2 DEF JoinWait, libVars, Goto
    <3>3. CASE JoinReturn(p)
      <4>1. pc[p] \in Joining
        BY <3>3 DEF JoinReturn, JoinNoWait, JoinWoken
      <4> QED
        BY <3>3 DEF JoinReturn, JoinNoWait, JoinWoken, detVars, Goto
    <3> QED
      BY <2>4, <3>1, <3>2, <3>3 DEF JoinStep
  <2>5. ASSUME NEW p \in Procs, DeleteStep(p) PROVE TypeOK'
    <3>1. CASE DeleteLock(p) /\ UNCHANGED libVars
      <4>1. seenNext' \in Link
        BY <3>1, ZeroIndex DEF DeleteLock, Entries, CurrentIndex
      <4> QED
        BY <3>1, <4>1 DEF DeleteLock, WakeJoiners, libVars
    <3>2. CASE DeleteCompare(p) /\ UNCHANGED libVars
      BY <3>2 DEF DeleteCompare, libVars, detVars, Goto
    <3>3. CASE DeleteFree(p) /\ UNCHANGED libVars
      <4>1. entry' \in [Index -> Entries]
        BY <3>3, ZeroIndex DEF DeleteFree, FreeThreadEntry, Entries, Status, CurrentIndex
      <4> QED
        BY <3>3, <4>1 DEF DeleteFree, libVars, Goto
    <3>4. CASE ExitProcess(p)
      BY <3>4 DEF ExitProcess, detVars, Goto
    <3> QED
      BY <2>5, <3>1, <3>2, <3>3, <3>4 DEF DeleteStep
  <2>6. ASSUME NEW p \in Procs, SpuriousWakeup(p) /\ UNCHANGED libVars PROVE TypeOK'
    BY <2>6 DEF SpuriousWakeup, libVars, detVars, Goto
  <2>7. CASE UNCHANGED vars
    BY <2>7 DEF vars, detVars
  <2> QED
    BY <2>1, <2>2, <2>3, <2>4, <2>5, <2>6, <2>7 DEF Next, LibraryStep, Terminated
<1> QED
  BY <1>1, <1>2, PTL DEF Spec

-----------------------------------------------------------------------------
(* The creation handshake with a single creator and no spurious wakeup.    *)

\* A step by which one process moves between labels outside the handshake, or
\* between labels of the registration, keeps the invariant.
LEMMA QuietMove ==
  ASSUME TypeOK, Handshake,
         UNCHANGED childRegistered,
         NEW p \in Procs, NEW l \in Labels \ Creating,
         pc' = [pc EXCEPT ![p] = l],
         pc[p] \notin Creating,
         pc[p] \in Registering <=> l \in Registering,
         p # Main => UNCHANGED arg[Main]
  PROVE  Handshake'
BY DEF TypeOK, Handshake, Procs, Creating, Registering

\* While a child registers, main waits for that child and the flag is down.
LEMMA HandshakeStep ==
  ASSUME Creators = {Main}, SpuriousWakeups = FALSE, TypeOK, Handshake, [Next]_vars
  PROVE  Handshake'
<1> USE DEF Labels, Registering, Creating, Joining, Ended
<1>1. ASSUME NEW p \in Procs, ClientStep(p) PROVE Handshake'
  <2>1. ASSUME NEW t \in Threads, Spawn(p, t) PROVE Handshake'
    BY <2>1, MyDetermAssumption DEF Spawn, MayCreate, detVars, TypeOK, Handshake, Procs
  <2>2. ASSUME NEW t \in Threads, CreateDropped(p, t) PROVE Handshake'
    BY <2>2, QuietMove, MyDetermAssumption
       DEF CreateDropped, MayCreate, Goto, detVars, Procs
  <2>3. ASSUME NEW t \in Threads, JoinCall(p, t) PROVE Handshake'
    BY <2>3, QuietMove DEF JoinCall, MayJoin, Goto, detVars, TypeOK, Procs
  <2>4. ASSUME NEW t \in Threads, JoinSkipped(p, t) PROVE Handshake'
    BY <2>4 DEF JoinSkipped, detVars, Handshake
  <2>5. CASE ReturnFromThread(p)
    BY <2>5, QuietMove DEF ReturnFromThread, Goto, detVars
  <2>6. CASE PthreadExit(p)
    BY <2>6, QuietMove DEF PthreadExit, Goto, detVars
  <2>7. CASE MainReturns
    BY <2>7, QuietMove DEF MainReturns, Goto, detVars, Procs
  <2> QED
    BY <1>1, <2>1, <2>2, <2>3, <2>4, <2>5, <2>6, <2>7 DEF ClientStep
<1>2. ASSUME NEW p \in Procs, RegisterStep(p) PROVE Handshake'
  <2>1. CASE TakeIndex(p)
    BY <2>1, QuietMove DEF TakeIndex, Goto, detVars
  <2>2. CASE StoreIndex(p)
    BY <2>2, QuietMove DEF StoreIndex, Goto, detVars
  <2>3. CASE LoadIndex(p)
    BY <2>3, QuietMove DEF LoadIndex, Goto, detVars
  <2>4. CASE CtorPrev(p) /\ UNCHANGED libVars
    BY <2>4, QuietMove DEF CtorPrev, Goto, libVars
  <2>5. CASE CtorRest(p) /\ UNCHANGED libVars
    BY <2>5, QuietMove DEF CtorRest, Goto, libVars
  <2>6. CASE InsertEntry(p) /\ UNCHANGED libVars
    BY <2>6, QuietMove DEF InsertEntry, ListInsertTail, Goto, libVars
  <2>7. CASE PublishIndex(p)
    BY <2>7, QuietMove DEF PublishIndex, Goto, detVars
  <2>8. CASE ResetGlobalIndex(p)
    BY <2>8, QuietMove DEF ResetGlobalIndex, Goto, detVars
  <2>9. CASE WaitParentNotify(p) /\ UNCHANGED libVars
    <3>1. p = arg[Main] /\ p # Main /\ p \in Threads
      BY <2>9 DEF WaitParentNotify, Handshake, Procs
    <3>2. CASE pc[Main] = "cpWait"
      BY <3>1, <3>2, <2>9
         DEF WaitParentNotify, SignalParent, ParentWaiters, Goto, libVars, TypeOK, Handshake, Procs
    <3>3. CASE pc[Main] # "cpWait"
      BY <3>1, <3>3, <2>9
         DEF WaitParentNotify, SignalParent, ParentWaiters, Goto, libVars, TypeOK, Handshake, Procs
    <3> QED
      BY <3>2, <3>3
  <2> QED
    BY <1>2, <2>1, <2>2, <2>3, <2>4, <2>5, <2>6, <2>7, <2>8, <2>9 DEF RegisterStep
<1>3. ASSUME NEW p \in Procs, CreateStep(p) PROVE Handshake'
  BY <1>3 DEF CreateStep, WaitChildRegistered, ParentWoken, ResetFlag, Goto, libVars,
              TypeOK, Handshake, Procs
<1>4. ASSUME NEW p \in Procs, JoinStep(p) PROVE Handshake'
  BY <1>4, QuietMove
     DEF JoinStep, JoinLock, JoinWait, JoinReturn, JoinNoWait, JoinWoken, Goto, libVars, detVars
<1>5. ASSUME NEW p \in Procs, DeleteStep(p) PROVE Handshake'
  <2>1. CASE DeleteLock(p) /\ UNCHANGED libVars
    BY <2>1 DEF DeleteLock, WakeJoiners, libVars, TypeOK, Handshake, Procs
  <2>2. CASE (DeleteCompare(p) \/ DeleteFree(p)) /\ UNCHANGED libVars
    BY <2>2, QuietMove DEF DeleteCompare, DeleteFree, Goto, libVars, detVars
  <2>3. CASE ExitProcess(p)
    BY <2>3, QuietMove DEF ExitProcess, Goto, detVars
  <2> QED
    BY <1>5, <2>1, <2>2, <2>3 DEF DeleteStep
<1>6. ASSUME NEW p \in Procs, SpuriousWakeup(p) PROVE Handshake'
  BY <1>6 DEF SpuriousWakeup
<1>7. CASE UNCHANGED vars
  BY <1>7 DEF vars, detVars, Handshake
<1> QED
  BY <1>1, <1>2, <1>3, <1>4, <1>5, <1>6, <1>7 DEF Next, LibraryStep, Terminated

\* When only main creates threads, the flag and the two waits of mydeterm.h:201
\* to 216 keep main and the child it creates in step.
THEOREM HandshakeHolds ==
  ASSUME Creators = {Main}, SpuriousWakeups = FALSE
  PROVE  Spec => []Handshake
<1>1. Init => Handshake
  BY MyDetermAssumption
     DEF Init, DetInit, Handshake, Creating, Registering, Procs
<1>2. TypeOK /\ Handshake /\ [Next]_vars => Handshake'
  BY HandshakeStep
<1> QED
  BY <1>1, <1>2, Typing, PTL DEF Spec

\* Then pthread_create returns only after its own child has registered.
THEOREM CreateReturnsLate ==
  ASSUME Creators = {Main}, SpuriousWakeups = FALSE
  PROVE  Spec => []SpawnReturnsRegistered
<1>1. Handshake => SpawnReturnsRegistered
  BY DEF Handshake, SpawnReturnsRegistered, Returned, Procs, Creating
<1> QED
  BY <1>1, HandshakeHolds, PTL

\* And at most one child at a time fills its thread entry.
THEOREM Registration ==
  ASSUME Creators = {Main}, SpuriousWakeups = FALSE
  PROVE  Spec => []OneRegistration
<1>1. Handshake => OneRegistration
  BY DEF Handshake, OneRegistration
<1> QED
  BY <1>1, HandshakeHolds, PTL

\* Only a child between its own increment and its own reset can leave the
\* counter at the bound.
AtBound ==
  globalIndex = MAX_THREADS =>
    \E t \in Threads : pc[t] \in Registering \ {"born", "notify"}

\* One step keeps AtBound.
LEMMA AtBoundStep ==
  ASSUME TypeOK, Handshake, AtBound, [Next]_vars
  PROVE  AtBound'
<1> USE MyDetermAssumption
        DEF AtBound, TypeOK, Procs, Registering, Creating, Joining, Ended, Goto
<1>1. ASSUME NEW p \in Procs, ClientStep(p) PROVE AtBound'
  BY <1>1 DEF ClientStep, Spawn, CreateDropped, MayCreate, JoinCall, MayJoin,
              JoinSkipped, ReturnFromThread, PthreadExit, MainReturns
<1>2. ASSUME NEW p \in Procs, RegisterStep(p) PROVE AtBound'
  <2>1. CASE TakeIndex(p)
    BY <2>1 DEF TakeIndex, Handshake
  <2>2. CASE StoreIndex(p) \/ LoadIndex(p) \/ PublishIndex(p)
    BY <2>2 DEF StoreIndex, LoadIndex, PublishIndex, Handshake
  <2>3. CASE (CtorPrev(p) \/ CtorRest(p) \/ InsertEntry(p)) /\ UNCHANGED libVars
    BY <2>3 DEF CtorPrev, CtorRest, InsertEntry, ListInsertTail, libVars, Handshake
  <2>4. CASE ResetGlobalIndex(p)
    <3>1. idx[p] \in 0 .. MAX_THREADS - 1 /\ MAX_THREADS \in Nat
      BY DEF Index
    <3>2. globalIndex' = idx[p]
      BY <2>4 DEF ResetGlobalIndex
    <3>3. globalIndex' # MAX_THREADS
      BY <3>1, <3>2
    <3> QED
      BY <3>3
  <2>5. CASE WaitParentNotify(p) /\ UNCHANGED libVars
    BY <2>5 DEF WaitParentNotify, SignalParent, ParentWaiters, libVars
  <2> QED
    BY <1>2, <2>1, <2>2, <2>3, <2>4, <2>5 DEF RegisterStep
<1>3. ASSUME NEW p \in Procs, CreateStep(p) \/ JoinStep(p) PROVE AtBound'
  BY <1>3 DEF CreateStep, WaitChildRegistered, ParentWoken, JoinStep, JoinLock,
              JoinWait, JoinReturn, JoinNoWait, JoinWoken, libVars
<1>4. ASSUME NEW p \in Procs, DeleteStep(p) PROVE AtBound'
  BY <1>4 DEF DeleteStep, DeleteLock, WakeJoiners, DeleteCompare, DeleteFree,
              ExitProcess, libVars
<1>5. ASSUME NEW p \in Procs, SpuriousWakeup(p) /\ UNCHANGED libVars PROVE AtBound'
  BY <1>5 DEF SpuriousWakeup, libVars
<1>6. CASE UNCHANGED vars
  BY <1>6 DEF vars
<1> QED
  BY <1>1, <1>2, <1>3, <1>4, <1>5, <1>6 DEF Next, LibraryStep, Terminated

\* With the handshake in force the missing check of mydeterm.h:243 does no harm:
\* however many threads are created, each finds an index inside _entries.
THEOREM IndexBounded ==
  ASSUME Creators = {Main}, SpuriousWakeups = FALSE, MAX_THREADS > 1
  PROVE  Spec => []IndexInBounds
<1>1. Init => AtBound
  BY MyDetermAssumption DEF Init, AtBound
<1>2. TypeOK /\ Handshake /\ AtBound /\ [Next]_vars => AtBound'
  BY AtBoundStep
<1>3. TypeOK /\ Handshake /\ AtBound => IndexInBounds
  BY MyDetermAssumption DEF TypeOK, Handshake, AtBound, IndexInBounds, Registering
<1> QED
  BY <1>1, <1>2, <1>3, Typing, HandshakeHolds, PTL DEF Spec

-----------------------------------------------------------------------------
(***************************************************************************)
(* Two kinds of programs whose threads main creates.  When they end by     *)
(* returning, no join is left without a thread to wake it.  When main      *)
(* keeps one of them at a time and they end by pthread_exit, nothing       *)
(* crashes and creating and joining does what ForkJoin promises.           *)
(***************************************************************************)

\* Where a process stands that holds _mutex between two actions.
Holding == {"joinCheck", "delPrev", "delFree", "crashed"}

Absent   == {"none", "dropped"}
Deleting == {"delPrev", "delFree", "crashed"}
Gone     == Deleting \cup {"deleted", "exited"}

LockHeld == \A p \in Procs : pc[p] \in Holding => owner = p

\* Main creates, and neither registers nor deletes a registration.
MainOnly ==
  /\ pc[Main] \in Creating \cup Joining \cup {"user", "exited"}
  /\ \A t \in Threads : creator[t] \in {None, Main} /\ pc[t] \notin Creating \cup Joining

\* childRegister hands back 0, so every handle names entry 0; and a join is
\* about a thread that was started.
ZeroHandles ==
  /\ \A t \in Threads : tsIndex[t] = 0
  /\ \A t \in Threads : creator[t] = Main => pc[t] # "none"
  /\ \A t \in Threads : pc[t] = "dropped" => ~initialized
  /\ pc[Main] \in Joining => idx[Main] = 0 /\ pc[arg[Main]] \notin Absent

\* Once every thread started is past its broadcast, the last of them has left
\* EXIT in entry 0, or is about to with the mutex held.
LastLeavesExit ==
  (\A t \in Threads : pc[t] \in Absent \cup Gone) /\ (\E t \in Threads : pc[t] \in Gone)
    => entry[0].status = "EXIT" \/ \E t \in Threads : pc[t] \in Deleting

\* What NoStrandedJoin comes to when only main joins
MainNotStranded ==
  pc[Main] = "joinWait" => \E t \in Threads : pc[t] \in Registering \cup {"user", "delete"}

JoinInv == LockHeld /\ MainOnly /\ ZeroHandles /\ LastLeavesExit /\ MainNotStranded

\* The programs the theorem is about
ReturningProgram ==
  Creators = {Main} /\ EndBy = {"return"} /\ Garbage = {0}

\* A thread that goes on registering, or is done with it, changes nothing the
\* invariant is about.
LEMMA RegisterMove ==
  ASSUME TypeOK, JoinInv,
         NEW p \in Threads, pc[p] \in Registering,
         NEW l \in Registering \cup {"user"},
         pc' = [pc EXCEPT ![p] = l],
         \A t \in Threads : tsIndex'[t] = 0,
         idx'[Main] = idx[Main],
         UNCHANGED <<owner, initialized, creator, arg>>
  PROVE  JoinInv'
<1> USE MyDetermAssumption
        DEF TypeOK, Procs, Registering, Creating, Joining, Holding, Absent,
            Gone, Deleting
<1>1. LockHeld'
  BY DEF JoinInv, LockHeld
<1>2. MainOnly'
  BY DEF JoinInv, MainOnly
<1>3. ZeroHandles'
  BY DEF JoinInv, MainOnly, ZeroHandles
<1>4. LastLeavesExit' /\ MainNotStranded'
  BY DEF JoinInv, LastLeavesExit, MainNotStranded
<1> QED
  BY <1>1, <1>2, <1>3, <1>4 DEF JoinInv

\* A step of the program itself
LEMMA JoinInvClient ==
  ASSUME ReturningProgram, TypeOK, JoinInv,
         NEW p \in Procs, ClientStep(p)
  PROVE  JoinInv'
<1> USE MyDetermAssumption
        DEF TypeOK, Procs, Registering, Creating, Joining, Holding, Absent,
            Gone, Deleting, JoinInv, LockHeld, MainOnly, ZeroHandles,
            LastLeavesExit, MainNotStranded
<1>1. ASSUME NEW t \in Threads, Spawn(p, t) PROVE JoinInv'
  <2>1. p = Main
    BY <1>1 DEF Spawn, MayCreate, ReturningProgram
  <2> QED
    BY <1>1, <2>1 DEF Spawn, MayCreate, detVars
<1>2. ASSUME NEW t \in Threads, CreateDropped(p, t) PROVE JoinInv'
  <2>1. p = Main
    BY <1>2 DEF CreateDropped, MayCreate, ReturningProgram
  <2> QED
    BY <1>2, <2>1 DEF CreateDropped, MayCreate, Goto, detVars
<1>3. ASSUME NEW t \in Threads, JoinCall(p, t) PROVE JoinInv'
  <2>1. p = Main
    BY <1>3 DEF JoinCall, MayJoin
  <2> QED
    BY <1>3, <2>1 DEF JoinCall, MayJoin, Goto, detVars
<1>4. ASSUME NEW t \in Threads, JoinSkipped(p, t) PROVE JoinInv'
  BY <1>4 DEF JoinSkipped, detVars
<1>5. CASE ReturnFromThread(p)
  BY <1>5 DEF ReturnFromThread, Goto, detVars
<1>6. CASE PthreadExit(p)
  BY <1>6 DEF PthreadExit, ReturningProgram
<1>7. CASE MainReturns
  BY <1>7 DEF MainReturns, Goto, detVars
<1> QED
  BY <1>1, <1>2, <1>3, <1>4, <1>5, <1>6, <1>7 DEF ClientStep

\* A step of a child that registers
LEMMA JoinInvRegister ==
  ASSUME ReturningProgram, TypeOK, JoinInv,
         NEW p \in Procs, RegisterStep(p)
  PROVE  JoinInv'
<1>1. p \in Threads /\ pc[p] \in Registering /\ p # Main
  <2>1. pc[p] \in Registering
    BY DEF RegisterStep, TakeIndex, StoreIndex, LoadIndex, CtorPrev, CtorRest,
           InsertEntry, PublishIndex, ResetGlobalIndex, WaitParentNotify, Registering
  <2>2. pc[Main] \notin Registering
    BY DEF JoinInv, MainOnly, Registering, Creating, Joining
  <2> QED
    BY <2>1, <2>2, MyDetermAssumption DEF Procs
<1>2. \A t \in Threads : tsIndex[t] = 0
  BY DEF JoinInv, ZeroHandles
<1> /\ \A i : idx' = [idx EXCEPT ![p] = i] => idx'[Main] = idx[Main]
    /\ tsIndex' = [tsIndex EXCEPT ![p] = 0] => \A t \in Threads : tsIndex'[t] = 0
  BY <1>1, <1>2 DEF TypeOK, Procs
<1> USE DEF Registering, Goto
<1>3. CASE TakeIndex(p)
  BY <1>1, <1>2, <1>3, RegisterMove DEF TakeIndex, detVars
<1>4. CASE StoreIndex(p) \/ ResetGlobalIndex(p)
  BY <1>1, <1>2, <1>4, RegisterMove DEF StoreIndex, ResetGlobalIndex, detVars
<1>5. CASE LoadIndex(p)
  BY <1>1, <1>2, <1>5, RegisterMove DEF LoadIndex, detVars
<1>6. CASE (CtorPrev(p) \/ CtorRest(p) \/ InsertEntry(p)) /\ UNCHANGED libVars
  BY <1>1, <1>2, <1>6, RegisterMove DEF CtorPrev, CtorRest, InsertEntry, ListInsertTail, libVars
<1>7. CASE PublishIndex(p)
  <2>1. tsIndex' = [tsIndex EXCEPT ![p] = 0] /\ idx' = [idx EXCEPT ![p] = 0]
    BY <1>7 DEF PublishIndex, ReturningProgram
  <2> QED
    BY <1>1, <1>2, <1>7, <2>1, RegisterMove DEF PublishIndex, detVars
<1>8. CASE WaitParentNotify(p) /\ UNCHANGED libVars
  <2>1. CASE pc' = [pc EXCEPT ![p] = "user"]
    BY <1>1, <1>2, <1>8, <2>1, RegisterMove DEF WaitParentNotify, libVars
  <2>2. CASE pc' = [pc EXCEPT ![Main] = "cpWoken", ![p] = "user"] /\ pc[Main] = "cpWait"
    BY <1>1, <1>8, <2>2
       DEF WaitParentNotify, libVars, TypeOK, Procs, Creating, Joining, Holding,
           Absent, Gone, Deleting, JoinInv, LockHeld, MainOnly, ZeroHandles,
           LastLeavesExit, MainNotStranded
  <2>3. \A w \in ParentWaiters : w = Main
    BY DEF ParentWaiters, Procs, JoinInv, MainOnly, Creating
  <2> QED
    BY <1>8, <2>1, <2>2, <2>3 DEF WaitParentNotify, SignalParent, ParentWaiters
<1> QED
  BY <1>3, <1>4, <1>5, <1>6, <1>7, <1>8 DEF RegisterStep

\* A step of main in pthread_create or pthread_join
LEMMA JoinInvJoin ==
  ASSUME ReturningProgram, TypeOK, JoinInv,
         NEW p \in Procs, CreateStep(p) \/ JoinStep(p)
  PROVE  JoinInv'
<1> USE MyDetermAssumption DEF Creating, Joining
<1>1. p = Main
  <2>1. pc[p] \in Creating \cup Joining
    BY DEF CreateStep, WaitChildRegistered, ParentWoken, JoinStep, JoinLock,
           JoinWait, JoinReturn, JoinNoWait, JoinWoken
  <2> QED
    BY <2>1 DEF Procs, JoinInv, MainOnly
<1> USE DEF TypeOK, Procs, Registering, Holding, Absent, Gone, Deleting, JoinInv,
            LockHeld, MainOnly, ZeroHandles, LastLeavesExit, MainNotStranded, Goto
<1>2. CASE CreateStep(p)
  BY <1>1, <1>2 DEF CreateStep, WaitChildRegistered, ParentWoken, ResetFlag, libVars
<1>3. CASE JoinLock(p) /\ UNCHANGED libVars
  <2>1. entry[0].status = "EXIT" => entry' = entry
    BY <1>1, <1>3 DEF JoinLock, MarkJoining
  <2>2. \A t \in Threads : pc[t] \notin Deleting
    BY <1>3 DEF JoinLock
  <2>3. LastLeavesExit'
    BY <1>1, <1>3, <2>1, <2>2 DEF JoinLock
  <2>4. LockHeld' /\ MainOnly' /\ ZeroHandles' /\ MainNotStranded'
    BY <1>1, <1>3 DEF JoinLock, libVars
  <2> QED
    BY <2>3, <2>4
<1>4. CASE JoinWait(p) /\ UNCHANGED libVars
  <2>1. owner = Main /\ entry[0].status # "EXIT"
    BY <1>1, <1>4 DEF JoinWait, MustWait
  <2>2. \A t \in Threads : pc[t] \notin Deleting
    BY <2>1
  <2>3. PICK t \in Threads : pc[t] \notin Absent \cup Gone
    BY <1>1, <1>4, <2>1, <2>2 DEF JoinWait, Labels, Ended
  <2>4. pc[t] \in Registering \cup {"user", "delete"}
    BY <2>3 DEF Labels, Ended
  <2> QED
    BY <1>1, <1>4, <2>2, <2>3, <2>4 DEF JoinWait, libVars
<1>5. CASE JoinReturn(p)
  BY <1>1, <1>5 DEF JoinReturn, JoinNoWait, JoinWoken, detVars
<1> QED
  BY <1>2, <1>3, <1>4, <1>5 DEF JoinStep

\* A step of a thread that ends, or a spurious wakeup
LEMMA JoinInvDelete ==
  ASSUME ReturningProgram, TypeOK, JoinInv,
         NEW p \in Procs, DeleteStep(p) \/ (SpuriousWakeup(p) /\ UNCHANGED libVars)
  PROVE  JoinInv'
<1> USE MyDetermAssumption, ZeroIndex
        DEF TypeOK, Procs, Registering, Creating, Joining, Holding, Absent, Gone,
            Deleting, JoinInv, LockHeld, MainOnly, ZeroHandles, LastLeavesExit,
            MainNotStranded
<1>1. CASE DeleteLock(p) /\ UNCHANGED libVars
  BY <1>1 DEF DeleteLock, WakeJoiners, libVars
<1>2. CASE DeleteCompare(p) /\ UNCHANGED libVars
  BY <1>2 DEF DeleteCompare, Goto, libVars, detVars
<1>3. CASE DeleteFree(p) /\ UNCHANGED libVars
  <2>1. entry'[0].status = "EXIT"
    BY <1>3 DEF DeleteFree, FreeThreadEntry, CurrentIndex, Entries
  <2>2. LastLeavesExit'
    BY <2>1
  <2>3. LockHeld' /\ MainOnly' /\ ZeroHandles' /\ MainNotStranded'
    BY <1>3 DEF DeleteFree, Goto, libVars
  <2> QED
    BY <2>2, <2>3
<1>4. CASE ExitProcess(p)
  BY <1>4 DEF ExitProcess, Goto, detVars
<1>5. CASE SpuriousWakeup(p) /\ UNCHANGED libVars
  BY <1>5 DEF SpuriousWakeup, Goto, libVars, detVars
<1> QED
  BY <1>1, <1>2, <1>3, <1>4, <1>5 DEF DeleteStep

\* The broadcast of mydeterm.h:174 and the EXIT of mydeterm.h:249, both under
\* the mutex, leave no joiner of a program whose threads return asleep with
\* nobody to wake it, spurious wakeups or not.
THEOREM JoinersAreWoken ==
  ASSUME ReturningProgram
  PROVE  Spec => []NoStrandedJoin
<1>1. Init => JoinInv
  BY MyDetermAssumption
     DEF Init, DetInit, JoinInv, LockHeld, MainOnly, ZeroHandles, LastLeavesExit,
         MainNotStranded, Procs, Creating, Joining, Holding, Absent, Gone, Deleting
<1>2. TypeOK /\ JoinInv /\ [Next]_vars => JoinInv'
  <2> SUFFICES ASSUME TypeOK, JoinInv, [Next]_vars PROVE JoinInv'
    OBVIOUS
  <2>1. CASE UNCHANGED vars
    BY <2>1 DEF vars, detVars, JoinInv, LockHeld, MainOnly, ZeroHandles,
                LastLeavesExit, MainNotStranded
  <2> QED
    BY <2>1, JoinInvClient, JoinInvRegister, JoinInvJoin, JoinInvDelete
       DEF Next, LibraryStep, Terminated
<1>3. JoinInv => NoStrandedJoin
  BY MyDetermAssumption
     DEF JoinInv, MainOnly, MainNotStranded, NoStrandedJoin, Procs, Joining
<1> QED
  BY <1>1, <1>2, <1>3, Typing, PTL DEF Spec

-----------------------------------------------------------------------------
(* Programs that keep one thread at a time: main creates a thread only     *)
(* when every earlier one is joined, and threads end by pthread_exit.      *)

OneAtATime ==
  /\ Creators = {Main}
  /\ MaxLive \in {0, 1}
  /\ EndBy \subseteq {"pthread_exit"}
  /\ Garbage = {0}
  /\ SpuriousWakeups = FALSE

Past == {"deleted", "exited"}

\* Main creates and joins, a thread that was joined has left EXIT behind, and
\* at most one thread was created and not joined.
OneThread ==
  /\ initialized
  /\ \A p \in Procs : how[p] # "return" /\ pc[p] # "dropped"
  /\ pc[Main] # "none"
  /\ \A t \in Threads :
       /\ creator[t] \in {None, Main}
       /\ creator[t] = None <=> pc[t] = "none"
       /\ pc[t] \notin Creating \cup Joining
  /\ \A t \in joined : pc[t] \in Past
  /\ \A t, u \in Outstanding(Main) : t = u

\* What main is creating or joining is that thread; every handle names entry 0;
\* and a joiner that was woken was woken by the thread it joins.
RightThread ==
  /\ pc[Main] \in Creating \cup Joining => arg[Main] \in Outstanding(Main)
  /\ \A t \in Threads : tsIndex[t] = 0
  /\ pc[Main] \in Joining => idx[Main] = 0
  /\ pc[Main] = "joinWoken" => pc[arg[Main]] \in {"delPrev", "delFree"} \cup Past

\* No thread has ended yet, and nobody has left EXIT in entry 0.
Clean ==
  entry[0].status # "EXIT" /\ \A t \in Threads : pc[t] \in Registering \cup {"none"}

Fresh(i) == i = 0 \/ Clean

\* The index a child is given, from the counter to its constructor, is that of
\* entry 0, unless it is the first child.
FreshIndex ==
  pc[Main] \notin Ended =>
    /\ (\A t \in Threads : pc[t] \in Registering => pc[t] \in {"born", "notify"})
         => Fresh(globalIndex)
    /\ \A t \in Threads :
         /\ pc[t] \in {"store", "ctorPrev", "ctorRest"} => Fresh(idx[t])
         /\ pc[t] = "load" => Fresh(sharedIndex)
         /\ pc[t] = "reset" => idx[t] = 0
         /\ pc[t] = "notify" => globalIndex = 0

\* While main may still join, EXIT in entry 0 is not what an earlier thread left.
OwnExit ==
  pc[Main] \notin Ended =>
    \A t \in Threads :
      pc[t] \in {"insert", "publish", "reset", "notify", "user", "delete", "delPrev", "delFree"}
        => entry[0].status # "EXIT"

\* An entry nobody is constructing has equal links, and a deletion still finds
\* what it has read.
WholeEntries ==
  /\ \A i \in Index :
       (\A t \in Threads : pc[t] \in {"ctorRest", "insert"} => idx[t] # i)
         => entry[i].prev = entry[i].next
  /\ \A p \in Procs : pc[p] = "delPrev" => seenNext = entry[CurrentIndex].next

SequentialInv ==
  LockHeld /\ OneThread /\ RightThread /\ FreshIndex /\ OwnExit /\ WholeEntries /\ NoCrash

\* Of two threads that are neither unborn nor past their deletion, both are the
\* one that was created and not joined.
LEMMA Single ==
  ASSUME TypeOK, OneThread, NEW t \in Threads, NEW u \in Threads,
         pc[t] \notin Past \cup {"none"}, pc[u] \notin Past \cup {"none"}
  PROVE  t = u
BY DEF TypeOK, OneThread, Outstanding

\* A step of the program itself
LEMMA SequentialClient ==
  ASSUME OneAtATime, TypeOK, Handshake, SequentialInv,
         NEW p \in Procs, ClientStep(p)
  PROVE  SequentialInv'
<1> USE MyDetermAssumption
        DEF TypeOK, Procs, Labels, Registering, Creating, Joining, Ended, Holding, Past,
            SequentialInv, LockHeld, OneThread, RightThread, NoCrash
<1>1. ASSUME NEW t \in Threads, Spawn(p, t) PROVE SequentialInv'
  <2>1. p = Main /\ Outstanding(Main) = {}
    <3>1. p = Main
      BY <1>1 DEF Spawn, MayCreate, OneAtATime
    <3>2. IsFiniteSet(Outstanding(Main))
      BY FS_Subset DEF Outstanding
    <3>3. Cardinality(Outstanding(Main)) = 0
      BY <1>1, <3>1, <3>2, FS_CardinalityType DEF Spawn, MayCreate, OneAtATime
    <3> QED
      BY <3>1, <3>2, <3>3, FS_EmptySet
  <2>2. \A u \in Threads : pc[u] \in Past \cup {"none"}
    BY <2>1 DEF Outstanding
  <2>3. t # Main /\ pc[t] = "none" /\ pc[Main] = "user"
    BY <1>1, <2>1 DEF Spawn, MayCreate
  <2>4. LockHeld' /\ NoCrash'
    BY <1>1, <2>1, <2>3 DEF Spawn, detVars
  <2>5. Outstanding(Main)' = {t}
    BY <1>1, <2>1, <2>3 DEF Spawn, Outstanding
  <2>6. OneThread'
    BY <1>1, <2>1, <2>3, <2>5 DEF Spawn
  <2>7. RightThread'
    BY <1>1, <2>1, <2>3, <2>5 DEF Spawn
  <2>8. FreshIndex'
    BY <1>1, <2>1, <2>2, <2>3 DEF Spawn, FreshIndex, Fresh, Clean, detVars
  <2>9. OwnExit' /\ WholeEntries'
    BY <1>1, <2>1, <2>2, <2>3 DEF Spawn, OwnExit, WholeEntries, detVars
  <2> QED
    BY <2>4, <2>6, <2>7, <2>8, <2>9
<1>2. ASSUME NEW t \in Threads, CreateDropped(p, t) \/ JoinSkipped(p, t) PROVE FALSE
  BY <1>2 DEF CreateDropped, JoinSkipped
<1>3. ASSUME NEW t \in Threads, JoinCall(p, t) PROVE SequentialInv'
  <2>1. p = Main
    BY <1>3 DEF JoinCall, MayJoin
  <2>2. t \in Outstanding(Main) /\ Outstanding(Main)' = Outstanding(Main) /\ t # Main
    BY <1>3, <2>1 DEF JoinCall, MayJoin, Outstanding
  <2>3. LockHeld' /\ NoCrash' /\ OneThread' /\ RightThread'
    BY <1>3, <2>1, <2>2 DEF JoinCall, MayJoin, Goto, detVars
  <2>4. FreshIndex' /\ OwnExit' /\ WholeEntries'
    BY <1>3, <2>1 DEF JoinCall, MayJoin, Goto, detVars, FreshIndex, Fresh, Clean, OwnExit, WholeEntries
  <2> QED
    BY <2>3, <2>4
<1>4. CASE PthreadExit(p)
  <2>1. pc[p] = "user" /\ pc' = [pc EXCEPT ![p] = "delete"]
    BY <1>4 DEF PthreadExit, Goto
  <2>2. Outstanding(Main)' = Outstanding(Main)
    BY <1>4 DEF PthreadExit, Outstanding
  <2>3. LockHeld' /\ NoCrash' /\ OneThread' /\ RightThread'
    BY <1>4, <2>1, <2>2 DEF PthreadExit, detVars
  <2>4. FreshIndex' /\ OwnExit' /\ WholeEntries'
    BY <1>4, <2>1 DEF PthreadExit, detVars, FreshIndex, Fresh, Clean, OwnExit, WholeEntries
  <2> QED
    BY <2>3, <2>4
<1>5. ~ReturnFromThread(p) /\ ~MainReturns
  BY DEF ReturnFromThread, MainReturns, OneAtATime
<1> QED
  BY <1>1, <1>2, <1>3, <1>4, <1>5 DEF ClientStep

\* A step of a child that registers: main waits for it, and no other thread is
\* about.
LEMMA SequentialRegister ==
  ASSUME OneAtATime, TypeOK, Handshake, SequentialInv,
         NEW p \in Procs, RegisterStep(p)
  PROVE  SequentialInv'
<1> USE MyDetermAssumption
        DEF TypeOK, Procs, Labels, Registering, Creating, Joining, Ended, Holding, Past,
            SequentialInv, LockHeld, OneThread, RightThread, NoCrash, Goto
<1>1. /\ p \in Threads /\ p # Main /\ p = arg[Main]
      /\ pc[p] \in Registering /\ pc[Main] \in {"waitReg", "cpWait"}
  <2>1. pc[p] \in Registering
    BY DEF RegisterStep, TakeIndex, StoreIndex, LoadIndex, CtorPrev, CtorRest,
           InsertEntry, PublishIndex, ResetGlobalIndex, WaitParentNotify
  <2> QED
    BY <2>1 DEF Handshake
<1>2. \A t \in Threads \ {p} : pc[t] \in Past \cup {"none"}
  BY <1>1, Single
<1>3. Outstanding(Main)' = Outstanding(Main)
  BY DEF RegisterStep, TakeIndex, StoreIndex, LoadIndex, PublishIndex, ResetGlobalIndex,
         libVars, Outstanding
<1>4. UNCHANGED <<owner, initialized, creator, arg, joined, how, seenNext>>
  BY DEF RegisterStep, TakeIndex, StoreIndex, LoadIndex, CtorPrev, CtorRest, InsertEntry,
         PublishIndex, ResetGlobalIndex, WaitParentNotify, libVars, detVars
<1>5. /\ pc'[p] \in Registering \cup {"user"}
      /\ \A q \in Procs \ {p} : pc'[q] = pc[q] \/ (q = Main /\ pc'[q] = "cpWoken")
      /\ pc' \in [Procs -> Labels]
  <2>1. CASE WaitParentNotify(p)
    <3>1. ParentWaiters \subseteq {Main}
      BY DEF ParentWaiters
    <3>2. pc' = [pc EXCEPT ![p] = "user"] \/ pc' = [pc EXCEPT ![Main] = "cpWoken", ![p] = "user"]
      BY <2>1, <3>1 DEF WaitParentNotify, SignalParent
    <3> QED
      BY <1>1, <3>2
  <2>2. CASE ~WaitParentNotify(p)
    <3>1. \E l \in Registering : pc' = [pc EXCEPT ![p] = l]
      BY <2>2 DEF RegisterStep, TakeIndex, StoreIndex, LoadIndex, CtorPrev, CtorRest,
                  InsertEntry, PublishIndex, ResetGlobalIndex
    <3> QED
      BY <1>1, <3>1
  <2> QED
    BY <2>1, <2>2
<1>6. LockHeld' /\ NoCrash'
  BY <1>1, <1>4, <1>5
<1>7. OneThread'
  BY <1>1, <1>3, <1>4, <1>5
<1>8. RightThread'
  <2>1. tsIndex' \in [Threads -> Index] /\ \A t \in Threads : tsIndex'[t] = 0
    <3>1. tsIndex' = tsIndex \/ tsIndex' = [tsIndex EXCEPT ![p] = 0]
      BY DEF OneAtATime, RegisterStep, TakeIndex, StoreIndex, LoadIndex, PublishIndex,
             ResetGlobalIndex, libVars
    <3> QED
      BY <1>1, <3>1, ZeroIndex
  <2> QED
    BY <1>1, <1>3, <1>4, <1>5, <2>1
<1>9. FreshIndex' /\ OwnExit' /\ WholeEntries'
  <2> USE <1>1, <1>2, <1>4, <1>5, ZeroIndex
          DEF FreshIndex, Fresh, Clean, OwnExit, WholeEntries, CurrentIndex, detVars, libVars
  <2>1. CASE TakeIndex(p)
    BY <2>1 DEF TakeIndex
  <2>2. CASE StoreIndex(p)
    BY <2>2 DEF StoreIndex
  <2>3. CASE LoadIndex(p)
    BY <2>3 DEF LoadIndex
  <2>4. CASE CtorPrev(p) /\ UNCHANGED libVars
    BY <2>4 DEF CtorPrev, Entries
  <2>5. CASE CtorRest(p) /\ UNCHANGED libVars
    <3>1. entry' = [entry EXCEPT ![idx[p]].next = "NULL", ![idx[p]].status = "READY"]
      BY <2>5 DEF CtorRest
    <3>2. /\ entry'[0].status = IF idx[p] = 0 THEN "READY" ELSE entry[0].status
          /\ \A i \in Index \ {idx[p]} : entry'[i] = entry[i]
      BY <3>1 DEF Entries
    <3>3. FreshIndex' /\ OwnExit'
      BY <2>5, <3>2 DEF CtorRest
    <3>4. WholeEntries'
      BY <2>5, <3>2 DEF CtorRest
    <3> QED
      BY <3>3, <3>4
  <2>6. CASE InsertEntry(p) /\ UNCHANGED libVars
    BY <2>6 DEF InsertEntry, ListInsertTail, Entries
  <2>7. CASE PublishIndex(p)
    BY <2>7 DEF PublishIndex, OneAtATime
  <2>8. CASE ResetGlobalIndex(p)
    BY <2>8 DEF ResetGlobalIndex
  <2>9. CASE WaitParentNotify(p) /\ UNCHANGED libVars
    BY <2>9 DEF WaitParentNotify, SignalParent, ParentWaiters
  <2> QED
    BY <2>1, <2>2, <2>3, <2>4, <2>5, <2>6, <2>7, <2>8, <2>9 DEF RegisterStep
<1> QED
  BY <1>6, <1>7, <1>8, <1>9

\* A join that returns found the EXIT of its thread, or was woken by it and got
\* the mutex after it.
LEMMA JoineeEnded ==
  ASSUME TypeOK, Handshake, SequentialInv, JoinNoWait(Main) \/ JoinWoken(Main)
  PROVE  arg[Main] \in Threads /\ pc[arg[Main]] \in Past
<1> USE MyDetermAssumption
        DEF TypeOK, Procs, Labels, Registering, Creating, Joining, Ended, Holding, Past,
            SequentialInv, LockHeld, OneThread, RightThread, NoCrash
<1> DEFINE a == arg[Main]
<1>1. a \in Threads /\ a # Main /\ pc[a] # "none"
  BY DEF JoinNoWait, JoinWoken, Outstanding
<1>2. CASE JoinNoWait(Main)
  <2>1. entry[0].status = "EXIT" /\ pc[Main] = "joinCheck"
    BY <1>2 DEF JoinNoWait, MustWait
  <2>2. pc[a] \notin Registering
    BY <1>1, <2>1 DEF Handshake
  <2> QED
    BY <1>1, <2>1, <2>2 DEF OwnExit
<1>3. CASE JoinWoken(Main)
  BY <1>1, <1>3 DEF JoinWoken
<1> QED
  BY <1>1, <1>2, <1>3

\* A step of main in pthread_create or pthread_join
LEMMA SequentialJoin ==
  ASSUME OneAtATime, TypeOK, Handshake, SequentialInv,
         NEW p \in Procs, CreateStep(p) \/ JoinStep(p)
  PROVE  SequentialInv'
<1> USE MyDetermAssumption
        DEF TypeOK, Procs, Labels, Registering, Creating, Joining, Ended, Holding, Past,
            SequentialInv, LockHeld, OneThread, RightThread, NoCrash, Goto
<1>1. p = Main /\ arg[Main] \in Outstanding(Main) /\ pc[Main] \in Creating \cup Joining
  <2>1. pc[p] \in Creating \cup Joining
    BY DEF CreateStep, WaitChildRegistered, ParentWoken, JoinStep, JoinLock,
           JoinWait, JoinReturn, JoinNoWait, JoinWoken
  <2> QED
    BY <2>1
<1> DEFINE a == arg[Main]
<1>2. a \in Threads /\ a # Main /\ pc[a] # "none"
  BY <1>1 DEF Outstanding
<1>3. CASE CreateStep(p)
  <2>1. pc'[Main] \in {"user", "cpWait"} /\ pc' = [pc EXCEPT ![Main] = pc'[Main]]
    BY <1>1, <1>3 DEF CreateStep, WaitChildRegistered, ParentWoken
  <2>2. UNCHANGED <<idx, owner, entry, seenNext, libVars>> /\ Outstanding(Main)' = Outstanding(Main)
    BY <1>3 DEF CreateStep, WaitChildRegistered, ParentWoken, libVars, Outstanding
  <2>3. LockHeld' /\ NoCrash' /\ OneThread' /\ RightThread'
    BY <1>1, <1>2, <2>1, <2>2 DEF libVars
  <2>4. FreshIndex' /\ OwnExit' /\ WholeEntries'
    BY <1>1, <2>1, <2>2 DEF FreshIndex, Fresh, Clean, OwnExit, WholeEntries, libVars
  <2> QED
    BY <2>3, <2>4
<1>4. CASE JoinLock(p) /\ UNCHANGED libVars
  <2>1. Outstanding(Main)' = Outstanding(Main)
    BY <1>4 DEF libVars, Outstanding
  <2>2. /\ entry' \in [Index -> Entries]
        /\ \A i \in Index : entry'[i].prev = entry[i].prev /\ entry'[i].next = entry[i].next
        /\ entry[0].status # "EXIT" => entry'[0].status # "EXIT"
    BY <1>4, ZeroIndex DEF JoinLock, MarkJoining, CurrentIndex, Entries, Link, Status
  <2>3. LockHeld' /\ NoCrash' /\ OneThread' /\ RightThread'
    BY <1>1, <1>2, <1>4, <2>1 DEF JoinLock, libVars
  <2>4. FreshIndex' /\ OwnExit'
    BY <1>1, <1>4, <2>2, ZeroIndex DEF JoinLock, FreshIndex, Fresh, Clean, OwnExit, libVars
  <2>5. WholeEntries'
    BY <1>1, <1>4, <2>2, ZeroIndex DEF JoinLock, WholeEntries, CurrentIndex
  <2> QED
    BY <2>3, <2>4, <2>5
<1>5. CASE JoinWait(p) /\ UNCHANGED libVars
  <2>1. Outstanding(Main)' = Outstanding(Main)
    BY <1>5 DEF libVars, Outstanding
  <2>2. LockHeld' /\ NoCrash' /\ OneThread' /\ RightThread'
    BY <1>1, <1>2, <1>5, <2>1 DEF JoinWait, libVars
  <2>3. FreshIndex' /\ OwnExit' /\ WholeEntries'
    BY <1>1, <1>5 DEF JoinWait, FreshIndex, Fresh, Clean, OwnExit, WholeEntries, libVars
  <2> QED
    BY <2>2, <2>3
<1>6. CASE JoinReturn(p)
  <2>1. pc[a] \in Past
    BY <1>1, <1>6, JoineeEnded DEF JoinReturn
  <2>2. /\ pc' = [pc EXCEPT ![Main] = "user"]
        /\ joined' = joined \cup {a}
        /\ UNCHANGED <<idx, childRegistered, entry, seenNext, initialized, globalIndex,
                       sharedIndex, tsIndex, creator, arg, how>>
        /\ \A q \in Procs \ {Main} : pc[q] \in Holding => owner' = q
    BY <1>1, <1>6 DEF JoinReturn, JoinNoWait, JoinWoken, detVars
  <2>3. Outstanding(Main)' \subseteq Outstanding(Main)
    BY <2>2 DEF Outstanding
  <2>4. LockHeld' /\ NoCrash' /\ OneThread' /\ RightThread'
    BY <1>1, <1>2, <2>1, <2>2, <2>3
  <2>5. FreshIndex' /\ OwnExit' /\ WholeEntries'
    BY <1>1, <2>2 DEF FreshIndex, Fresh, Clean, OwnExit, WholeEntries
  <2> QED
    BY <2>4, <2>5
<1> QED
  BY <1>3, <1>4, <1>5, <1>6 DEF JoinStep

\* A step of a process that ends: nobody registers meanwhile, so the deletion
\* meets a whole entry, and the only joiner it wakes is the one that joins it.
LEMMA SequentialDelete ==
  ASSUME OneAtATime, TypeOK, Handshake, SequentialInv,
         NEW p \in Procs, DeleteStep(p)
  PROVE  SequentialInv'
<1> USE MyDetermAssumption
        DEF TypeOK, Procs, Labels, Registering, Creating, Joining, Ended, Holding, Past,
            SequentialInv, LockHeld, OneThread, RightThread, NoCrash, Goto
<1>1. pc[p] \in {"delete", "delPrev", "delFree", "deleted"}
  BY DEF DeleteStep, DeleteLock, DeleteCompare, DeleteFree, ExitProcess
<1>2. Outstanding(Main)' = Outstanding(Main)
  BY DEF DeleteStep, ExitProcess, libVars, Outstanding
<1>3. CASE DeleteLock(p) /\ UNCHANGED libVars
  <2>1. pc[Main] = "joinWait" => p = arg[Main] /\ p \in Threads
    BY <1>3, Single DEF DeleteLock, Outstanding
  <2>2. pc' = [[q \in Procs |-> IF pc[q] = "joinWait" THEN "joinWoken" ELSE pc[q]]
                 EXCEPT ![p] = "delPrev"]
    BY <1>3 DEF DeleteLock, WakeJoiners
  <2>3. /\ pc' \in [Procs -> Labels] /\ pc'[p] = "delPrev"
        /\ \A t \in Threads \ {p} : pc'[t] = pc[t]
        /\ p # Main => pc'[Main] = IF pc[Main] = "joinWait" THEN "joinWoken" ELSE pc[Main]
    BY <2>2
  <2>4. LockHeld' /\ NoCrash' /\ OneThread'
    BY <1>1, <1>2, <1>3, <2>3 DEF DeleteLock, libVars
  <2>5. RightThread'
    BY <1>1, <1>2, <1>3, <2>1, <2>3 DEF DeleteLock, libVars
  <2>6. FreshIndex' /\ OwnExit'
    BY <1>1, <1>3, <2>3 DEF DeleteLock, FreshIndex, Fresh, Clean, OwnExit, libVars
  <2>7. WholeEntries'
    BY <1>1, <1>3, <2>3 DEF DeleteLock, WholeEntries, libVars
  <2> QED
    BY <2>4, <2>5, <2>6, <2>7
<1>4. CASE DeleteCompare(p) /\ UNCHANGED libVars
  <2>1. \A t \in Threads : pc[t] \notin Registering
    <3>1. CASE p = Main
      BY <1>4, <3>1 DEF DeleteCompare, Handshake
    <3>2. CASE p # Main
      BY <1>4, <3>2, Single DEF DeleteCompare
    <3> QED
      BY <3>1, <3>2
  <2>2. seenNext = entry[CurrentIndex].prev
    BY <1>4, <2>1, ZeroIndex DEF DeleteCompare, WholeEntries, CurrentIndex
  <2>3. pc' = [pc EXCEPT ![p] = "delFree"]
    BY <1>4, <2>2 DEF DeleteCompare
  <2>4. LockHeld' /\ NoCrash' /\ OneThread' /\ RightThread'
    BY <1>1, <1>2, <1>4, <2>3 DEF DeleteCompare, libVars, detVars
  <2>5. FreshIndex' /\ OwnExit' /\ WholeEntries'
    BY <1>1, <1>4, <2>3
       DEF DeleteCompare, FreshIndex, Fresh, Clean, OwnExit, WholeEntries, libVars, detVars
  <2> QED
    BY <2>4, <2>5
<1>5. CASE DeleteFree(p) /\ UNCHANGED libVars
  <2>1. entry' = [entry EXCEPT ![0].status = "EXIT"] /\ pc' = [pc EXCEPT ![p] = "deleted"]
    BY <1>5 DEF DeleteFree, FreeThreadEntry, CurrentIndex
  <2>2. \A q \in Procs \ {p} : pc[q] \notin Holding
    BY <1>5 DEF DeleteFree
  <2>3. LockHeld' /\ NoCrash' /\ OneThread' /\ RightThread'
    BY <1>1, <1>2, <1>5, <2>1, <2>2 DEF DeleteFree, libVars
  <2>4. WholeEntries'
    <3>1. \A i \in Index : entry'[i].prev = entry[i].prev /\ entry'[i].next = entry[i].next
      BY <2>1 DEF Entries
    <3> QED
      BY <1>5, <2>1, <3>1, ZeroIndex DEF DeleteFree, WholeEntries, CurrentIndex, libVars
  <2>5. CASE p = Main
    <3>1. pc'[Main] \in Ended
      BY <2>1, <2>5
    <3>2. FreshIndex' /\ OwnExit'
      BY <3>1 DEF FreshIndex, OwnExit
    <3> QED
      BY <2>3, <2>4, <3>2
  <2>6. CASE p # Main
    <3>1. p \in Threads /\ pc[p] = "delFree" /\ \A t \in Threads \ {p} : pc[t] \in Past \cup {"none"}
      BY <1>5, <2>6, Single DEF DeleteFree
    <3>2. pc[Main] \notin Ended => globalIndex = 0
      BY <3>1 DEF FreshIndex, Fresh, Clean
    <3>3. FreshIndex'
      BY <1>5, <2>1, <3>1, <3>2 DEF FreshIndex, Fresh, libVars
    <3>4. OwnExit'
      BY <2>1, <3>1 DEF OwnExit
    <3> QED
      BY <2>3, <2>4, <3>3, <3>4
  <2> QED
    BY <2>3, <2>4, <2>5, <2>6
<1>6. CASE ExitProcess(p)
  <2>1. initialized' /\ pc' = [pc EXCEPT ![p] = "exited"]
    BY <1>6 DEF ExitProcess
  <2>2. LockHeld' /\ NoCrash' /\ OneThread' /\ RightThread'
    BY <1>1, <1>2, <1>6, <2>1 DEF ExitProcess, detVars
  <2>3. FreshIndex' /\ OwnExit' /\ WholeEntries'
    BY <1>1, <1>6 DEF ExitProcess, FreshIndex, Fresh, Clean, OwnExit, WholeEntries, detVars
  <2> QED
    BY <2>2, <2>3
<1> QED
  BY <1>3, <1>4, <1>5, <1>6 DEF DeleteStep

\* The invariant of these programs
THEOREM SequentialInvariance ==
  ASSUME OneAtATime
  PROVE  Spec => [](TypeOK /\ Handshake /\ SequentialInv)
<1>1. Init => SequentialInv
  BY MyDetermAssumption, ZeroIndex
     DEF Init, DetInit, SequentialInv, LockHeld, OneThread, RightThread, FreshIndex, Fresh,
         Clean, OwnExit, WholeEntries, NoCrash, Outstanding, Procs, Creating, Joining,
         Holding, Past, Ended, Registering
<1>2. TypeOK /\ Handshake /\ SequentialInv /\ [Next]_vars => SequentialInv'
  <2> SUFFICES ASSUME TypeOK, Handshake, SequentialInv, [Next]_vars PROVE SequentialInv'
    OBVIOUS
  <2>1. CASE UNCHANGED vars
    BY <2>1 DEF vars, detVars, SequentialInv, LockHeld, OneThread, RightThread, FreshIndex,
                Fresh, Clean, OwnExit, WholeEntries, NoCrash, Outstanding
  <2>2. \A p \in Procs : ~SpuriousWakeup(p)
    BY DEF SpuriousWakeup, OneAtATime
  <2> QED
    BY <2>1, <2>2, SequentialClient, SequentialRegister, SequentialJoin, SequentialDelete
       DEF Next, LibraryStep, Terminated
<1>3. Creators = {Main} /\ SpuriousWakeups = FALSE
  BY DEF OneAtATime
<1>4. Spec => []Handshake
  BY <1>3, HandshakeHolds
<1> QED
  BY <1>1, <1>2, <1>4, Typing, PTL DEF Spec

\* The unlocked constructor of mydeterm.h:137 and the deletion of mydeterm.h:193
\* never meet in a program that keeps one thread at a time.
THEOREM DeletionsMeetWholeEntries ==
  ASSUME OneAtATime
  PROVE  Spec => []NoCrash
<1>1. SequentialInv => NoCrash
  BY DEF SequentialInv
<1> QED
  BY <1>1, SequentialInvariance, PTL

\* There JoinWaits holds, so join keeps its word: what it returned for has left
\* EXIT in its entry (myrun.h:68).
THEOREM JoinsWait ==
  ASSUME OneAtATime
  PROVE  Spec => []JoinWaits
<1>1. SequentialInv => JoinWaits
  BY DEF SequentialInv, OneThread, JoinWaits, Past, Ended
<1> QED
  BY <1>1, SequentialInvariance, PTL

-----------------------------------------------------------------------------
(* Such a program implements ForkJoin.                                     *)

\* What a caller can see of these programs, in terms of main alone
View ==
  /\ Handles = {t \in Threads : pc[t] # "none" /\ (pc[Main] \in Creating => t # arg[Main])}
  /\ BeingJoined = IF pc[Main] \in Joining THEN {arg[Main]} ELSE {}
  /\ arg[Main] \notin Threads => pc[Main] \notin Creating \cup Joining
  /\ arg[Main] \in Threads /\ pc[Main] \in Creating \cup Joining
       => pc[arg[Main]] # "none" /\ arg[Main] \notin joined

LEMMA ViewNow ==
  ASSUME TypeOK, Handshake, SequentialInv
  PROVE  View
<1>1. \A p \in Procs : pc[p] \in Creating \cup Joining => p = Main
  BY DEF SequentialInv, OneThread, Procs
<1>2. \A t \in Threads : creator[t] # None <=> pc[t] # "none"
  BY DEF SequentialInv, OneThread
<1>3. Main \in Procs
  BY DEF Procs
<1>4. Handles = {t \in Threads : pc[t] # "none" /\ (pc[Main] \in Creating => t # arg[Main])}
  BY <1>1, <1>2, <1>3 DEF Handles, Returned
<1>5. BeingJoined = IF pc[Main] \in Joining THEN {arg[Main]} ELSE {}
  BY <1>1, <1>3 DEF BeingJoined
<1>6. pc[Main] \in Creating \cup Joining
        => arg[Main] \in Threads /\ pc[arg[Main]] # "none" /\ arg[Main] \notin joined
  BY <1>2, MyDetermAssumption DEF SequentialInv, RightThread, Outstanding, Procs
<1> QED
  BY <1>4, <1>5, <1>6 DEF View

\* A step that leaves every thread at the same stage of its life, and main in
\* or out of create and join, is not seen.
LEMMA Unseen ==
  ASSUME View, View',
         \A t \in Threads : Life(t)' = Life(t) /\ (pc'[t] = "none" <=> pc[t] = "none"),
         pc'[Main] \in Creating <=> pc[Main] \in Creating,
         pc'[Main] \in Joining <=> pc[Main] \in Joining,
         UNCHANGED <<arg, joined>>
  PROVE  UNCHANGED Promise!fjVars
<1>1. Handles' = Handles /\ BeingJoined' = BeingJoined
  BY DEF View
<1>2. [t \in Threads |-> Life(t)]' = [t \in Threads |-> Life(t)]
  OBVIOUS
<1> QED
  BY <1>1, <1>2 DEF Promise!fjVars

\* Every step is a step of ForkJoin or cannot be seen.
LEMMA PromiseStep ==
  ASSUME OneAtATime, TypeOK, TypeOK', Handshake, SequentialInv, View, View', [Next]_vars
  PROVE  [Promise!Next]_(Promise!fjVars)
<1> USE MyDetermAssumption
        DEF TypeOK, Procs, Labels, Registering, Creating, Joining, Ended
<1>1. CASE UNCHANGED vars
  BY <1>1, Unseen DEF vars, Life
<1>2. ASSUME NEW t \in Threads, Spawn(Main, t) PROVE Promise!Create(t)
  <2>1. pc[t] = "none" /\ pc[Main] = "user" /\ t # Main /\ UNCHANGED joined
        /\ arg' = [arg EXCEPT ![Main] = t] /\ pc' = [pc EXCEPT ![Main] = "waitReg", ![t] = "born"]
    BY <1>2 DEF Spawn, MayCreate
  <2>2. Life(t) = "none" /\ Life(t)' = "starting" /\ \A u \in Threads \ {t} : Life(u)' = Life(u)
    BY <2>1 DEF Life
  <2>3. [u \in Threads |-> Life(u)]' = [[u \in Threads |-> Life(u)] EXCEPT ![t] = "starting"]
    BY <2>2
  <2>4. Handles' = Handles /\ BeingJoined' = BeingJoined
    BY <2>1 DEF View
  <2> QED
    BY <2>1, <2>2, <2>3, <2>4 DEF Promise!Create
<1>3. ASSUME NEW t \in Threads, JoinCall(Main, t) PROVE Promise!JoinCall(t)
  <2>1. pc[Main] = "user" /\ t # Main /\ UNCHANGED joined /\ arg' = [arg EXCEPT ![Main] = t]
        /\ pc' = [pc EXCEPT ![Main] = "join"] /\ t \notin joined /\ pc[t] # "none"
    BY <1>3 DEF JoinCall, MayJoin, Goto, SequentialInv, OneThread
  <2>2. [u \in Threads |-> Life(u)]' = [u \in Threads |-> Life(u)]
    BY <2>1 DEF Life
  <2>3. Handles' = Handles /\ BeingJoined = {} /\ BeingJoined' = {t} /\ t \in Handles
    BY <2>1 DEF View
  <2> QED
    BY <2>1, <2>2, <2>3 DEF Promise!JoinCall
<1>4. ASSUME NEW p \in Threads, PthreadExit(p) PROVE Promise!End(p)
  <2>1. pc[p] = "user" /\ pc' = [pc EXCEPT ![p] = "delete"] /\ p # Main /\ UNCHANGED <<arg, joined>>
    BY <1>4 DEF PthreadExit, Goto, SequentialInv, OneThread
  <2>2. Life(p) = "running" /\ Life(p)' = "ended" /\ \A u \in Threads \ {p} : Life(u)' = Life(u)
    BY <2>1 DEF Life
  <2>3. [u \in Threads |-> Life(u)]' = [[u \in Threads |-> Life(u)] EXCEPT ![p] = "ended"]
    BY <2>2
  <2>4. Handles' = Handles /\ BeingJoined' = BeingJoined
    BY <2>1 DEF View
  <2> QED
    BY <2>1, <2>2, <2>3, <2>4 DEF Promise!End
<1>5. CASE PthreadExit(Main)
  BY <1>5, Unseen DEF PthreadExit, Goto, SequentialInv, OneThread, Life
<1>6. ASSUME NEW p \in Procs, ClientStep(p) PROVE [Promise!Next]_(Promise!fjVars)
  <2>1. ~ReturnFromThread(p) /\ ~MainReturns
    BY DEF ReturnFromThread, MainReturns, OneAtATime
  <2>2. ASSUME NEW t \in Threads, Spawn(p, t) \/ JoinCall(p, t) PROVE p = Main
    BY <2>2 DEF Spawn, MayCreate, JoinCall, MayJoin, OneAtATime, SequentialInv, OneThread
  <2>3. \A t \in Threads : ~CreateDropped(p, t) /\ ~JoinSkipped(p, t)
    BY DEF CreateDropped, JoinSkipped, SequentialInv, OneThread
  <2> QED
    BY <1>2, <1>3, <1>4, <1>5, <1>6, <2>1, <2>2, <2>3 DEF ClientStep, Promise!Next
<1>7. ASSUME NEW p \in Procs, RegisterStep(p) PROVE [Promise!Next]_(Promise!fjVars)
  <2>1. p \in Threads /\ p # Main /\ pc[p] \in Registering /\ pc[Main] \in {"waitReg", "cpWait"}
    <3>1. pc[p] \in Registering
      BY <1>7 DEF RegisterStep, TakeIndex, StoreIndex, LoadIndex, CtorPrev, CtorRest,
                  InsertEntry, PublishIndex, ResetGlobalIndex, WaitParentNotify
    <3> QED
      BY <3>1 DEF Handshake
  <2>2. UNCHANGED <<arg, joined>>
    BY <1>7 DEF RegisterStep, TakeIndex, StoreIndex, LoadIndex, PublishIndex,
                ResetGlobalIndex, libVars
  <2>3. CASE WaitParentNotify(p)
    <3>1. ParentWaiters \subseteq {Main}
      BY DEF ParentWaiters, SequentialInv, OneThread
    <3>2. pc' = [pc EXCEPT ![p] = "user"] \/ pc' = [pc EXCEPT ![Main] = "cpWoken", ![p] = "user"]
      BY <2>3, <3>1 DEF WaitParentNotify, SignalParent, Goto
    <3>3. Life(p) = "starting" /\ Life(p)' = "running" /\ \A u \in Threads \ {p} : Life(u)' = Life(u)
      BY <2>1, <3>2 DEF Life
    <3>4. [u \in Threads |-> Life(u)]' = [[u \in Threads |-> Life(u)] EXCEPT ![p] = "running"]
      BY <3>3
    <3>5. Handles' = Handles /\ BeingJoined' = BeingJoined
      BY <2>1, <2>2, <3>2 DEF View
    <3>6. Promise!Start(p)
      BY <2>1, <2>2, <3>3, <3>4, <3>5 DEF Promise!Start
    <3> QED
      BY <2>1, <3>6 DEF Promise!Next
  <2>4. CASE ~WaitParentNotify(p)
    <3>1. \E l \in Registering : pc' = [pc EXCEPT ![p] = l]
      BY <1>7, <2>4 DEF RegisterStep, TakeIndex, StoreIndex, LoadIndex, CtorPrev, CtorRest,
                  InsertEntry, PublishIndex, ResetGlobalIndex, Goto
    <3> QED
      BY <2>1, <2>2, <3>1, Unseen DEF Life
  <2> QED
    BY <2>3, <2>4
<1>8. ASSUME NEW p \in Procs, CreateStep(p) PROVE [Promise!Next]_(Promise!fjVars)
  <2>1. p = Main /\ pc[Main] \in Creating /\ UNCHANGED <<arg, joined>>
        /\ \E l \in {"cpWait", "user"} : pc' = [pc EXCEPT ![Main] = l]
    BY <1>8 DEF CreateStep, WaitChildRegistered, ParentWoken, Goto, libVars, SequentialInv, OneThread
  <2>2. \A u \in Threads : Life(u)' = Life(u) /\ pc'[u] = pc[u]
    BY <2>1 DEF Life
  <2>3. CASE pc'[Main] = "cpWait"
    BY <2>1, <2>2, <2>3, Unseen
  <2>4. CASE pc'[Main] = "user"
    <3> DEFINE a == arg[Main]
    <3>1. a \in Threads /\ pc[a] \notin Registering \cup {"none", "dropped"}
      <4>1. childRegistered
        BY <1>8, <2>1, <2>4 DEF CreateStep, WaitChildRegistered, ParentWoken, Goto, Handshake
      <4> QED
        BY <2>1, <4>1 DEF Handshake, View, SequentialInv, OneThread
    <3>2. Life(a) \in {"running", "ended"}
      BY <3>1 DEF Life
    <3>3. a \notin Handles /\ Handles' = Handles \cup {a} /\ BeingJoined' = BeingJoined
      BY <2>1, <2>2, <2>4, <3>1 DEF View
    <3>4. [u \in Threads |-> Life(u)]' = [u \in Threads |-> Life(u)]
      BY <2>2
    <3>5. Promise!CreateReturn(a)
      BY <2>1, <3>1, <3>2, <3>3, <3>4 DEF Promise!CreateReturn
    <3> QED
      BY <3>1, <3>5 DEF Promise!Next
  <2> QED
    BY <2>1, <2>3, <2>4
<1>9. ASSUME NEW p \in Procs, JoinStep(p) PROVE [Promise!Next]_(Promise!fjVars)
  <2>1. p = Main /\ pc[Main] \in Joining /\ UNCHANGED arg
        /\ \E l \in Joining \cup {"user"} : pc' = [pc EXCEPT ![Main] = l]
    BY <1>9 DEF JoinStep, JoinLock, JoinWait, JoinReturn, JoinNoWait, JoinWoken, Goto, libVars,
                SequentialInv, OneThread
  <2>2. \A u \in Threads : Life(u)' = Life(u) /\ pc'[u] = pc[u]
    BY <2>1 DEF Life
  <2>3. CASE (JoinLock(p) \/ JoinWait(p)) /\ UNCHANGED libVars
    BY <2>1, <2>2, <2>3, Unseen DEF JoinLock, JoinWait, Goto, libVars
  <2>4. CASE JoinReturn(p)
    <3> DEFINE a == arg[Main]
    <3>1. a \in Threads /\ pc'[Main] = "user" /\ joined' = joined \cup {a}
      BY <2>1, <2>4 DEF JoinReturn, JoinNoWait, JoinWoken, Goto
    <3>2. Life(a) = "ended"
      <4>1. pc[a] \in Past
        BY <2>1, <2>4, JoineeEnded DEF JoinReturn
      <4> QED
        BY <4>1 DEF Past, Life
    <3>3. Handles' = Handles /\ BeingJoined = {a} /\ BeingJoined' = {}
      BY <2>1, <2>2, <3>1 DEF View
    <3>4. [u \in Threads |-> Life(u)]' = [u \in Threads |-> Life(u)]
      BY <2>2
    <3>5. Promise!JoinReturn(a)
      BY <3>1, <3>2, <3>3, <3>4 DEF Promise!JoinReturn
    <3> QED
      BY <3>1, <3>5 DEF Promise!Next
  <2> QED
    BY <1>9, <2>3, <2>4 DEF JoinStep
<1>10. ASSUME NEW p \in Procs, DeleteStep(p) PROVE UNCHANGED Promise!fjVars
  <2>1. UNCHANGED <<arg, joined>>
    BY <1>10 DEF DeleteStep, ExitProcess, libVars
  <2>2. CASE DeleteLock(p)
    <3>1. pc' = [[q \in Procs |-> IF pc[q] = "joinWait" THEN "joinWoken" ELSE pc[q]]
                   EXCEPT ![p] = "delPrev"]
      BY <2>2 DEF DeleteLock, WakeJoiners
    <3>2. pc[p] = "delete" /\ \A t \in Threads : pc[t] # "joinWait"
      BY <2>2 DEF DeleteLock, SequentialInv, OneThread
    <3>3. \A t \in Threads : pc'[t] = IF t = p THEN "delPrev" ELSE pc[t]
      BY <3>1, <3>2
    <3> QED
      BY <2>1, <3>1, <3>2, <3>3, Unseen DEF Life
  <2>3. CASE ~DeleteLock(p)
    <3>1. pc[p] \in Ended /\ \E l \in Ended : pc' = [pc EXCEPT ![p] = l]
      BY <1>10, <2>3 DEF DeleteStep, DeleteCompare, DeleteFree, ExitProcess, Goto
    <3> QED
      BY <2>1, <3>1, Unseen DEF Life
  <2> QED
    BY <2>2, <2>3
<1>11. \A p \in Procs : ~SpuriousWakeup(p)
  BY DEF SpuriousWakeup, OneAtATime
<1> QED
  BY <1>1, <1>6, <1>7, <1>8, <1>9, <1>10, <1>11 DEF Next, LibraryStep, Terminated

\* Creating and joining keeps the promise of ForkJoin, apart from its fairness,
\* for any number of threads one after the other (mythread.cpp:99).
THEOREM SequentialProgramsForkAndJoin ==
  ASSUME OneAtATime
  PROVE  Spec => Promise!Init /\ [][Promise!Next]_(Promise!fjVars)
<1>1. Init => Promise!Init
  <2> SUFFICES ASSUME Init PROVE Promise!Init
    OBVIOUS
  <2>1. pc = [p \in Procs |-> IF p = Main THEN "user" ELSE "none"] /\ joined = {}
        /\ \A t \in Threads : creator[t] = None
    BY DEF Init
  <2>2. \A t \in Threads : Life(t) = "none"
    BY <2>1, MyDetermAssumption DEF Life, Procs, Registering, Ended
  <2>3. Handles = {} /\ BeingJoined = {}
    BY <2>1 DEF Handles, Returned, BeingJoined, Joining
  <2> QED
    BY <2>1, <2>2, <2>3 DEF Promise!Init
<1>2. TypeOK /\ Handshake /\ SequentialInv => View
  BY ViewNow
<1>3. TypeOK /\ TypeOK' /\ Handshake /\ SequentialInv /\ View /\ View' /\ [Next]_vars
        => [Promise!Next]_(Promise!fjVars)
  BY PromiseStep
<1> QED
  BY <1>1, <1>2, <1>3, SequentialInvariance, PTL DEF Spec

=============================================================================

---------------------------- MODULE LibMyThread ----------------------------
(***************************************************************************)
(* The life of a thread under the library: pthread_create, pthread_join    *)
(* and pthread_exit of libmythread.cpp, the forwarding layer of myrun.h    *)
(* and the fork of mythread.cpp, around the shared page of MyDeterm.       *)
(*                                                                         *)
(* xglobals::initialize remaps every writable segment MAP_SHARED, so what  *)
(* the source calls a global (initialized, myrun::_thread_index) is one    *)
(* cell for all processes.                                                 *)
(*                                                                         *)
(* The program that uses the library chooses when to create, join and end; *)
(* Creators, MaxLive and EndBy say which programs are considered.          *)
(***************************************************************************)
EXTENDS MyDeterm

CONSTANTS Creators,   \* the processes that call pthread_create
          MaxLive,    \* children a process may have created and not joined
          EndBy,      \* how a thread ends: subset of EndKinds
          Garbage     \* what childRegister, an int function with no return
                      \* statement, may hand back

EndKinds == {"return", "pthread_exit"}

ASSUME LibMyThreadAssumption ==
  /\ Creators \subseteq Procs
  /\ MaxLive \in Nat
  /\ EndBy \subseteq EndKinds
  /\ Garbage \subseteq Index

VARIABLES
  initialized,   \* bool initialized, cleared by the destructor
  globalIndex,   \* global_data->thread_index
  sharedIndex,   \* myrun::_thread_index
  tsIndex,       \* ThreadStatus::threadIndex of each thread
  creator,       \* who called pthread_create for a thread
  arg,           \* the thread a create or a join in progress is about
  joined,        \* threads some pthread_join has returned for
  how            \* how an ended process ended

vars == <<pc, idx, detVars, initialized, globalIndex, sharedIndex, tsIndex,
          creator, arg, joined, how>>
libVars == <<initialized, globalIndex, sharedIndex, tsIndex, creator, arg,
             joined, how>>

\* The indexes that children and handles carry name places of _entries, the
\* owner of the mutex is a process, and a create or join is about a thread
\* (mydeterm.h:68).
TypeOK ==
  /\ pc \in [Procs -> Labels]
  /\ idx \in [Procs -> Index]
  /\ owner \in Procs \cup {None}
  /\ childRegistered \in BOOLEAN
  /\ entry \in [Index -> Entries]
  /\ seenNext \in Link
  /\ initialized \in BOOLEAN
  /\ globalIndex \in 0 .. MAX_THREADS
  /\ sharedIndex \in Index
  /\ tsIndex \in [Threads -> Index]
  /\ creator \in [Threads -> Procs \cup {None}]
  /\ arg \in [Procs -> Threads \cup {None}]
  /\ \A p \in Procs : pc[p] \in Creating \cup Joining => arg[p] \in Threads
  /\ joined \subseteq Threads
  /\ how \in [Procs -> EndKinds \cup {"running"}]

\* The state the constructor of the library leaves behind in the first process.
Init ==
  /\ DetInit
  /\ pc = [p \in Procs |-> IF p = Main THEN "user" ELSE "none"]
  /\ idx = [p \in Procs |-> 0]
  /\ initialized = TRUE
  /\ globalIndex = 1
  /\ sharedIndex = 0
  /\ tsIndex = [t \in Threads |-> 0]
  /\ creator = [t \in Threads |-> None]
  /\ arg = [p \in Procs |-> None]
  /\ joined = {}
  /\ how = [p \in Procs |-> "running"]

-----------------------------------------------------------------------------
(* pthread_create *)

Outstanding(p) == {t \in Threads : creator[t] = p} \ joined

MayCreate(p, t) ==
  /\ pc[p] = "user"
  /\ p \in Creators
  /\ pc[t] = "none"
  /\ Cardinality(Outstanding(p)) < MaxLive

\* The ThreadStatus page is mapped and the child cloned; the parent goes on to
\* waitChildRegistered.
Spawn(p, t) ==
  /\ MayCreate(p, t)
  /\ initialized
  /\ creator' = [creator EXCEPT ![t] = p]
  /\ arg' = [arg EXCEPT ![p] = t]
  /\ pc' = [pc EXCEPT ![p] = "waitReg", ![t] = "born"]
  /\ UNCHANGED <<idx, detVars, initialized, globalIndex, sharedIndex, tsIndex,
                 joined, how>>

\* The wrapper answers 0 and has started nothing.
CreateDropped(p, t) ==
  /\ MayCreate(p, t)
  /\ ~initialized
  /\ creator' = [creator EXCEPT ![t] = p]
  /\ Goto(t, "dropped")
  /\ UNCHANGED <<idx, detVars, initialized, globalIndex, sharedIndex, tsIndex,
                 arg, joined, how>>

-----------------------------------------------------------------------------
(* The child's side of forkSpawn, and childRegister.  _lock_count,         *)
(* _children_threads_count, _tpid and _nestingLevel are written and never  *)
(* read.                                                                   *)

\* Fault: the child gets the new value of the counter, as the name says.
TakeNewIndex(p) ==
  /\ pc[p] = "born"
  /\ globalIndex < MAX_THREADS
  /\ idx' = [idx EXCEPT ![p] = globalIndex + 1]
  /\ globalIndex' = globalIndex + 1
  /\ Goto(p, "store")
  /\ UNCHANGED <<detVars, initialized, sharedIndex, tsIndex, creator, arg,
                 joined, how>>

\* atomic_increment_and_return hands back the old value.  MAX_THREADS bounds
\* the counter: the code has no check (its assertion is commented out).
TakeIndex(p) ==
  /\ pc[p] = "born"
  /\ globalIndex < MAX_THREADS
  /\ idx' = [idx EXCEPT ![p] = globalIndex]
  /\ globalIndex' = globalIndex + 1
  /\ Goto(p, "store")
  /\ UNCHANGED <<detVars, initialized, sharedIndex, tsIndex, creator, arg,
                 joined, how>>

StoreIndex(p) ==
  /\ pc[p] = "store"
  /\ sharedIndex' = idx[p]
  /\ Goto(p, "load")
  /\ UNCHANGED <<idx, detVars, initialized, globalIndex, tsIndex, creator, arg,
                 joined, how>>

LoadIndex(p) ==
  /\ pc[p] = "load"
  /\ idx' = [idx EXCEPT ![p] = sharedIndex]
  /\ Goto(p, "ctorPrev")
  /\ UNCHANGED <<detVars, initialized, globalIndex, sharedIndex, tsIndex,
                 creator, arg, joined, how>>

PublishIndex(p) ==
  /\ pc[p] = "publish"
  /\ \E g \in Garbage : /\ idx' = [idx EXCEPT ![p] = g]
                        /\ tsIndex' = [tsIndex EXCEPT ![p] = g]
  /\ Goto(p, "reset")
  /\ UNCHANGED <<detVars, initialized, globalIndex, sharedIndex, creator, arg,
                 joined, how>>

\* Fault: the counter is left as the other children advanced it.
KeepGlobalIndex(p) ==
  /\ pc[p] = "reset"
  /\ Goto(p, "notify")
  /\ UNCHANGED <<idx, detVars, initialized, globalIndex, sharedIndex, tsIndex,
                 creator, arg, joined, how>>

ResetGlobalIndex(p) ==
  /\ pc[p] = "reset"
  /\ globalIndex' = idx[p]
  /\ Goto(p, "notify")
  /\ UNCHANGED <<idx, detVars, initialized, sharedIndex, tsIndex, creator, arg,
                 joined, how>>

-----------------------------------------------------------------------------
(* pthread_join.  Only the creator joins: the ThreadStatus page is mapped  *)
(* in its processes.  The handle's index is read before the lock is taken. *)

MayJoin(p, t) ==
  /\ pc[p] = "user"
  /\ creator[t] = p
  /\ t \notin joined

JoinCall(p, t) ==
  /\ MayJoin(p, t)
  /\ initialized
  /\ idx' = [idx EXCEPT ![p] = tsIndex[t]]
  /\ arg' = [arg EXCEPT ![p] = t]
  /\ Goto(p, "join")
  /\ UNCHANGED <<detVars, initialized, globalIndex, sharedIndex, tsIndex,
                 creator, joined, how>>

JoinSkipped(p, t) ==
  /\ MayJoin(p, t)
  /\ ~initialized
  /\ joined' = joined \cup {t}
  /\ UNCHANGED <<pc, idx, detVars, initialized, globalIndex, sharedIndex,
                 tsIndex, creator, arg, how>>

JoinReturn(p) ==
  /\ JoinNoWait(p) \/ JoinWoken(p)
  /\ joined' = joined \cup {arg[p]}
  /\ UNCHANGED <<initialized, globalIndex, sharedIndex, tsIndex, creator, arg,
                 how>>

-----------------------------------------------------------------------------
(* The end of a process *)

\* The thread function returns; run_thread deletes the registration.
ReturnFromThread(p) ==
  /\ pc[p] = "user"
  /\ p \in Threads
  /\ "return" \in EndBy
  /\ how' = [how EXCEPT ![p] = "return"]
  /\ Goto(p, "delete")
  /\ UNCHANGED <<idx, detVars, initialized, globalIndex, sharedIndex, tsIndex,
                 creator, arg, joined>>

\* pthread_exit skips the deletion when the library counts as finalized.
PthreadExit(p) ==
  /\ pc[p] = "user"
  /\ "pthread_exit" \in EndBy
  /\ how' = [how EXCEPT ![p] = "pthread_exit"]
  /\ Goto(p, IF initialized THEN "delete" ELSE "exited")
  /\ UNCHANGED <<idx, detVars, initialized, globalIndex, sharedIndex, tsIndex,
                 creator, arg, joined>>

\* main returns: exit() runs the library's destructor and nothing else.
MainReturns ==
  /\ pc[Main] = "user"
  /\ "return" \in EndBy
  /\ how' = [how EXCEPT ![Main] = "return"]
  /\ initialized' = FALSE
  /\ Goto(Main, "exited")
  /\ UNCHANGED <<idx, detVars, globalIndex, sharedIndex, tsIndex, creator, arg,
                 joined>>

\* A thread that returned calls exit(0) and so runs the destructor finalize on
\* the shared flag; pthread_exit ends in _exit, which does not.
ExitProcess(p) ==
  /\ pc[p] = "deleted"
  /\ initialized' = (initialized /\ how[p] # "return")
  /\ Goto(p, "exited")
  /\ UNCHANGED <<idx, detVars, globalIndex, sharedIndex, tsIndex, creator, arg,
                 joined, how>>

-----------------------------------------------------------------------------

\* What the program decides
ClientStep(p) ==
  \/ \E t \in Threads : Spawn(p, t) \/ CreateDropped(p, t)
                          \/ JoinCall(p, t) \/ JoinSkipped(p, t)
  \/ ReturnFromThread(p)
  \/ PthreadExit(p)
  \/ p = Main /\ MainReturns

\* What the library then does
RegisterStep(p) ==
  \/ TakeIndex(p) \/ StoreIndex(p) \/ LoadIndex(p)
  \/ (CtorPrev(p) \/ CtorRest(p) \/ InsertEntry(p)) /\ UNCHANGED libVars
  \/ PublishIndex(p) \/ ResetGlobalIndex(p)
  \/ WaitParentNotify(p) /\ UNCHANGED libVars

CreateStep(p) ==
  (WaitChildRegistered(p) \/ ParentWoken(p)) /\ UNCHANGED libVars

JoinStep(p) ==
  \/ (JoinLock(p) \/ JoinWait(p)) /\ UNCHANGED libVars
  \/ JoinReturn(p)

DeleteStep(p) ==
  \/ (DeleteLock(p) \/ DeleteCompare(p) \/ DeleteFree(p)) /\ UNCHANGED libVars
  \/ ExitProcess(p)

LibraryStep(p) ==
  RegisterStep(p) \/ CreateStep(p) \/ JoinStep(p) \/ DeleteStep(p)

\* Every process that runs has ended; a process still inside the library
\* when nothing can move is a deadlock.
Terminated ==
  /\ \A p \in Procs : pc[p] \in {"none", "dropped", "exited"}
  /\ UNCHANGED vars

Next ==
  \/ \E p \in Procs : ClientStep(p) \/ LibraryStep(p)
                        \/ (SpuriousWakeup(p) /\ UNCHANGED libVars)
  \/ Terminated

Spec == Init /\ [][Next]_vars

\* Processes are scheduled by the kernel, so one that can take a step inside
\* the library eventually does.  The program need not create, join or end.
Fairness == \A p \in Procs : WF_vars(LibraryStep(p))

FairSpec == Spec /\ Fairness

-----------------------------------------------------------------------------
(* Properties *)

\* pthread_create has been called for t and is not under way any more.
Returned(t) ==
  /\ creator[t] # None
  /\ ~\E p \in Procs : pc[p] \in Creating /\ arg[p] = t

\* Once a create has returned, the child it is about has registered: what
\* waitChildRegistered (mydeterm.h:208) is there for.
SpawnReturnsRegistered ==
  \A t \in Threads : Returned(t) => pc[t] \notin Registering

\* Two children never register at the same time, which is what lets
\* registerThread (mydeterm.h:137) fill its entry without the lock.
OneRegistration ==
  \A t, u \in Threads : {pc[t], pc[u]} \subseteq Registering => t = u

\* How the handshake works when only main creates and no wakeup is spurious:
\* the one child that may be registering is the one main waits for, and the
\* flag is up exactly from that child's notification until main consumes it.
Handshake ==
  /\ pc[Main] \notin Registering
  /\ \A t \in Threads : pc[t] \notin Creating
  /\ \A t \in Threads : pc[t] \in Registering =>
       t = arg[Main] /\ pc[Main] \in {"waitReg", "cpWait"} /\ ~childRegistered
  /\ pc[Main] = "waitReg" => childRegistered \/ pc[arg[Main]] \in Registering
  /\ pc[Main] = "cpWait" => pc[arg[Main]] \in Registering
  /\ pc[Main] = "cpWoken" => childRegistered
  /\ childRegistered => pc[Main] \in {"waitReg", "cpWoken"}

\* A child that asks for an index gets one inside _entries; this is also why
\* the bound in TakeIndex never stops anybody (mydeterm.h:243).
IndexInBounds == \A t \in Threads : pc[t] = "born" => globalIndex < MAX_THREADS

\* deleteRegisterThread never walks into a half-built entry.
NoCrash == \A p \in Procs : pc[p] # "crashed"

\* A pthread_join that has returned was for a thread that has ended
\* (mythread.cpp:99, myrun.h:68).
JoinWaits == \A t \in joined : pc[t] \in Ended \cup {"dropped"}

\* A process asleep in join has somebody left to wake it: a thread that has
\* not broadcast on _cond_join yet (mydeterm.h:167).
NoStrandedJoin ==
  \A p \in Procs : pc[p] = "joinWait" =>
    \E q \in Procs \ {p} :
      pc[q] \in Registering \cup Creating \cup Joining \cup {"user", "delete"}

\* A parent in waitChildRegistered gets out of it (mydeterm.h:200).
CreateReturns ==
  \A p \in Procs : pc[p] \in Creating ~> pc[p] \notin Creating

\* When no thread function is running any more, every join gets to its end.
JoinReturns ==
  \A p \in Procs :
    (pc[p] \in Joining /\ \A t \in Threads : pc[t] \in Ended \cup {"none", "dropped"})
      ~> pc[p] \notin Joining

-----------------------------------------------------------------------------
(* The abstract specification *)

\* What a caller of the library can see: the lives of the threads, the handles
\* it has been given, and the threads it is joining.
Life(t) ==
  CASE pc[t] \in {"none", "dropped"} -> "none"
    [] pc[t] \in Registering -> "starting"
    [] pc[t] \in Ended -> "ended"
    [] OTHER -> "running"

Handles     == {t \in Threads : Returned(t)}
BeingJoined == {arg[p] : p \in {q \in Procs : pc[q] \in Joining}}

Promise == INSTANCE ForkJoin WITH
  th <- [t \in Threads |-> Life(t)], handle <- Handles, joining <- BeingJoined

\* Creating and joining behaves as ForkJoin says (mythread.cpp:99).
KeepsPromise == Promise!Spec

=============================================================================

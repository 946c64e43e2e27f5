------------------------------ MODULE MyDeterm ------------------------------
(***************************************************************************)
(* mydeterm.h: the shared page every process registers with.  It holds one *)
(* process-shared mutex, two condition variables, a "child registered"     *)
(* flag and an array of thread entries.                                    *)
(*                                                                         *)
(* The actions are the steps of registerThread, waitParentNotify,          *)
(* waitChildRegistered, join and deleteRegisterThread.  A stretch of code  *)
(* that holds the mutex is one action unless some access in it races with  *)
(* the unlocked constructor of registerThread; then it is cut at that      *)
(* access.  The condition variables are the sets of processes whose pc     *)
(* says they wait.                                                         *)
(***************************************************************************)
EXTENDS Naturals, FiniteSets

CONSTANTS Main,              \* the process that loaded the library
          Threads,           \* the processes pthread_create may start
          None,              \* no process
          MAX_THREADS,       \* length of _entries
          SpuriousWakeups    \* may pthread_cond_wait return unsignalled?

ASSUME MyDetermAssumption ==
  /\ Main \notin Threads
  /\ None \notin Threads \cup {Main}
  /\ IsFiniteSet(Threads)
  /\ MAX_THREADS \in Nat \ {0}
  /\ SpuriousWakeups \in BOOLEAN

Procs == Threads \cup {Main}
Index == 0 .. MAX_THREADS - 1

\* *(global_data->current_index): zeroed before any fork and never stored to
\* again, so it is 0 in every process.
CurrentIndex == 0

VARIABLES
  pc,               \* where each process is
  idx,              \* the index local of each process
  owner,            \* holder of _mutex
  childRegistered,  \* _childregistered
  entry,            \* _entries
  seenNext          \* entry->next as the lock holder has loaded it

detVars == <<owner, childRegistered, entry, seenNext>>

Registering == {"born", "store", "load", "ctorPrev", "ctorRest", "insert",
                "publish", "reset", "notify"}
Creating    == {"waitReg", "cpWait", "cpWoken"}
Joining     == {"join", "joinCheck", "joinWait", "joinWoken"}
Ended       == {"delete", "delPrev", "delFree", "deleted", "exited", "crashed"}
Labels      == Registering \cup Creating \cup Joining \cup Ended
                 \cup {"none", "dropped", "user"}

Link    == {"NULL", "SELF"}
Status  == {"COND_WAITING", "READY", "EXIT", "JOINING"}
Entries == [prev : Link, next : Link, status : Status]

\* The page is fresh anonymous memory, so every entry starts all zero.
DetInit ==
  /\ owner = None
  /\ childRegistered = FALSE
  /\ entry = [i \in Index |->
                [prev |-> "NULL", next |-> "NULL", status |-> "COND_WAITING"]]
  /\ seenNext = "NULL"

Goto(p, label) == pc' = [pc EXCEPT ![p] = label]

-----------------------------------------------------------------------------
(* registerThread(threadindex): the placement new and the status store run *)
(* before lock().  tid, threadindex, wait and tid_parent are never read.   *)

CtorPrev(p) ==
  /\ pc[p] = "ctorPrev"
  /\ entry' = [entry EXCEPT ![idx[p]].prev = "NULL"]
  /\ Goto(p, "ctorRest")
  /\ UNCHANGED <<idx, owner, childRegistered, seenNext>>

\* Fault: an entry is used again with the status it had.
CtorKeepsStatus(p) ==
  /\ pc[p] = "ctorRest"
  /\ entry' = [entry EXCEPT ![idx[p]].next = "NULL"]
  /\ Goto(p, "insert")
  /\ UNCHANGED <<idx, owner, childRegistered, seenNext>>

CtorRest(p) ==
  /\ pc[p] = "ctorRest"
  /\ entry' = [entry EXCEPT ![idx[p]].next = "NULL", ![idx[p]].status = "READY"]
  /\ Goto(p, "insert")
  /\ UNCHANGED <<idx, owner, childRegistered, seenNext>>

\* listInsertTail gets _activeList by value; it is NULL and stays NULL, so the
\* entry is linked to itself only.
ListInsertTail(i) == entry' = [entry EXCEPT ![i].next = "SELF", ![i].prev = "SELF"]

InsertEntry(p) ==
  /\ pc[p] = "insert"
  /\ owner = None
  /\ ListInsertTail(idx[p])
  /\ Goto(p, "publish")
  /\ UNCHANGED <<idx, owner, childRegistered, seenNext>>

-----------------------------------------------------------------------------
(* The creation handshake on _cond_parent and _childregistered.            *)

ParentWaiters == {q \in Procs : pc[q] = "cpWait"}

\* Fault: the flag is stored and nobody is signalled.
SignalNobody(p) == Goto(p, "user")

\* pthread_cond_signal wakes one waiter if there is one.
SignalParent(p) ==
  \/ /\ ParentWaiters = {}
     /\ Goto(p, "user")
  \/ \E w \in ParentWaiters : pc' = [pc EXCEPT ![w] = "cpWoken", ![p] = "user"]

WaitParentNotify(p) ==
  /\ pc[p] = "notify"
  /\ owner = None
  /\ childRegistered' = TRUE
  /\ SignalParent(p)
  /\ UNCHANGED <<idx, owner, entry, seenNext>>

\* Fault: the flag stays up for the next create.
KeepFlag == UNCHANGED childRegistered

ResetFlag == childRegistered' = FALSE

\* Fault: the parent goes on whatever the flag says.
NeverWaitRegistered(p) ==
  /\ pc[p] = "waitReg"
  /\ owner = None
  /\ ResetFlag
  /\ Goto(p, "user")
  /\ UNCHANGED <<idx, owner, entry, seenNext>>

WaitChildRegistered(p) ==
  /\ pc[p] = "waitReg"
  /\ owner = None
  /\ IF childRegistered
       THEN ResetFlag /\ Goto(p, "user")
       ELSE UNCHANGED childRegistered /\ Goto(p, "cpWait")
  /\ UNCHANGED <<idx, owner, entry, seenNext>>

\* An `if` guards the wait: the flag is not read again.
ParentWoken(p) ==
  /\ pc[p] = "cpWoken"
  /\ owner = None
  /\ ResetFlag
  /\ Goto(p, "user")
  /\ UNCHANGED <<idx, owner, entry, seenNext>>

-----------------------------------------------------------------------------
(* join(guestindex, myindex): idx[p] is the guest's index.                 *)

\* myentry->status = STATUS_JOINING, unless the joinee has exited.
MarkJoining(p) ==
  entry' = IF entry[idx[p]].status # "EXIT"
             THEN [entry EXCEPT ![CurrentIndex].status = "JOINING"]
             ELSE entry

JoinLock(p) ==
  /\ pc[p] = "join"
  /\ owner = None
  /\ owner' = p
  /\ MarkJoining(p)
  /\ Goto(p, "joinCheck")
  /\ UNCHANGED <<idx, childRegistered, seenNext>>

\* Fault: join takes every thread for exited.
NeverMustWait(p) == FALSE

MustWait(p) == entry[idx[p]].status # "EXIT"

JoinWait(p) ==
  /\ pc[p] = "joinCheck"
  /\ MustWait(p)
  /\ owner' = None
  /\ Goto(p, "joinWait")
  /\ UNCHANGED <<idx, childRegistered, entry, seenNext>>

JoinNoWait(p) ==
  /\ pc[p] = "joinCheck"
  /\ ~MustWait(p)
  /\ owner' = None
  /\ Goto(p, "user")
  /\ UNCHANGED <<idx, childRegistered, entry, seenNext>>

\* The second wait is an `if` too: whoever broadcast, the join is over.
JoinWoken(p) ==
  /\ pc[p] = "joinWoken"
  /\ owner = None
  /\ Goto(p, "user")
  /\ UNCHANGED <<idx, detVars>>

SpuriousWakeup(p) ==
  /\ SpuriousWakeups
  /\ \/ pc[p] = "cpWait"   /\ Goto(p, "cpWoken")
     \/ pc[p] = "joinWait" /\ Goto(p, "joinWoken")
  /\ UNCHANGED <<idx, detVars>>

-----------------------------------------------------------------------------
(* deleteRegisterThread(threadindex): _alivethreads is always 0, parent is *)
(* computed and not used.                                                  *)

\* Fault: the deletion broadcasts to nobody.
WakeNobody == pc

\* pthread_cond_broadcast(&_cond_join)
WakeJoiners ==
  [q \in Procs |-> IF pc[q] = "joinWait" THEN "joinWoken" ELSE pc[q]]

DeleteLock(p) ==
  /\ pc[p] = "delete"
  /\ owner = None
  /\ owner' = p
  /\ seenNext' = entry[CurrentIndex].next
  /\ pc' = [WakeJoiners EXCEPT ![p] = "delPrev"]
  /\ UNCHANGED <<idx, childRegistered, entry>>

\* entry->next == entry->prev; the two loads straddle the racing constructor.
\* When they differ listRemoveNode follows a NULL link: the process dies with
\* the mutex held.
DeleteCompare(p) ==
  /\ pc[p] = "delPrev"
  /\ Goto(p, IF seenNext = entry[CurrentIndex].prev THEN "delFree" ELSE "crashed")
  /\ UNCHANGED <<idx, detVars>>

\* Fault: the status does not become EXIT.
FreeNothing == UNCHANGED entry

FreeThreadEntry == entry' = [entry EXCEPT ![CurrentIndex].status = "EXIT"]

DeleteFree(p) ==
  /\ pc[p] = "delFree"
  /\ FreeThreadEntry
  /\ owner' = None
  /\ Goto(p, "deleted")
  /\ UNCHANGED <<idx, childRegistered, seenNext>>

=============================================================================

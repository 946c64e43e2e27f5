------------------------------ MODULE ForkJoin ------------------------------
(***************************************************************************)
(* What creating and joining threads promises, with no processes, shared   *)
(* pages or locks in sight.                                                *)
(*                                                                         *)
(*   - a thread starts at most once and ends at most once;                 *)
(*   - a create hands out the handle of a thread that has started;         *)
(*   - a join is called with a handle and returns only when the thread has *)
(*     ended, and then it does return.                                     *)
(***************************************************************************)
CONSTANT Threads

VARIABLES
  th,        \* the life of each thread
  handle,    \* threads whose create has returned
  joining,   \* threads a join is waiting for
  joined     \* threads a join has returned for

fjVars == <<th, handle, joining, joined>>

Life == {"none", "starting", "running", "ended"}

Init ==
  /\ th = [t \in Threads |-> "none"]
  /\ handle = {}
  /\ joining = {}
  /\ joined = {}

Create(t) ==
  /\ th[t] = "none"
  /\ th' = [th EXCEPT ![t] = "starting"]
  /\ UNCHANGED <<handle, joining, joined>>

Start(t) ==
  /\ th[t] = "starting"
  /\ th' = [th EXCEPT ![t] = "running"]
  /\ UNCHANGED <<handle, joining, joined>>

CreateReturn(t) ==
  /\ th[t] \in {"running", "ended"}
  /\ t \notin handle
  /\ handle' = handle \cup {t}
  /\ UNCHANGED <<th, joining, joined>>

End(t) ==
  /\ th[t] = "running"
  /\ th' = [th EXCEPT ![t] = "ended"]
  /\ UNCHANGED <<handle, joining, joined>>

JoinCall(t) ==
  /\ t \in handle \ (joining \cup joined)
  /\ joining' = joining \cup {t}
  /\ UNCHANGED <<th, handle, joined>>

JoinReturn(t) ==
  /\ t \in joining
  /\ th[t] = "ended"
  /\ joining' = joining \ {t}
  /\ joined' = joined \cup {t}
  /\ UNCHANGED <<th, handle>>

\* A join of a thread that has ended need not block.
JoinAtOnce(t) ==
  /\ t \in handle \ (joining \cup joined)
  /\ th[t] = "ended"
  /\ joined' = joined \cup {t}
  /\ UNCHANGED <<th, handle, joining>>

Next == \E t \in Threads :
  \/ Create(t) \/ Start(t) \/ CreateReturn(t) \/ End(t)
  \/ JoinCall(t) \/ JoinReturn(t) \/ JoinAtOnce(t)

Fairness == \A t \in Threads :
  WF_fjVars(Start(t)) /\ WF_fjVars(CreateReturn(t)) /\ WF_fjVars(JoinReturn(t))

Spec == Init /\ [][Next]_fjVars /\ Fairness

=============================================================================

---------------------------- MODULE ThreadMemory ----------------------------
(***************************************************************************)
(* What processes that stand in for threads promise about memory: one copy *)
(* of every global for all of them, and a stack for each.                  *)
(***************************************************************************)
CONSTANTS Procs, Main,
          Globals,   \* what all threads share
          Stack,     \* what each has for itself
          Start      \* contents when the program starts

VARIABLES alive,     \* threads there are
          view       \* what each of them reads

Init ==
  /\ alive = {Main}
  /\ view = [p \in {Main} |-> Start]

\* A store to a global is seen by all, a store to the stack by its owner.
Store(p, a, v) ==
  /\ view' = [q \in alive |->
                IF a \in Globals \/ q = p THEN [view[q] EXCEPT ![a] = v] ELSE view[q]]
  /\ UNCHANGED alive

\* A new thread starts with its creator's memory.
Begin(p, c) ==
  /\ c \notin alive
  /\ alive' = alive \cup {c}
  /\ view' = [q \in alive' |-> IF q = c THEN view[p] ELSE view[q]]

Finish(p) ==
  /\ alive' = alive \ {p}
  /\ view' = [q \in alive' |-> view[q]]

\* A thread stores its name.
Next == \E p \in alive :
  \/ \E a \in Globals \cup {Stack} : Store(p, a, p)
  \/ \E c \in Procs : Begin(p, c)
  \/ Finish(p)

Spec == Init /\ [][Next]_<<alive, view>>

=============================================================================

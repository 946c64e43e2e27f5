------------------------------ MODULE Kingsley ------------------------------
(***************************************************************************)
(* How a request becomes a block: the rounding of malloc and ANSIWrapper,  *)
(* the power-of-two size classes of kingsleyheap.h and the bins of         *)
(* StrictSegHeap.  Sizes are in bytes; a size_t is 8 bytes.  The loops are *)
(* recursive functions.                                                    *)
(***************************************************************************)
EXTENDS Naturals

CONSTANTS NUMBINS,   \* bins of a heap
          MaxSize    \* bound: the largest request considered

ASSUME KingsleyAssumption ==
  /\ NUMBINS \in Nat \ {0}
  /\ MaxSize \in Nat

\* Rounded requests
Sizes == 0 .. 2 * MaxSize + 256

\* 1UL << n
ShiftedOne[n \in Nat] == IF n = 0 THEN 1 ELSE 2 * ShiftedOne[n - 1]

class2Size(i) == ShiftedOne[i + 3]

\* cl, from index 0 on
cl == [i \in 0 .. 15 |->
         CASE i = 0 -> 0 [] i = 1 -> 1 [] i \in 2 .. 3 -> 2
           [] i \in 4 .. 7 -> 3 [] OTHER -> 4]

\* How often the loop halves sz1 until it is at most 7
Halvings[sz1 \in Sizes] == IF sz1 > 7 THEN 1 + Halvings[sz1 \div 2] ELSE 0

\* Fault: the loop stops a step early.
ShortHalvings[sz1 \in Sizes] ==
  IF sz1 > 15 THEN 1 + ShortHalvings[sz1 \div 2] ELSE 0

\* Fault: the size itself is shifted where sz - 1 should be.
size2ClassShift(sz) ==
  IF sz < 128 THEN cl[sz \div 8] ELSE 5 + Halvings[sz \div 32]

\* Fault
size2ClassShort(sz) ==
  IF sz <= 8 THEN 0
  ELSE IF sz <= 128 THEN cl[(sz - 1) \div 8]
  ELSE 5 + ShortHalvings[(sz - 1) \div 32]

size2Class(sz) ==
  IF sz <= 8 THEN 0
  ELSE IF sz <= 128 THEN cl[(sz - 1) \div 8]
  ELSE 5 + Halvings[(sz - 1) \div 32]

maxObjectSize == class2Size(NUMBINS - 1)

Align(sz) == 8 * ((sz + 7) \div 8)

\* What StrictSegHeap is asked for when the program asks for sz
Rounded(sz) == Align(IF sz < 16 THEN 16 ELSE sz)

\* The number of the big heap, after the bins
Big == NUMBINS

\* The bin a request is served from, and the size the header of a new block
\* names
MallocBin(sz) == IF Rounded(sz) <= maxObjectSize THEN size2Class(Rounded(sz)) ELSE Big
BlockSize(sz) ==
  IF MallocBin(sz) = Big THEN Rounded(sz) ELSE class2Size(MallocBin(sz))

\* free steps down while the class is larger than the object.
StepDown(size) ==
  LET from[c \in 0 .. NUMBINS - 1] == IF class2Size(c) > size THEN from[c - 1] ELSE c
  IN  from[size2Class(size)]

FreeBin(size) == IF size > maxObjectSize THEN Big ELSE StepDown(size)

=============================================================================

------------------------------ MODULE Requests ------------------------------
(***************************************************************************)
(* What becomes of the number a program passes to malloc, calloc, realloc  *)
(* or memalign, in machine integers: a size_t wraps at Word, an int at     *)
(* IntWord and is negative from the half on (the build does not trap).     *)
(***************************************************************************)
EXTENDS Kingsley, Integers

CONSTANTS
  Word, IntWord,
  InitialMallocSize,   \* bytes of the buffer of tempmalloc
  HeaderSize,          \* sizeof(objectHeader)
  ArenaHeader,         \* sizeof(Arena)
  ChunkSize,           \* PHEAP_CHUNK
  PageSize

\* Every size is considered; a size_t has room for the largest class and for a chunk
\* with what comes on top of them.
ASSUME RequestsAssumption ==
  /\ {Word, IntWord, PageSize} \subseteq Nat \ {0}
  /\ {HeaderSize, ArenaHeader, ChunkSize, InitialMallocSize} \subseteq Nat
  /\ Word % PageSize = 0 /\ Word % IntWord = 0 /\ PageSize % 16 = 0
  /\ InitialMallocSize >= 16 /\ InitialMallocSize * 4 = IntWord
  /\ Word <= MaxSize + 1
  /\ maxObjectSize + ArenaHeader + HeaderSize + PageSize + 32 <= Word
  /\ ArenaHeader + ChunkSize + PageSize <= Word

Wrap(n) == n % Word
ToInt(n) == LET low == n % IntWord IN IF low >= IntWord \div 2 THEN low - IntWord ELSE low

\* alignup, aligndown and the same masks written out in malloc
AlignDown(n, to) == n - (n % to)
AlignUp(n, to) == AlignDown(Wrap(n + to - 1), to)

-----------------------------------------------------------------------------
(* Before the library is initialized *)

\* The size malloc passes to tempmalloc
TempRequest(sz) == AlignUp(IF sz < 16 THEN 16 ELSE sz, 16)

\* _allocated + size > InitialMallocSize, in ints
TempRefuses(allocated, size) == ToInt(allocated + size) > InitialMallocSize

\* The block of buf tempmalloc returns, when it does not abort
TempBlock(allocated, size) == allocated .. allocated + size - 1

-----------------------------------------------------------------------------
(* Afterwards *)

\* ANSIWrapper, with wrapping
Asked(sz) == AlignUp(IF sz < 16 THEN 16 ELSE sz, 8)

\* Bytes an object has: those of its size class, or what was asked for
Usable(sz) == IF Asked(sz) <= maxObjectSize THEN class2Size(size2Class(Asked(sz))) ELSE Asked(sz)

\* Fault: no room for the header
ZoneSizeBare(sz) == AlignUp(Usable(sz), 8)

\* AdaptAppHeap and ZoneHeap::align
ZoneSize(sz) == AlignUp(Wrap(Usable(sz) + HeaderSize), 8)

\* What slowMalloc asks of the source heap, and the pages that gives
ArenaRequest(sz) == Wrap(ArenaHeader + (IF ChunkSize < ZoneSize(sz) THEN ZoneSize(sz) ELSE ChunkSize))
PagesTaken(sz) == PageSize * (Wrap(ArenaRequest(sz) + PageSize - 1) \div PageSize)

\* calloc allocates and clears the product, as it wraps.
CallocAsks(nmemb, sz) == Wrap(nmemb * sz)
CallocClears(nmemb, sz) == Wrap(sz * nmemb)

\* realloc copies the smaller of the two sizes.
CopySize(s, sz) == IF s < sz THEN s ELSE sz

\* memalign asks for the boundary too, and returns the block as it comes.
MemalignAsks(boundary, size) == Wrap(boundary + size)

=============================================================================

------------------------------ MODULE Regions -------------------------------
(***************************************************************************)
(* Parts of Heap Layers that hand out ranges.                              *)
(*                                                                         *)
(*   chunkheap  ChunkHeap: cuts requests from chunks of the heap below,    *)
(*              and goes on in the old chunk when the new one follows it;  *)
(*   bits       BitString: finds a run of free bits at an aligned place;   *)
(*   mmap       MmapHeap: mmap, with the size of each block in a MyHashMap *)
(*              under a lock, called by several threads.                   *)
(*                                                                         *)
(* A range is <<first, length>>; used are the ranges the program has.      *)
(***************************************************************************)
EXTENDS Naturals, Sequences, FiniteSets, SequencesExt, FiniteSetsExt, Layer

CONSTANTS ChunkUnits,     \* ChunkSize
          MemoryUnits,    \* addresses 1 .. MemoryUnits below ChunkHeap
          NumBits,        \* N of BitString, a multiple of WordBits here
          WordBits,       \* BITS_PER_ULONG
          NumBins,        \* bins of MyHashMap
          Pages,          \* what mmap can give: 1 .. Pages
          Mappers         \* threads that call MmapHeap

Units(r) == r[1] .. r[1] + r[2] - 1

(***************************************************************************)
(* ChunkHeap.  A new chunk lies right behind the last one, or leaves a     *)
(* gap; top is the first address not yet given.                            *)
(***************************************************************************)
ChunkHeapInit ==
  h = [kind |-> "chunkheap", buffer |-> 0, eob |-> 0, top |-> 1, given |-> {}, used |-> {}]

ChunkRounded(sz) == ((sz - 1) \div ChunkUnits + 1) * ChunkUnits
ChunkHeapMalloc(sz) ==
  /\ h.buffer + sz <= h.eob
  /\ h' = [h EXCEPT !.buffer = @ + sz, !.used = @ \cup {<<h.buffer, sz>>}]
Follow(eob, buf, buffer, size) ==
  IF eob = buf THEN [buffer |-> buffer, size |-> size + eob - buffer]
  ELSE [buffer |-> buf, size |-> size]
GetMoreMemory(sz, gap) ==
  LET buf == h.top + gap
      f == Follow(h.eob, buf, h.buffer, ChunkRounded(sz))
  IN  /\ h.buffer + sz > h.eob
      /\ buf + ChunkRounded(sz) <= MemoryUnits + 1
      /\ h' = [h EXCEPT !.buffer = f.buffer + sz, !.eob = f.buffer + f.size,
                        !.top = buf + ChunkRounded(sz), !.used = @ \cup {<<f.buffer, sz>>},
                        !.given = @ \cup Units(<<buf, ChunkRounded(sz)>>)]
ChunkHeapClear ==
  h.used # {} /\ h' = [h EXCEPT !.buffer = 0, !.eob = 0, !.used = {}]

\* Ranges are apart and lie in memory that was given, and so does the rest of
\* the buffer, which is behind all of them.
ChunkHeapWhole ==
  /\ \A r, s \in h.used : r # s => Units(r) \cap Units(s) = {}
  /\ UNION {Units(r) : r \in h.used} \subseteq h.given
  /\ h.buffer < h.eob =>
       /\ h.buffer .. h.eob - 1 \subseteq h.given
       /\ \A r \in h.used : Units(r) \cap (h.buffer .. h.eob - 1) = {}

(***************************************************************************)
(* BitString.  A bit that is set is allocated, and all are set at first.   *)
(* allocate looks from firstPos, which stays 0; a look past the last bit   *)
(* fails an assertion.                                                     *)
(***************************************************************************)
BitPositions == 0 .. NumBits - 1
BitsInit ==
  h = [kind |-> "bits", set |-> BitPositions, used |-> {<<0, NumBits>>}, dead |-> FALSE,
       last |-> [pos |-> 0, first |-> 0]]

AlignBit(p, a) == ((p + a - 1) \div a) * a
WordOf(p) == {b \in BitPositions : b \div WordBits = p \div WordBits}
\* The first j with bit p + j set, or past the end, or len if there is none.
Stuck(set, p, len) == {j \in 0 .. len - 1 : p + j \in set \/ p + j >= NumBits}
\* One turn of the search at p: found, aborted, or the next place.
Probe(set, p, len, a) ==
  IF WordOf(p) \subseteq set
  THEN AlignBit((p \div WordBits + 1) * WordBits, a)
  ELSE IF p \in set THEN p + a
  ELSE AlignBit(p + Min(Stuck(set, p, len)), a)
NotFound == NumBits
Aborts == NumBits + 1
Search(set, len, a) ==
  LET at[p \in Nat] ==
        IF p >= NumBits THEN NotFound
        ELSE IF Stuck(set, p, len) = {} THEN p
        ELSE IF ~(WordOf(p) \subseteq set) /\ p \notin set
                /\ p + Min(Stuck(set, p, len)) >= NumBits
        THEN Aborts
        ELSE at[Probe(set, p, len, a)]
  IN  at[0]

FreeRuns(len, a) ==
  {p \in BitPositions : p % a = 0 /\ p + len <= NumBits /\ Units(<<p, len>>) \cap h.set = {}}
Allocate(len, a) ==
  LET p == Search(h.set, len, a)
      first == Min(FreeRuns(len, a) \cup {NotFound})
      found == <<p, len>>
  IN  /\ ~h.dead
      /\ \/ /\ p < NotFound
            /\ h' = [h EXCEPT !.set = @ \cup Units(found), !.used = @ \cup {found},
                              !.last = [pos |-> p, first |-> first]]
         \/ /\ p >= NotFound
            /\ h' = [h EXCEPT !.dead = p = Aborts, !.last = [pos |-> NotFound, first |-> first]]
FreeBits(r, n) ==
  /\ ~h.dead
  /\ h' = [h EXCEPT !.set = @ \ Units(<<r[1], n>>), !.last = [pos |-> 0, first |-> 0],
                    !.used = (@ \ {r}) \cup
                             (IF n < r[2] THEN {<<r[1] + n, r[2] - n>>} ELSE {})]

\* The bits set are those of the ranges in use, which are apart; and the
\* search finds the lowest aligned place with enough free bits, or none only
\* when there is none, although it skips words and short runs.
BitsWhole ==
  /\ h.set = UNION {Units(r) : r \in h.used}
  /\ \A r, s \in h.used : r # s => Units(r) \cap Units(s) = {}
  /\ h.last.pos = h.last.first

(***************************************************************************)
(* MmapHeap.  A bin of MyHashMap is a sequence of <<key, value>>.          *)
(* mapped[p] is the length of what mmap has at page p, 0 if nothing.       *)
(***************************************************************************)
BinOf(k) == k % NumBins
BinsInit == [b \in 0 .. NumBins - 1 |-> << >>]
Index(bin, k) == {i \in DOMAIN bin : bin[i][1] = k}
Set(bins, k, v) ==
  LET b == BinOf(k) IN
  IF Index(bins[b], k) # {}
  THEN [bins EXCEPT ![b][Min(Index(bins[b], k))] = <<k, v>>]
  ELSE [bins EXCEPT ![b] = <<<<k, v>>>> \o @]
Get(bins, k) ==
  LET bin == bins[BinOf(k)] IN
  IF Index(bin, k) = {} THEN 0 ELSE bin[Min(Index(bin, k))][2]
Erase(bins, k) ==
  LET bin == bins[BinOf(k)] IN
  IF Index(bin, k) = {} THEN bins
  ELSE [bins EXCEPT ![BinOf(k)] = RemoveAt(@, Min(Index(bin, k)))]

Resting == [do |-> "rest"]
MmapInit ==
  h = [kind |-> "mmap", mapped |-> [p \in 1 .. Pages |-> 0], bins |-> BinsInit, lock |-> FALSE,
       used |-> {}, at |-> [t \in Mappers |-> Resting]]

FreePages == {p \in 1 .. Pages : \A q \in 1 .. Pages : p \notin Units(<<q, h.mapped[q]>>)}
Mmap(t, p, sz) ==
  /\ h.at[t] = Resting /\ Units(<<p, sz>>) \subseteq FreePages
  /\ h' = [h EXCEPT !.mapped[p] = sz, !.at[t] = [do |-> "set", page |-> p, size |-> sz]]
\* A mutant: the size is stored without the lock.
MmapSetUnlocked(t) ==
  LET a == h.at[t] IN
  /\ a.do = "set"
  /\ h' = [h EXCEPT !.bins = Set(@, a.page, a.size), !.at[t] = Resting,
                    !.used = @ \cup {<<a.page, a.size>>}]
MmapSet(t) ==
  LET a == h.at[t] IN
  /\ a.do = "set" /\ ~h.lock
  /\ h' = [h EXCEPT !.bins = Set(@, a.page, a.size), !.at[t] = Resting,
                    !.used = @ \cup {<<a.page, a.size>>}]
\* free looks the size up and unmaps that much, ...
Munmap(t, r) ==
  LET sz == Get(h.bins, r[1]) IN
  /\ h.at[t] = Resting /\ ~h.lock
  /\ h' = [h EXCEPT !.lock = TRUE, !.used = @ \ {r},
                    !.mapped[r[1]] = IF sz = r[2] THEN 0 ELSE r[2],
                    !.at[t] = [do |-> "erase", page |-> r[1]]]
\* ... and only then takes the block out of the map, still under the lock.
MmapErase(t) ==
  /\ h.at[t].do = "erase"
  /\ h' = [h EXCEPT !.bins = Erase(@, h.at[t].page), !.lock = FALSE, !.at[t] = Resting]

\* The size of each block in use is on record, once, although an address that
\* free has unmapped and not yet erased may be mapped again by another thread;
\* and nothing stays mapped that nobody has.
MmapWhole ==
  LET setting == {<<h.at[t].page, h.at[t].size>> : t \in {u \in Mappers : h.at[u].do = "set"}}
  IN  /\ \A r \in h.used : Get(h.bins, r[1]) = r[2]
      /\ \A b \in DOMAIN h.bins : IsInjective([i \in DOMAIN h.bins[b] |-> h.bins[b][i][1]])
      /\ {<<p, h.mapped[p]>> : p \in {q \in 1 .. Pages : h.mapped[q] # 0}}
           = h.used \cup setting

RegionsInit == ChunkHeapInit \/ BitsInit \/ MmapInit
RegionsNext ==
  \/ /\ h.kind = "chunkheap"
     /\ \/ \E sz \in 1 .. ChunkUnits + 1 :
             ChunkHeapMalloc(sz) \/ \E gap \in {0, 1} : GetMoreMemory(sz, gap)
        \/ ChunkHeapClear
  \/ /\ h.kind = "bits"
     /\ \/ \E len \in 1 .. WordBits, a \in {1, 2, 3} : Allocate(len, a)
        \/ \E r \in h.used : \E n \in 1 .. r[2] : FreeBits(r, n)
  \/ /\ h.kind = "mmap"
     /\ \E t \in Mappers :
          \/ \E p \in 1 .. Pages, sz \in {1, 2} : Mmap(t, p, sz)
          \/ MmapSet(t) \/ MmapErase(t)
          \/ \E r \in h.used : Munmap(t, r)
RegionKinds == {"chunkheap", "bits", "mmap"}

RegionsWhole ==
  CASE h.kind = "chunkheap" -> ChunkHeapWhole
    [] h.kind = "bits" -> BitsWhole
    [] h.kind = "mmap" -> MmapWhole
    [] OTHER -> TRUE
=============================================================================

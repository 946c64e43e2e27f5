----------------------------- MODULE SlotHeaps ------------------------------
(***************************************************************************)
(* Heaps that cut chunks into slots of one size (heaplayers/experimental). *)
(*                                                                         *)
(*   slots    Chunk under LazySlotHeap, StrictSlotHeap (and its copy       *)
(*            EmptyChunkHeap) or SlotHeap, by policy;                      *)
(*   loose    BigChunk under LooseSlotHeap over TopSlotHeap, chunks sorted *)
(*            by how full they are;                                        *)
(*   aligned  AlignedChunk under AlignedSlotHeap over AlignedChunkHeap;    *)
(*   bitmap   one AlignedChunk that threads use without a lock.            *)
(*                                                                         *)
(* A slot is <<chunk, index>>; used are the slots the program holds, and   *)
(* chunk[c].made says that c is cut out of the memory below.  A failed     *)
(* assertion makes the heap dead.                                          *)
(***************************************************************************)
EXTENDS Naturals, Sequences, FiniteSets, SequencesExt, FiniteSetsExt, Layer

CONSTANTS NumChunks,      \* chunks the memory below can give
          LooseChunks,    \* the same for LooseSlotHeap
          NumSlots,       \* getNumSlots()
          EmptyFraction,  \* classes of fullness of LooseSlotHeap
          Slack,          \* 2 * chunkSize / slotSize, more than 2 * NumSlots
          MaxFree,        \* AlignedChunkHeap keeps MaxFree + 1 chunks
          Threads,        \* who share a chunk
          NoChunk         \* NULL

ASSUME SlotHeapsAssumption ==
  /\ NumChunks \in Nat \ {0} /\ NumSlots \in Nat \ {0} /\ EmptyFraction \in Nat \ {0}
  /\ LooseChunks \in Nat /\ Slack \in Nat /\ MaxFree \in Nat
  /\ NoChunk \notin 1 .. NumChunks

ChunkIds == 1 .. NumChunks
SlotIds == 1 .. NumSlots
Unmade == {c \in ChunkIds : ~h.chunk[c].made}

(***************************************************************************)
(* Chunk: a stack of free slots, built from the first slot to the last,    *)
(* and a count.                                                            *)
(***************************************************************************)
NewChunk == [made |-> TRUE, free |-> [i \in SlotIds |-> NumSlots + 1 - i],
             avail |-> NumSlots]
NoMemory == [made |-> FALSE, free |-> << >>, avail |-> 0]
GetSlot(ch) == [ch EXCEPT !.free = Tail(@), !.avail = @ - 1]
PutSlot(ch, i) == [ch EXCEPT !.free = <<i>> \o @, !.avail = @ + 1]

Take(c) ==
  h' = [h EXCEPT !.chunk[c] = GetSlot(h.chunk[c]), !.mine = c,
                 !.used = @ \cup {<<c, Head(h.chunk[c].free)>>}]

SlotsInit ==
  \E policy \in {"lazy", "strict", "own"} :
    h = [kind |-> "slots", policy |-> policy, mine |-> 1, used |-> {},
         chunk |-> [c \in ChunkIds |-> IF c = 1 THEN NewChunk ELSE NoMemory]]

\* malloc: the current chunk is used up before there is another.
SlotMalloc ==
  \/ h.chunk[h.mine].free # << >> /\ Take(h.mine)
  \/ /\ h.chunk[h.mine].free = << >>
     /\ \E c \in Unmade :
          h' = [h EXCEPT !.chunk[c] = GetSlot(NewChunk), !.mine = c,
                         !.used = @ \cup {<<c, Head(NewChunk.free)>>}]

\* free of LazySlotHeap: an empty chunk goes back unless it is the current one.
Empty(ch) == ch.avail = NumSlots
LazyFree(c, i) ==
  LET ch == PutSlot(h.chunk[c], i)
  IN  /\ h.policy = "lazy"
      /\ h' = [h EXCEPT !.used = @ \ {<<c, i>>},
                        !.chunk[c] = IF c # h.mine /\ Empty(ch) THEN NoMemory ELSE ch]
\* free of StrictSlotHeap: any empty chunk goes back, after another was made
\* if it was the current one.
StrictFree(c, i) ==
  LET ch == PutSlot(h.chunk[c], i)
  IN  /\ h.policy = "strict"
      /\ IF ~Empty(ch)
         THEN h' = [h EXCEPT !.used = @ \ {<<c, i>>}, !.chunk[c] = ch]
         ELSE IF c # h.mine
         THEN h' = [h EXCEPT !.used = @ \ {<<c, i>>}, !.chunk[c] = NoMemory]
         ELSE \E d \in Unmade :
                h' = [h EXCEPT !.used = @ \ {<<c, i>>}, !.mine = d,
                               !.chunk = [@ EXCEPT ![c] = NoMemory, ![d] = NewChunk]]
\* free of SlotHeap: a slot of another chunk is passed up, and lost to its chunk.
OwnFree(c, i) ==
  /\ h.policy = "own"
  /\ h' = [h EXCEPT !.used = @ \ {<<c, i>>},
                    !.chunk[c] = IF c = h.mine THEN PutSlot(@, i) ELSE @]

SlotsNext ==
  \/ SlotMalloc
  \/ \E s \in h.used : LazyFree(s[1], s[2]) \/ StrictFree(s[1], s[2]) \/ OwnFree(s[1], s[2])

\* The stack of a chunk and its count agree, a slot is never both in use and
\* free, and a chunk with a slot in use is not given back.
SlotsWhole ==
  \A c \in ChunkIds :
    LET ch == h.chunk[c] IN
    /\ ch.avail = Len(ch.free) /\ IsInjective(ch.free)
    /\ \A i \in ToSet(ch.free) : <<c, i>> \notin h.used
    /\ (\E s \in h.used : s[1] = c) => ch.made

(***************************************************************************)
(* LooseSlotHeap.  Which slot of a chunk is used plays no part here: inUse *)
(* counts them.  list[f] are the chunks of fullness f, the last class      *)
(* being the full ones.  top is TopSlotHeap's list of chunks given back;   *)
(* a chunk knows its heap, and has none while it is there.                 *)
(***************************************************************************)
Classes == 0 .. EmptyFraction
Fullness(n) == (EmptyFraction * n) \div NumSlots

\* BigChunk: getNumSlotsInUse of a new chunk, and after getSlot and putSlot.
NewBigChunk == 0
BigGetSlot(n, c) == [n EXCEPT ![c] = @ + 1]
BigPutSlot(n, c) == [n EXCEPT ![c] = @ - 1]

LooseInit ==
  h = [kind |-> "loose", list |-> [f \in Classes |-> << >>], inUse |-> 0, space |-> 0,
       n |-> [c \in 1 .. LooseChunks |-> NewBigChunk], top |-> << >>, made |-> 0, dead |-> FALSE]

\* update: a chunk whose fullness changed moves to the front of its new list.
Update(list, c, f, g) ==
  IF f = g THEN list
  ELSE [list EXCEPT ![f] = RemoveAt(@, CHOOSE i \in DOMAIN @ : @[i] = c), ![g] = <<c>> \o @]

\* malloc: from the fullest chunk that has room, else from a new chunk.
Room == {f \in 0 .. EmptyFraction - 1 : h.list[f] # << >>}
LooseTake(list, c, space) ==
  h' = [h EXCEPT !.list = Update(list, c, Fullness(h.n[c]), Fullness(h.n[c] + 1)),
                 !.n = BigGetSlot(@, c), !.inUse = @ + 1, !.space = space]
LooseMalloc ==
  /\ ~h.dead /\ Room # {}
  /\ LooseTake(h.list, Head(h.list[Max(Room)]), h.space)
LooseMallocNew ==
  /\ ~h.dead /\ Room = {} /\ h.top = << >> /\ h.made < LooseChunks
  /\ LET c == h.made + 1 IN
     h' = [h EXCEPT !.list = Update([h.list EXCEPT ![0] = <<c>>], c, 0, Fullness(1)),
                    !.n = BigGetSlot(@, c), !.inUse = @ + 1, !.space = @ + NumSlots, !.made = c]
\* A recycled chunk must be empty: "FOR NOW!! FIX ME!!!"
LooseRecycle ==
  LET c == Head(h.top) IN
  /\ ~h.dead /\ Room = {} /\ h.top # << >>
  /\ IF h.n[c] > 0
     THEN h' = [h EXCEPT !.dead = TRUE]
     ELSE h' = [h EXCEPT !.list = Update([h.list EXCEPT ![0] = <<c>>], c, 0, Fullness(1)),
                         !.n = BigGetSlot(@, c), !.inUse = @ + 1, !.space = @ + NumSlots,
                         !.top = Tail(@)]

\* localFree: put the slot back, move the chunk, and give the emptiest chunk
\* back when there is enough room, whether or not it is empty.
Held == UNION {ToSet(h.list[f]) : f \in Classes}
MayReturn(space, inUse) ==
  space - inUse > Slack /\ EmptyFraction * (space - inUse) > space
GiveBack(list, n, space, inUse) ==
  LET f == Min({g \in 0 .. EmptyFraction - 1 : list[g] # << >>})
      c == Head(list[f])
  IN  h' = [h EXCEPT !.list = [list EXCEPT ![f] = Tail(@)], !.n = n, !.top = <<c>> \o @,
                     !.space = space - NumSlots, !.inUse = inUse - n[c]]
LooseFree(c) ==
  LET list == Update(h.list, c, Fullness(h.n[c]), Fullness(h.n[c] - 1))
      n == BigPutSlot(h.n, c)
  IN  /\ ~h.dead /\ c \in Held /\ h.n[c] > 0
      /\ IF MayReturn(h.space, h.inUse - 1)
         THEN GiveBack(list, n, h.space, h.inUse - 1)
         ELSE h' = [h EXCEPT !.list = list, !.n = n, !.inUse = @ - 1]
\* A slot of a chunk that was given back: its heap is the wrong one.
LooseFreeLost(c) ==
  /\ ~h.dead /\ c \in ToSet(h.top) /\ h.n[c] > 0
  /\ h' = [h EXCEPT !.dead = TRUE]

LooseNext ==
  \/ LooseMalloc \/ LooseMallocNew \/ LooseRecycle
  \/ \E c \in 1 .. LooseChunks : LooseFree(c) \/ LooseFreeLost(c)

\* Slots in use of the first c chunks, of those that are held, in n.
InUseOf(held, n) ==
  LET f[c \in 0 .. LooseChunks] == IF c = 0 THEN 0 ELSE f[c - 1] + (IF c \in held THEN n[c] ELSE 0)
  IN  f
\* checkClassInvariant: each chunk held is in the list of its fullness and in
\* no other place, and the counts of slots in use and of slots are right.
LooseWhole ==
  ~h.dead =>
  /\ \A f \in Classes : IsInjective(h.list[f]) /\ \A c \in ToSet(h.list[f]) : Fullness(h.n[c]) = f
  /\ IsInjective(h.top) /\ ToSet(h.top) \cap Held = {}
  /\ h.inUse = InUseOf(Held, h.n)[LooseChunks]
  /\ h.space = NumSlots * Cardinality(Held)

(***************************************************************************)
(* AlignedSlotHeap over AlignedChunkHeap, in one thread.  Bit 0 of a       *)
(* chunk's bitmap is always set, bit i stands for slot i.  mine is the     *)
(* chunk slots come from; a chunk that is used up is released, and goes to *)
(* the list, or to the memory below, when its last slot comes back.        *)
(***************************************************************************)
Bits == 0 .. NumSlots
EmptyBitmap == {0}
FreeBit(bitmap) == Min(Bits \ bitmap)
NewAligned == [made |-> TRUE, bitmap |-> EmptyBitmap, released |-> FALSE]

AlignedInit ==
  h = [kind |-> "aligned", mine |-> NoChunk, list |-> << >>, used |-> {},
       chunk |-> [c \in ChunkIds |-> [NewAligned EXCEPT !.made = FALSE]]]

\* malloc of AlignedChunkHeap: a chunk that was given back, or a new one.
AlignedChunkMalloc ==
  /\ h.mine = NoChunk
  /\ \/ /\ h.list # << >>
        /\ h' = [h EXCEPT !.mine = Head(h.list), !.list = Tail(@),
                          !.chunk[Head(h.list)].released = FALSE]
     \/ /\ h.list = << >>
        /\ \E c \in Unmade : h' = [h EXCEPT !.mine = c, !.chunk[c] = NewAligned]
\* One turn of the loop of malloc of AlignedSlotHeap.
AlignedMalloc ==
  LET c == h.mine
      bitmap == h.chunk[c].bitmap
  IN  /\ c # NoChunk
      /\ IF bitmap = Bits
         THEN h' = [h EXCEPT !.chunk[c].released = TRUE, !.mine = NoChunk]
         ELSE h' = [h EXCEPT !.chunk[c].bitmap = @ \cup {FreeBit(bitmap)},
                             !.used = @ \cup {<<c, FreeBit(bitmap)>>}]
AlignedChunkFree(g, c) ==
  IF Len(g.list) > MaxFree
  THEN [g EXCEPT !.chunk[c].made = FALSE]
  ELSE [g EXCEPT !.list = <<c>> \o @]
\* A mutant: an empty chunk goes back although it is the current one.
GoesBackAlways(ch) == ch.bitmap = EmptyBitmap
GoesBack(ch) == ch.bitmap = EmptyBitmap /\ ch.released
AlignedFree(c, i) ==
  LET g == [h EXCEPT !.chunk[c].bitmap = @ \ {i}, !.used = @ \ {<<c, i>>}]
  IN  h' = IF GoesBack(g.chunk[c]) THEN AlignedChunkFree(g, c) ELSE g

AlignedNext ==
  \/ AlignedChunkMalloc \/ AlignedMalloc
  \/ \E s \in h.used : AlignedFree(s[1], s[2])

\* The bits set are the slots in use, every chunk is the current one, or
\* released with slots in use, or in the list, once, with none.
AlignedWhole ==
  /\ IsInjective(h.list)
  /\ \A c \in ChunkIds :
       LET ch == h.chunk[c]
           slots == {i \in SlotIds : <<c, i>> \in h.used}
       IN  /\ ch.bitmap = slots \cup EmptyBitmap
           /\ c = h.mine => ch.made /\ ~ch.released /\ c \notin ToSet(h.list)
           /\ c \in ToSet(h.list) => ch.made /\ slots = {}
           /\ ch.made => (ch.released <=> c # h.mine)
           /\ ch.made => c = h.mine \/ c \in ToSet(h.list) \/ slots # {}

(***************************************************************************)
(* getSlot and putSlot of one AlignedChunk, called by several threads      *)
(* without a lock.  A thread reads the bitmap, computes the new one and    *)
(* exchanges it: the new value is stored in any case, and the thread tries *)
(* again when the value it replaced is not the one it had read.  stored    *)
(* remembers that this has happened.                                       *)
(***************************************************************************)
Idle == [do |-> "idle"]
BitmapInit ==
  h = [kind |-> "bitmap", bitmap |-> EmptyBitmap, used |-> {}, twice |-> FALSE,
       stored |-> FALSE, at |-> [t \in Threads |-> Idle]]

ReadForGet(t) ==
  /\ h.at[t] = Idle /\ h.bitmap # Bits
  /\ h' = [h EXCEPT !.at[t] = [do |-> "get", old |-> h.bitmap, slot |-> FreeBit(h.bitmap)]]
ReadForPut(t, i) ==
  /\ h.at[t] = Idle /\ i \in h.used
  /\ h' = [h EXCEPT !.at[t] = [do |-> "put", old |-> h.bitmap, slot |-> i],
                    !.used = @ \ {i}]
Exchange(t, bitmap, success, again) ==
  h' = IF h.bitmap = h.at[t].old
       THEN [success EXCEPT !.bitmap = bitmap, !.at[t] = Idle]
       ELSE [h EXCEPT !.bitmap = bitmap, !.at[t] = again, !.stored = TRUE]
ExchangeForGet(t) ==
  LET a == h.at[t] IN
  /\ a.do = "get"
  /\ Exchange(t, a.old \cup {a.slot},
       [h EXCEPT !.used = @ \cup {a.slot}, !.twice = a.slot \in h.used], Idle)
\* It reads again what it has just stored, or what came after that.
ExchangeForPut(t) ==
  LET a == h.at[t] IN
  /\ a.do = "put"
  /\ Exchange(t, a.old \ {a.slot}, h, [do |-> "reread", slot |-> a.slot])
ReadAgain(t) ==
  /\ h.at[t].do = "reread"
  /\ h' = [h EXCEPT !.at[t] = [do |-> "put", old |-> h.bitmap, slot |-> h.at[t].slot]]

BitmapNext ==
  \E t \in Threads :
    \/ ReadForGet(t) \/ ExchangeForGet(t) \/ ExchangeForPut(t) \/ ReadAgain(t)
    \/ \E i \in SlotIds : ReadForPut(t, i)

\* As long as every exchange has found what its thread had read, even if the
\* bitmap changed and changed back in between, no slot has two owners and the
\* bits set are the slots in use or on their way back.  After a failed
\* exchange this is lost, for its value stays stored.
BitmapWhole ==
  ~h.stored =>
  /\ ~h.twice
  /\ h.bitmap = EmptyBitmap \cup h.used \cup
                {h.at[t].slot : t \in {u \in Threads : h.at[u].do = "put"}}

(***************************************************************************)
SlotHeapsInit == SlotsInit \/ LooseInit \/ AlignedInit \/ BitmapInit
SlotHeapsNext ==
  \/ h.kind = "slots" /\ SlotsNext
  \/ h.kind = "loose" /\ LooseNext
  \/ h.kind = "aligned" /\ AlignedNext
  \/ h.kind = "bitmap" /\ BitmapNext
SlotHeapsSpec == SlotHeapsInit /\ [][SlotHeapsNext]_h

\* The heaps that cut chunks into slots, in every order of malloc and free and,
\* for AlignedChunk, of the threads' reads and exchanges: no slot is in two
\* places, and each chunk's and each bin's counts are those of what it holds
\* (SlotsWhole, LooseWhole, AlignedWhole, BitmapWhole).
SlotHeapsWhole ==
  /\ h.kind = "slots" => SlotsWhole
  /\ h.kind = "loose" => LooseWhole
  /\ h.kind = "aligned" => AlignedWhole
  /\ h.kind = "bitmap" => BitmapWhole
=============================================================================

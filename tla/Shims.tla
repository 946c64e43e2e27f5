------------------------------- MODULE Shims --------------------------------
(***************************************************************************)
(* What stands between a program that calls malloc and a heap, besides     *)
(* libmem.cpp:                                                             *)
(*                                                                         *)
(*   wrapper      the functions of wrapper.cpp over a heap that rounds a   *)
(*                request up to a size class and puts it anywhere;         *)
(*   localmalloc  LocalMallocHeap, which looks up the C library's          *)
(*                functions in its first malloc and serves the requests    *)
(*                that the look-up makes from a buffer;                    *)
(*   sanity       SanityCheckHeap, which watches a program that may free   *)
(*                what it should not.                                      *)
(*                                                                         *)
(* In wrapper mem is the memory and an object of the program has a mark:   *)
(* the program writes it over what it asked for, and leaves what calloc    *)
(* cleared.  What nobody asked for holds anything: Dirty.                  *)
(***************************************************************************)
EXTENDS Integers, Sequences, FiniteSets, FiniteSetsExt, LibMem

CONSTANTS ShimUnits,      \* memory of the heap
          ShimAsks,       \* sizes a program asks for
          ShimClass,      \* classes are multiples of it
          ShimAligns,     \* alignments a program asks for
          ShimDouble,     \* sizeof(double)
          ShimMarks,      \* the program's objects, 1 .. ShimMarks
          LocalUnits      \* the buffer of LocalMallocHeap

ASSUME ShimsAssumption ==
  /\ ShimUnits \in Nat /\ ShimMarks \in Nat /\ LocalUnits \in Nat
  /\ ShimClass \in Nat \ {0} /\ ShimDouble \in Nat \ {0}
  /\ ShimAsks \subseteq Nat \ {0} /\ ShimAligns \subseteq Nat \ {0}
  /\ \E a \in ShimAligns : \A b \in ShimAligns : b <= a

(***************************************************************************)
(* wrapper.cpp.  An object is [p, base, cap, ask, align, mark]: the        *)
(* pointer the program has, the block it is in, getSize of the block, the  *)
(* size asked for.                                                         *)
(***************************************************************************)
Cells == 0 .. ShimUnits - 1
Block(o) == o.base .. o.base + o.cap - 1
TakenBy(objs) == UNION {Block(o) : o \in objs}
Class(sz) == ShimClass * ((sz + ShimClass - 1) \div ShimClass)
RoundUp(n, a) == a * ((n + a - 1) \div a)
Dirty == -1
WrapperInit == h = [kind |-> "wrapper", objs |-> {}, mem |-> [c \in Cells |-> Dirty]]
\* The program has the objects objs and the memory is mem as far as they reach.
Have(objs, mem) ==
  h' = [h EXCEPT !.objs = objs,
          !.mem = [c \in Cells |-> IF \E o \in objs : c \in o.p .. o.p + o.ask - 1
                                   THEN mem[c] ELSE Dirty]]

\* The blocks of free cells the heap may return, aligned as a double is.
BlocksIn(free, sz) ==
  {b \in [base : {a \in free : a % ShimDouble = 0}, cap : {Class(sz)}] : Block(b) \subseteq free}
\* None: internalMalloc returns NULL.
internalMalloc(sz) ==
  BlocksIn(Cells \ TakenBy(h.objs), sz)
Fill(mem, from, n, mark) == [c \in Cells |-> IF c \in from .. from + n - 1 THEN mark ELSE mem[c]]
FreeMarks == (1 .. ShimMarks) \ {o.mark : o \in h.objs}
Made(b, p, sz, align, mark) ==
  [p |-> p, base |-> b.base, cap |-> b.cap, ask |-> sz, align |-> align, mark |-> mark]
\* Without room malloc returns NULL, and nothing changes.
WMalloc(sz) ==
  \E b \in internalMalloc(sz), m \in {Min(FreeMarks)} :
    Have(h.objs \cup {Made(b, b.base, sz, 1, m)}, Fill(h.mem, b.base, sz, m))
\* strdup and strndup: the length and one more, all written.
WStrdup(len) == WMalloc(len + 1)
\* getcwd without a buffer; what the system writes there is no concern of a heap.
WGetcwd(sz) == WMalloc(sz)
\* The operators throw where malloc would return NULL.
WNew(sz) == WMalloc(sz)
\* A mutant: calloc clears one element.
callocClearsShort(n, e) == e
callocClears(n, e) == n * e
WCalloc(n, e) ==
  \E b \in internalMalloc(n * e) :
    Have(h.objs \cup {Made(b, b.base, n * e, 1, 0)}, Fill(h.mem, b.base, callocClears(n, e), 0))
\* memalign asks for twice the alignment more and returns an address inside,
\* unless the alignment is that of every object.
memalignAsks(a, sz) == IF a = ShimDouble THEN sz ELSE sz + 2 * a
memalignAt(a, base) == IF a = ShimDouble THEN base ELSE RoundUp(base, a)
WMemalign(a, sz) ==
  \E b \in internalMalloc(memalignAsks(a, sz)), m \in {Min(FreeMarks)} :
    LET p == memalignAt(a, b.base) IN
    Have(h.objs \cup {Made(b, p, sz, a, m)}, Fill(h.mem, p, sz, m))
\* posix_memalign refuses what is not a power of two.
posix_memalign(a, sz) == (\E k \in 0 .. a : a = 2^k) /\ WMemalign(a, sz)
\* valloc and pvalloc take a page to be the largest alignment.
ShimPage == Max(ShimAligns)
WValloc(sz) == WMemalign(ShimPage, sz)
WPvalloc(sz) == WValloc(RoundUp(sz, ShimPage))

\* The heap knows its own pointers: those memalign moved are not freed here.
Freeable == {o \in h.objs : o.p = o.base}
WFree(o) == Have(h.objs \ {o}, h.mem)
WDelete(o) == WFree(o)
\* realloc to another size.  The program has what it wrote, as far as it fits,
\* and writes the rest; if there is no memory the old object is gone too.
WRealloc(o, sz) ==
  LET bufs == internalMalloc(sz)
      kept == IF o.cap < sz THEN o.cap ELSE sz
      old == IF o.ask < sz THEN o.ask ELSE sz
      Grown(mem, p) == Fill(mem, p + old, sz - old, o.mark)
  IN  \/ bufs = {} /\ WFree(o)
      \/ /\ bufs # {} /\ Class(sz) = o.cap
         /\ Have((h.objs \ {o}) \cup {[o EXCEPT !.ask = sz]}, Grown(h.mem, o.p))
      \/ /\ Class(sz) # o.cap
         /\ \E b \in bufs :
              LET copied == [c \in Cells |-> IF c \in b.base .. b.base + kept - 1
                                             THEN h.mem[o.p + c - b.base] ELSE h.mem[c]]
              IN  Have((h.objs \ {o}) \cup {Made(b, b.base, sz, 1, o.mark)}, Grown(copied, b.base))
\* recalloc frees first and keeps nothing.
WRecalloc(o, n, e) ==
  LET left == h.objs \ {o}
      bufs == BlocksIn(Cells \ TakenBy(left), n * e)
  IN  \/ bufs = {} /\ WFree(o)
      \/ \E b \in bufs :
           Have(left \cup {Made(b, b.base, n * e, 1, 0)}, Fill(h.mem, b.base, callocClears(n, e), 0))

WrapperNext ==
  \/ /\ FreeMarks # {} /\ Cardinality(h.objs) < ShimMarks
     /\ \E sz \in ShimAsks :
          \/ WMalloc(sz) \/ WStrdup(sz - 1) \/ WGetcwd(sz) \/ WNew(sz)
          \/ WCalloc(2, sz)
          \/ \E a \in ShimAligns : posix_memalign(a, sz)
          \/ WValloc(sz) \/ WPvalloc(sz)
  \/ \E o \in Freeable : \/ WFree(o) \/ WDelete(o)
                         \/ \E sz \in ShimAsks : WRealloc(o, sz) \/ WRecalloc(o, 2, sz)

\* Whatever is allocated, resized, aligned and freed: every object lies in a
\* block of its own, is aligned as asked, and holds what its owner wrote, or
\* zero if calloc made it and nobody wrote.
WrapperKeeps ==
  \A o \in h.objs :
    /\ o.p .. o.p + o.ask - 1 \subseteq Block(o) /\ o.p % o.align = 0
    /\ \A q \in h.objs : o # q => Block(o) \cap Block(q) = {}
    /\ \A c \in o.p .. o.p + o.ask - 1 : h.mem[c] = o.mark

(***************************************************************************)
(* LocalMallocHeap.  step counts the functions found by dlsym, the last of *)
(* which is malloc; depth of the program's calls: the first is still       *)
(* running while dlsym makes its own.  The buffer is a SizeHeap over a     *)
(* StaticHeap, which frees nothing and whose NULL is written through.      *)
(***************************************************************************)
LocalInit ==
  h = [kind |-> "localmalloc", firsttime |-> TRUE, step |-> 0, next |-> 0,
       objs |-> {}, dead |-> FALSE]

Resolving == ~h.firsttime /\ h.step < 4
mallocfn == h.step = 4
LocalObject(from, sz) == [from |-> from, at |-> h.next, size |-> sz]
LFirst == h.firsttime /\ h' = [h EXCEPT !.firsttime = FALSE]
LDlsym ==
  /\ Resolving
  /\ h' = [h EXCEPT !.step = @ + 1,
                    !.objs = IF h.step = 3 THEN @ \cup {LocalObject("libc", 1)} ELSE @]
LMalloc(sz) ==
  /\ ~h.firsttime
  /\ h' = IF mallocfn THEN [h EXCEPT !.objs = @ \cup {LocalObject("libc", sz)}]
          ELSE IF h.next + sz + 1 > LocalUnits THEN [h EXCEPT !.dead = TRUE]
          ELSE [h EXCEPT !.objs = @ \cup {LocalObject("local", sz)}, !.next = @ + sz + 1]
\* isValid of StaticHeap compares with the start of the buffer (offset 0) twice.
InBuffer(o) == o.at >= 0 /\ o.at < 0
\* Before malloc is found, free does nothing and the object stays where it is.
\* Afterwards it goes to the C library, unless it is in the buffer; what the C
\* library does with an object that is not its own is left open.
LFree(o) ==
  h' = IF mallocfn /\ ~InBuffer(o) /\ o.from # "libc" THEN [h EXCEPT !.dead = TRUE]
       ELSE [h EXCEPT !.objs = @ \ {o}]
LocalNext ==
  /\ ~h.dead /\ Cardinality(h.objs) < 4
  /\ \/ LFirst \/ LDlsym
     \/ \E sz \in 1 .. 2 : LMalloc(sz)
     \/ \E o \in h.objs : LFree(o)
\* What the buffer gave out is inside it and not given again, whatever is freed;
\* and the program is lost only when the buffer is full before malloc is found,
\* or with an object of the buffer that has outlived the search for malloc.
LocalWhole ==
  /\ h.next <= LocalUnits
  /\ h.dead => IF mallocfn THEN \E o \in h.objs : o.from = "local"
                           ELSE h.next + 3 > LocalUnits
  /\ \A o, q \in {x \in h.objs : x.from = "local"} :
       /\ o.at + o.size < h.next
       /\ o # q => o.at + o.size < q.at \/ q.at + q.size < o.at

(***************************************************************************)
(* SanityCheckHeap.  allocatedObjects maps an address to its size or to    *)
(* FREED; the program may free any address at any time.                    *)
(***************************************************************************)
FREED == -1
SanityInit ==
  h = [kind |-> "sanity", allocatedObjects |-> << >>, below |-> {}, failed |-> "no", wrong |-> "no"]
SMalloc(a, sz) ==
  /\ a \notin h.below
  /\ h' = IF a \in DOMAIN h.allocatedObjects /\ h.allocatedObjects[a] # FREED
          THEN [h EXCEPT !.failed = "allocated", !.below = @ \cup {a}]
          ELSE [h EXCEPT !.below = @ \cup {a},
                  !.allocatedObjects = [x \in DOMAIN @ \cup {a} |-> IF x = a THEN sz ELSE @[x]]]
SFree(a) ==
  h' = IF a \notin DOMAIN h.allocatedObjects THEN [h EXCEPT !.failed = "never", !.wrong = "never"]
       ELSE IF h.allocatedObjects[a] = FREED
            THEN [h EXCEPT !.failed = "twice", !.wrong = IF a \in h.below THEN "no" ELSE "twice"]
       ELSE [h EXCEPT !.allocatedObjects[a] = FREED, !.below = @ \ {a},
                      !.wrong = IF a \in h.below THEN @ ELSE "twice"]
SanityNext ==
  /\ h.failed = "no"
  /\ \E a \in 1 .. 3 : SFree(a) \/ \E sz \in 1 .. 2 : SMalloc(a, sz)
\* An assertion fails when the program is wrong, and only then; till then the map
\* knows what the heap below has given out.
SanityWhole ==
  /\ h.failed = h.wrong
  /\ h.failed = "no" => h.below = {a \in DOMAIN h.allocatedObjects : h.allocatedObjects[a] # FREED}

(***************************************************************************)
ShimsInit == WrapperInit \/ LocalInit \/ SanityInit \/ LibMemInit
ShimsNext ==
  \/ h.kind = "wrapper" /\ WrapperNext
  \/ h.kind = "localmalloc" /\ LocalNext
  \/ h.kind = "sanity" /\ SanityNext
  \/ h.kind = "libmem" /\ LibMemNext
ShimsSpec == ShimsInit /\ [][ShimsNext]_h

\* The functions that stand for malloc, free and the rest keep what the program
\* wrote and hand out no memory twice, LocalMallocHeap up to the object of its
\* buffer it gives to the C library (WrapperKeeps, LocalWhole, SanityWhole,
\* LibMemWhole).
ShimsKeep ==
  /\ h.kind = "wrapper" => WrapperKeeps
  /\ h.kind = "localmalloc" => LocalWhole
  /\ h.kind = "sanity" => SanityWhole
  /\ h.kind = "libmem" => LibMemWhole
=============================================================================

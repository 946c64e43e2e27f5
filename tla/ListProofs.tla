----------------------------- MODULE ListProofs -----------------------------
(***************************************************************************)
(* What the operations of list.h do to a list of any length.               *)
(***************************************************************************)
EXTENDS List, SequenceTheorems, WellFoundedInduction, TLAPS

\* h holds two pointers for every node of N.
Pointers(h, N) == h.next \in [N -> N] /\ h.prev \in [N -> N]

\* The n entries r[1] .. r[n] hang together, in this order and in both
\* directions, between the head and the head; r[0] and r[n + 1] are the head.
Ring(h, head, n, r) ==
  /\ r[0] = head /\ r[n + 1] = head
  /\ \A i \in 0 .. n : h.next[r[i]] = r[i + 1] /\ h.prev[r[i + 1]] = r[i]
  /\ \A i, j \in 0 .. n : r[i] = r[j] => i = j

\* The ring with one entry more at its end
Longer(r, n, e) ==
  [i \in Nat |-> IF i = n + 1 THEN e ELSE IF i = n + 2 THEN r[0] ELSE r[i]]

\* The ring without its entry k
Without(r, k) == [i \in Nat |-> IF i < k THEN r[i] ELSE r[i + 1]]

\* An operation that leaves the pointers of a ring's nodes alone leaves the ring.
LEMMA RingKept ==
  ASSUME NEW h, NEW g, NEW head, NEW n \in Nat, NEW r, Ring(h, head, n, r),
         \A i \in 0 .. n : g.next[r[i]] = h.next[r[i]] /\ g.prev[r[i]] = h.prev[r[i]]
  PROVE  Ring(g, head, n, r)
<1>1. \A i \in 0 .. n : g.prev[r[i + 1]] = h.prev[r[i + 1]]
  <2> SUFFICES ASSUME NEW i \in 0 .. n PROVE g.prev[r[i + 1]] = h.prev[r[i + 1]]
    OBVIOUS
  <2>1. CASE i = n
    BY <2>1 DEF Ring
  <2>2. CASE i # n
    <3>1. i + 1 \in 0 .. n
      BY <2>2
    <3>2. QED
      BY <3>1
  <2>3. QED
    BY <2>1, <2>2
<1>2. QED
  BY <1>1 DEF Ring

\* listInsertTail adds a node that is not in the list at its end (list.h:90).
LEMMA TailInserted ==
  ASSUME NEW N, NEW h, Pointers(h, N), NEW head, NEW n \in Nat, NEW r \in [Nat -> N],
         Ring(h, head, n, r), NEW e \in N, \A i \in 0 .. n : r[i] # e
  PROVE  Ring(ListInsertTail(h, e, head), head, n + 1, Longer(r, n, e))
<1> DEFINE g == ListInsertTail(h, e, head)
           s == Longer(r, n, e)
           nx == [[h.next EXCEPT ![e] = head] EXCEPT ![r[n]] = e]
           pv == [[h.prev EXCEPT ![e] = r[n]] EXCEPT ![head] = e]
<1>1. /\ r[0] = head /\ r[n + 1] = head /\ h.prev[head] = r[n]
      /\ \A i \in 0 .. n : h.next[r[i]] = r[i + 1] /\ h.prev[r[i + 1]] = r[i]
      /\ \A i, j \in 0 .. n : r[i] = r[j] => i = j
  BY DEF Ring
<1>2. g.next = nx /\ g.prev = pv
  BY <1>1 DEF ListInsertTail, InsertBetween
<1>3. /\ \A i \in 0 .. n : s[i] = r[i]
      /\ s[n + 1] = e /\ s[n + 2] = head
  BY <1>1 DEF Longer
<1>4. h.next \in [N -> N] /\ h.prev \in [N -> N] /\ head \in N /\ r[n] \in N
  BY <1>1 DEF Pointers
<1>5. ASSUME NEW m \in N
      PROVE  /\ nx[m] = IF m = r[n] THEN e ELSE IF m = e THEN head ELSE h.next[m]
             /\ pv[m] = IF m = head THEN e ELSE IF m = e THEN r[n] ELSE h.prev[m]
  BY <1>4
<1> HIDE DEF s, g, nx, pv
<1>6. ASSUME NEW i \in 0 .. n + 1
      PROVE  nx[s[i]] = s[i + 1] /\ pv[s[i + 1]] = s[i]
  <2>1. CASE i = n + 1
    <3>1. r[n] # e /\ head # e
      BY <1>1
    <3>2. nx[e] = head /\ pv[head] = e
      BY <1>4, <1>5, <3>1
    <3>3. i + 1 = n + 2
      BY <2>1
    <3>4. QED
      BY <1>3, <2>1, <3>2, <3>3
  <2>2. CASE i = n
    <3>1. r[n] # e /\ head # e
      BY <1>1
    <3>2. nx[r[n]] = e /\ pv[e] = r[n]
      BY <1>4, <1>5, <3>1
    <3>3. QED
      BY <1>3, <2>2, <3>2
  <2>3. CASE i < n
    <3>1. i \in 0 .. n /\ i + 1 \in 0 .. n /\ n \in 0 .. n /\ 0 \in 0 .. n
      BY <2>3
    <3>2. r[i] # r[n] /\ r[i] # e /\ r[i + 1] # e /\ r[i + 1] # head /\ r[i] \in N /\ r[i + 1] \in N
      BY <1>1, <2>3, <3>1
    <3>3. nx[r[i]] = h.next[r[i]] /\ pv[r[i + 1]] = h.prev[r[i + 1]]
      BY <1>5, <3>2
    <3>4. QED
      BY <1>1, <1>3, <3>1, <3>3
  <2>4. QED
    BY <2>1, <2>2, <2>3
<1>7. ASSUME NEW i \in 0 .. n + 1, NEW j \in 0 .. n + 1, s[i] = s[j]
      PROVE  i = j
  <2>1. (i \in 0 .. n \/ i = n + 1) /\ (j \in 0 .. n \/ j = n + 1)
    OBVIOUS
  <2>2. QED
    BY <1>1, <1>3, <1>7, <2>1
<1>8. s[0] = head /\ s[n + 2] = head
  BY <1>1, <1>3
<1>9. QED
  <2>1. n + 1 + 1 = n + 2
    OBVIOUS
  <2>2. Ring(g, head, n + 1, s)
    BY <1>2, <1>6, <1>7, <1>8, <2>1 DEF Ring
  <2>3. QED
    BY <2>2 DEF g, s

\* __list_link of an entry's neighbours takes the entry out of the list
\* (list.h:108).
LEMMA EntryUnlinked ==
  ASSUME NEW N, NEW h, Pointers(h, N), NEW head, NEW n \in Nat, NEW r \in [Nat -> N],
         Ring(h, head, n, r), NEW k \in 1 .. n
  PROVE  Ring(Link(h, h.prev[r[k]], h.next[r[k]]), head, n - 1, Without(r, k))
<1> DEFINE g == Link(h, h.prev[r[k]], h.next[r[k]])
           s == Without(r, k)
<1>1. /\ r[0] = head /\ r[n + 1] = head
      /\ \A i \in 0 .. n : h.next[r[i]] = r[i + 1] /\ h.prev[r[i + 1]] = r[i]
      /\ \A i, j \in 0 .. n : r[i] = r[j] => i = j
  BY DEF Ring
<1>2. h.prev[r[k]] = r[k - 1] /\ h.next[r[k]] = r[k + 1]
  <2>1. k - 1 \in 0 .. n /\ k \in 0 .. n /\ (k - 1) + 1 = k
    OBVIOUS
  <2>2. QED
    BY <1>1, <2>1
<1>3. /\ g.next = [h.next EXCEPT ![r[k - 1]] = r[k + 1]]
      /\ g.prev = [h.prev EXCEPT ![r[k + 1]] = r[k - 1]]
  BY <1>2 DEF Link
<1>4. h.next \in [N -> N] /\ h.prev \in [N -> N] /\ \A i \in Nat : r[i] \in N
  BY DEF Pointers
<1>5. \A i \in Nat : s[i] = IF i < k THEN r[i] ELSE r[i + 1]
  BY DEF Without
<1> HIDE DEF g, s
<1>6. ASSUME NEW i \in 0 .. n - 1
      PROVE  g.next[s[i]] = s[i + 1] /\ g.prev[s[i + 1]] = s[i]
  <2>0. i \in Nat /\ i + 1 \in Nat /\ k - 1 \in Nat /\ k + 1 \in Nat /\ k - 1 \in 0 .. n /\ k \in 0 .. n
    OBVIOUS
  <2>1. CASE i < k - 1
    <3>1. s[i] = r[i] /\ s[i + 1] = r[i + 1]
      BY <1>5, <2>0, <2>1
    <3>2. r[i] # r[k - 1]
      BY <1>1, <2>0, <2>1
    <3>3. r[i + 1] # r[k + 1]
      <4>1. CASE k = n
        <5>1. r[k + 1] = r[0] /\ i + 1 \in 0 .. n /\ 0 \in 0 .. n
          BY <1>1, <4>1
        <5>2. QED
          BY <1>1, <5>1
      <4>2. CASE k # n
        <5>1. k + 1 \in 0 .. n /\ i + 1 \in 0 .. n /\ i + 1 # k + 1
          BY <4>2, <2>1
        <5>2. QED
          BY <1>1, <5>1
      <4>3. QED
        BY <4>1, <4>2
    <3>4. g.next[r[i]] = h.next[r[i]] /\ g.prev[r[i + 1]] = h.prev[r[i + 1]]
      BY <1>3, <1>4, <2>0, <3>2, <3>3
    <3>5. QED
      BY <1>1, <3>1, <3>4
  <2>2. CASE i = k - 1
    <3>1. s[i] = r[k - 1] /\ s[i + 1] = r[k + 1]
      BY <1>5, <2>0, <2>2
    <3>2. QED
      BY <1>3, <1>4, <2>0, <3>1
  <2>3. CASE i > k - 1
    <3>1. s[i] = r[i + 1] /\ s[i + 1] = r[i + 2] /\ i + 1 \in 0 .. n /\ i + 2 \in Nat /\ (i + 1) + 1 = i + 2
      BY <1>5, <2>0, <2>3
    <3>2. r[i + 1] # r[k - 1]
      BY <1>1, <2>0, <2>3, <3>1
    <3>3. r[i + 2] # r[k + 1]
      <4>0. k + 1 \in 1 .. n
        BY <2>3
      <4>1. CASE i + 2 = n + 1
        <5>1. r[i + 2] = r[0] /\ 0 \in 0 .. n /\ k + 1 \in 0 .. n
          BY <1>1, <4>0, <4>1
        <5>2. QED
          BY <1>1, <5>1
      <4>2. CASE i + 2 # n + 1
        <5>1. k + 1 \in 0 .. n /\ i + 2 \in 0 .. n /\ i + 2 # k + 1
          BY <4>0, <4>2, <2>3
        <5>2. QED
          BY <1>1, <5>1
      <4>3. QED
        BY <4>1, <4>2
    <3>4. g.next[r[i + 1]] = h.next[r[i + 1]] /\ g.prev[r[i + 2]] = h.prev[r[i + 2]]
      BY <1>3, <1>4, <2>0, <3>1, <3>2, <3>3
    <3>5. QED
      BY <1>1, <3>1, <3>4
  <2>4. QED
    BY <2>0, <2>1, <2>2, <2>3
<1>7. ASSUME NEW i \in 0 .. n - 1, NEW j \in 0 .. n - 1, s[i] = s[j]
      PROVE  i = j
  <2>1. /\ i \in Nat /\ j \in Nat
        /\ i \in 0 .. n /\ i + 1 \in 0 .. n /\ j \in 0 .. n /\ j + 1 \in 0 .. n
    OBVIOUS
  <2>2. QED
    BY <1>1, <1>5, <1>7, <2>1
<1>8. s[0] = head /\ s[(n - 1) + 1] = head
  <2>1. 0 \in Nat /\ n \in Nat /\ (n - 1) + 1 = n /\ 0 < k /\ ~ (n < k)
    OBVIOUS
  <2>2. QED
    BY <1>1, <1>5, <2>1
<1>9. QED
  <2>1. Ring(g, head, n - 1, s)
    BY <1>6, <1>7, <1>8 DEF Ring
  <2>2. QED
    BY <2>1 DEF g, s

\* The same list read backwards
Back(r, k) == [i \in Nat |-> IF i = 0 \/ i > k THEN r[0] ELSE r[k + 1 - i]]

\* A ring is a ring in the other direction.
LEMMA RingBack ==
  ASSUME NEW g, NEW N, NEW head, NEW k \in Nat, NEW r \in [Nat -> N], Ring(g, head, k, r)
  PROVE  /\ Back(r, k) \in [Nat -> N]
         /\ Ring([next |-> g.prev, prev |-> g.next], head, k, Back(r, k))
<1> DEFINE s == Back(r, k)
<1>1. /\ r[0] = head /\ r[k + 1] = head
      /\ \A i \in 0 .. k : g.next[r[i]] = r[i + 1] /\ g.prev[r[i + 1]] = r[i]
      /\ \A i, j \in 0 .. k : r[i] = r[j] => i = j
  BY DEF Ring
<1>2. \A i \in 0 .. k + 1 : s[i] = r[k + 1 - i]
  BY <1>1 DEF Back
<1>3. s \in [Nat -> N]
  BY DEF Back
<1> HIDE DEF s
<1>4. ASSUME NEW i \in 0 .. k
      PROVE  g.prev[s[i]] = s[i + 1] /\ g.next[s[i + 1]] = s[i]
  <2>1. k - i \in 0 .. k /\ i \in 0 .. k + 1 /\ i + 1 \in 0 .. k + 1
        /\ k + 1 - i = (k - i) + 1 /\ k + 1 - (i + 1) = k - i
    OBVIOUS
  <2>2. s[i] = r[(k - i) + 1] /\ s[i + 1] = r[k - i]
    BY <1>2, <2>1
  <2>3. QED
    BY <1>1, <2>1, <2>2
<1>5. s[0] = head /\ s[k + 1] = head
  BY <1>1, <1>2
<1>6. ASSUME NEW i \in 0 .. k, NEW j \in 0 .. k, s[i] = s[j]
      PROVE  i = j
  <2>1. CASE i = 0 /\ j # 0
    <3>1. k + 1 - j \in 0 .. k /\ 0 \in 0 .. k /\ k + 1 - j # 0 /\ j \in 0 .. k + 1
      BY <2>1
    <3>2. r[k + 1 - j] = r[0]
      BY <1>1, <1>2, <1>5, <1>6, <2>1, <3>1
    <3>3. QED
      BY <1>1, <3>1, <3>2
  <2>2. CASE i # 0 /\ j = 0
    <3>1. k + 1 - i \in 0 .. k /\ 0 \in 0 .. k /\ k + 1 - i # 0 /\ i \in 0 .. k + 1
      BY <2>2
    <3>2. r[k + 1 - i] = r[0]
      BY <1>1, <1>2, <1>5, <1>6, <2>2, <3>1
    <3>3. QED
      BY <1>1, <3>1, <3>2
  <2>3. CASE i # 0 /\ j # 0
    <3>1. k + 1 - i \in 0 .. k /\ k + 1 - j \in 0 .. k /\ i \in 0 .. k + 1 /\ j \in 0 .. k + 1
      BY <2>3
    <3>2. k + 1 - i = k + 1 - j
      BY <1>1, <1>2, <1>6, <3>1
    <3>3. QED
      BY <3>2
  <2>4. QED
    BY <2>1, <2>2, <2>3
<1>7. Ring([next |-> g.prev, prev |-> g.next], head, k, s)
  BY <1>4, <1>5, <1>6 DEF Ring
<1>8. QED
  BY <1>3, <1>7 DEF s

-----------------------------------------------------------------------------
(* What Walk returns *)

\* Induction over the natural numbers, for a set.
LEMMA Induction ==
  ASSUME NEW S, 0 \in S, \A n \in Nat : n \in S => n + 1 \in S
  PROVE  \A n \in Nat : n \in S
<1> DEFINE T == {n \in Nat : n \notin S}
<1> SUFFICES ASSUME T # {} PROVE FALSE
  OBVIOUS
<1>1. T \subseteq Nat
  OBVIOUS
<1>2. PICK x \in T : \A y \in T : ~ (<<y, x>> \in OpToRel(<, Nat))
  BY <1>1, NatLessThanWellFounded, WFMin
<1>3. x # 0 /\ x - 1 \in Nat /\ (x - 1) + 1 = x
  OBVIOUS
<1>4. x - 1 \in T
  BY <1>3
<1>5. <<x - 1, x>> \in OpToRel(<, Nat)
  BY <1>1, <1>3, <1>4 DEF OpToRel
<1>6. QED
  BY <1>2, <1>4, <1>5

\* The entries of a list, from the front, are a sequence.
LEMMA ListIsSeq ==
  ASSUME NEW N, NEW n \in Nat, NEW s \in [1 .. n -> N]
  PROVE  s \in Seq(N) /\ Len(s) = n /\ DOMAIN s = 1 .. n
  BY SeqDef

\* One call of Walk's recursion: what there is from each node, left at most
Step(f, h, head, left) ==
  [n \in DOMAIN h.next |->
     IF n = head \/ left = 0 THEN <<>> ELSE <<n>> \o f[left - 1][h.next[n]]]

\* f is the recursive function of Walk.
Recurs(f, h, head, max) == f = [left \in 0 .. max |-> Step(f, h, head, left)]

\* The recursive function of Walk exists.
LEMMA WalkExists ==
  ASSUME NEW h, NEW head
  PROVE  \A max \in Nat : \E f : Recurs(f, h, head, max)
<1> DEFINE S == {max \in Nat : \E f : Recurs(f, h, head, max)}
<1>1. 0 \in S
  <2> DEFINE f == [left \in 0 .. 0 |-> [n \in DOMAIN h.next |-> <<>>]]
  <2>1. f = [left \in 0 .. 0 |-> Step(f, h, head, left)]
    BY DEF Step
  <2> HIDE DEF f
  <2>2. QED
    BY <2>1 DEF Recurs
<1>2. ASSUME NEW n \in Nat, n \in S
      PROVE  n + 1 \in S
  <2>1. PICK f : f = [left \in 0 .. n |-> Step(f, h, head, left)]
    BY <1>2 DEF Recurs
  <2> DEFINE g == [left \in 0 .. n + 1 |-> Step(f, h, head, left)]
  <2>2. \A left \in 0 .. n : g[left] = f[left]
    BY <2>1
  <2>3. ASSUME NEW left \in 0 .. n + 1
        PROVE  Step(f, h, head, left) = Step(g, h, head, left)
    <3>1. CASE left = 0
      BY <3>1 DEF Step
    <3>2. CASE left # 0
      <4>1. left - 1 \in 0 .. n
        BY <3>2
      <4>2. g[left - 1] = f[left - 1]
        BY <2>2, <4>1
      <4> HIDE DEF g
      <4>3. QED
        BY <4>2 DEF Step
    <3>3. QED
      BY <3>1, <3>2
  <2>4. g = [left \in 0 .. n + 1 |-> Step(g, h, head, left)]
    <3>1. [left \in 0 .. n + 1 |-> Step(f, h, head, left)]
            = [left \in 0 .. n + 1 |-> Step(g, h, head, left)]
      BY <2>3, Zenon
    <3>2. QED
      BY <3>1
  <2> HIDE DEF g
  <2>5. QED
    BY <2>4 DEF Recurs
<1> HIDE DEF S
<1>3. \A max \in Nat : max \in S
  BY <1>1, <1>2, Induction
<1>4. QED
  BY <1>3 DEF S

\* The first n entries of a ring
Items(r, n) == [i \in 1 .. n |-> r[i]]

\* Walk lists the entries of a list from front to back (list.h:194).
LEMMA WalkLists ==
  ASSUME NEW N, NEW h, h.next \in [N -> N], NEW head, NEW n \in Nat, NEW r \in [Nat -> N],
         Ring(h, head, n, r), NEW max \in Nat, n <= max
  PROVE  Walk(h, head, max) = Items(r, n)
<1> DEFINE from == CHOOSE f : f = [left \in 0 .. max |-> Step(f, h, head, left)]
<1>1. from = [left \in 0 .. max |-> Step(from, h, head, left)]
  <2>1. \E f : Recurs(f, h, head, max)
    BY WalkExists
  <2>2. QED
    BY <2>1, Zenon DEF Recurs
<1>2. Walk(h, head, max) = from[max][h.next[head]]
  BY DEF Walk, Step
<1> HIDE DEF from
<1> DEFINE Rest(k) == [i \in 1 .. k |-> r[n - k + i]]
           S == {k \in Nat : k <= n =>
                   \A left \in k .. max : from[left][r[n - k + 1]] = Rest(k)}
<1>3. /\ r[0] = head /\ r[n + 1] = head
      /\ \A i \in 0 .. n : h.next[r[i]] = r[i + 1]
      /\ \A i, j \in 0 .. n : r[i] = r[j] => i = j
      /\ \A i \in Nat : r[i] \in N
  BY DEF Ring
<1>4. ASSUME NEW left \in 0 .. max, NEW m \in N
      PROVE  from[left][m] = IF m = head \/ left = 0 THEN <<>> ELSE <<m>> \o from[left - 1][h.next[m]]
  <2>1. from[left] = Step(from, h, head, left)
    BY <1>1
  <2>2. QED
    BY <2>1 DEF Step
<1>5. 0 \in S
  <2> SUFFICES ASSUME NEW left \in 0 .. max PROVE from[left][r[n - 0 + 1]] = Rest(0)
    OBVIOUS
  <2>1. r[n - 0 + 1] = head /\ head \in N
    BY <1>3
  <2>2. from[left][head] = <<>>
    BY <1>4, <2>1
  <2>3. Rest(0) = <<>>
    OBVIOUS
  <2>4. QED
    BY <2>1, <2>2, <2>3
<1>6. ASSUME NEW k \in Nat, k \in S
      PROVE  k + 1 \in S
  <2> SUFFICES ASSUME k + 1 <= n, NEW left \in k + 1 .. max
               PROVE  from[left][r[n - (k + 1) + 1]] = Rest(k + 1)
    OBVIOUS
  <2> DEFINE m == r[n - k]
  <2>1. n - (k + 1) + 1 = n - k /\ n - k \in 1 .. n /\ left \in 0 .. max /\ left # 0 /\ left - 1 \in k .. max
    OBVIOUS
  <2>2. m \in N /\ m # head
    BY <1>3, <2>1
  <2>3. h.next[m] = r[n - k + 1]
    BY <1>3, <2>1
  <2>4. from[left][m] = <<m>> \o from[left - 1][h.next[m]]
    BY <1>4, <2>1, <2>2
  <2>5. from[left - 1][h.next[m]] = Rest(k)
    BY <1>6, <2>1, <2>3
  <2>6. <<m>> \o Rest(k) = Rest(k + 1)
    <3>1. Rest(k) \in Seq(N) /\ Len(Rest(k)) = k
      BY <1>3, ListIsSeq
    <3>2. Rest(k + 1) \in Seq(N) /\ Len(Rest(k + 1)) = k + 1
      BY <1>3, ListIsSeq
    <3>3. <<m>> \in Seq(N) /\ Len(<<m>>) = 1 /\ <<m>>[1] = m
      BY <2>2
    <3>4. /\ <<m>> \o Rest(k) \in Seq(N)
          /\ Len(<<m>> \o Rest(k)) = k + 1
          /\ \A i \in 1 .. k + 1 : (<<m>> \o Rest(k))[i] = IF i <= 1 THEN m ELSE Rest(k)[i - 1]
      BY <3>1, <3>3, ConcatProperties
    <3>5. \A i \in 1 .. k + 1 : (<<m>> \o Rest(k))[i] = Rest(k + 1)[i]
      BY <3>4
    <3>6. QED
      BY <3>2, <3>4, <3>5, SeqEqual
  <2>7. QED
    BY <2>1, <2>4, <2>5, <2>6
<1>7. \A left \in n .. max : from[left][r[n - n + 1]] = Rest(n)
  <2> HIDE DEF S
  <2>1. n \in S
    BY <1>5, <1>6, Induction
  <2>2. QED
    BY <2>1 DEF S
<1>8. from[max][r[1]] = [i \in 1 .. n |-> r[i]]
  <2>1. Rest(n) = [i \in 1 .. n |-> r[i]]
    OBVIOUS
  <2>2. QED
    BY <1>7, <2>1
<1>9. h.next[head] = r[1]
  BY <1>3
<1>10. QED
  BY <1>2, <1>8, <1>9 DEF Items

=============================================================================

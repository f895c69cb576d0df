--------------------------- MODULE SlabListProofs ---------------------------
(***************************************************************************)
(* The pointers of the lists of slabs implement sequences, for any number  *)
(* of slabs and lists.  The invariant is that sequences exist which the    *)
(* pointers spell out; that a walk meets just these is shown by looking at *)
(* the first place where it would not.                                     *)
(***************************************************************************)
EXTENDS SlabList, ListLemmas

Places    == Slabs \cup {NULL}
Contents  == [Lists -> Seq(Slabs)]
PointerType == [head : [Lists -> Places], tail : [Lists -> Places],
                next : [Slabs -> Places], prev : [Slabs -> Places]]

\* The pointers p of list li spell out the sequence q.
Spells(p, li, q) ==
  /\ p.head[li] = IF Len(q) = 0 THEN NULL ELSE q[1]
  /\ p.tail[li] = IF Len(q) = 0 THEN NULL ELSE q[Len(q)]
  /\ \A i \in 1..Len(q) : p.next[q[i]] = IF i = Len(q) THEN NULL ELSE q[i + 1]
  /\ \A i \in 2..Len(q) : p.prev[q[i]] = q[i - 1]

\* No slab is at two places.
Once(w) == \A li, lj \in Lists : \A i \in 1..Len(w[li]), j \in 1..Len(w[lj]) :
             w[li][i] = w[lj][j] => li = lj /\ i = j

Rep(p, w) ==
  /\ p \in PointerType /\ w \in Contents /\ Once(w)
  /\ \A li \in Lists : Spells(p, li, w[li])

\* Every slab is on a list.
All(w) == \A s \in Slabs : \E li \in Lists : Contains(w[li], s)

IInv == \E w \in Contents : Rep(m, w) /\ All(w)
-----------------------------------------------------------------------------
(* Walks                                                                   *)

\* The sequence q has no more elements than there are slabs.
LEMMA Short ==
  ASSUME NEW q \in Seq(Slabs), IsInjective(q)
  PROVE  Len(q) \in Nat /\ Len(q) <= slabctl_count
<1> DEFINE n == Len(q)
<1>1. n \in Nat /\ slabctl_count \in Nat /\ slabctl_count > 0 /\ DOMAIN q = 1..n
  BY ListsAssumption
<1>2. IsFiniteSet(Slabs) /\ Cardinality(Slabs) = slabctl_count
  BY <1>1, FS_Interval DEF Slabs
<1>3. IsFiniteSet(1..n) /\ Cardinality(1..n) = n
  BY <1>1, FS_Interval
<1>4. q \in Injection(1..n, Slabs)
  <2>1. q \in [1..n -> Slabs]
    BY <1>1
  <2>2. \A i, j \in 1..n : q[i] = q[j] => i = j
    BY <1>1 DEF IsInjective
  <2> HIDE DEF n
  <2> QED BY <2>1, <2>2 DEF Injection
<1>5. Cardinality(1..n) <= Cardinality(Slabs)
  <2> HIDE DEF n
  <2> QED BY <1>2, <1>3, <1>4, FS_Injection DEF ExistsInjection
<1> QED BY <1>1, <1>2, <1>3, <1>5

\* A walk that follows next meets the sequence, and then NULL.
LEMMA NthIs ==
  ASSUME NEW p \in PointerType, NEW li \in Lists, NEW q \in Seq(Slabs), Spells(p, li, q),
         NEW n \in Nat, n >= 1
  PROVE  Nth(p, p.head[li], n) = IF n <= Len(q) THEN q[n] ELSE NULL
<1> DEFINE s == p.head[li]
           Step(f) == [i \in 1..n |-> IF i = 1 THEN s
                                      ELSE IF f[i - 1] = NULL THEN NULL ELSE p.next[f[i - 1]]]
           at == CHOOSE f : f = Step(f)
           g == [i \in 1..n |-> IF i <= Len(q) THEN q[i] ELSE NULL]
<1>1. Nth(p, s, n) = at[n]
  BY DEF Nth
<1>2. /\ Len(q) \in Nat /\ NULL \notin Slabs /\ \A i \in 1..Len(q) : q[i] \in Slabs
      /\ s = IF Len(q) = 0 THEN NULL ELSE q[1]
      /\ \A i \in 1..Len(q) : p.next[q[i]] = IF i = Len(q) THEN NULL ELSE q[i + 1]
  BY ListsAssumption DEF Spells
<1>3. \A i \in 1..n : g[i] = IF i <= Len(q) THEN q[i] ELSE NULL
  OBVIOUS
<1> HIDE DEF s
<1>4. ASSUME NEW i \in 2..n
      PROVE  g[i] = IF g[i - 1] = NULL THEN NULL ELSE p.next[g[i - 1]]
  <2> HIDE DEF g
  <2>1. i \in 1..n /\ i - 1 \in 1..n /\ (i - 1) + 1 = i
    OBVIOUS
  <2>2. CASE i - 1 <= Len(q)
    <3>1. i - 1 \in 1..Len(q)
      BY <1>2, <2>1, <2>2
    <3>2. g[i - 1] = q[i - 1] /\ q[i - 1] # NULL
      BY <1>2, <1>3, <2>1, <2>2, <3>1
    <3>3. p.next[q[i - 1]] = IF i - 1 = Len(q) THEN NULL ELSE q[i]
      BY <1>2, <2>1, <3>1
    <3>4. g[i] = IF i - 1 = Len(q) THEN NULL ELSE q[i]
      BY <1>2, <1>3, <2>1, <2>2
    <3> QED BY <3>2, <3>3, <3>4
  <2>3. CASE ~(i - 1 <= Len(q))
    <3>1. g[i - 1] = NULL /\ g[i] = NULL
      BY <1>2, <1>3, <2>1, <2>3
    <3> QED BY <3>1
  <2> QED BY <2>2, <2>3
<1>5. g[1] = s
  BY <1>2, <1>3
<1>6. g = Step(g)
  <2>1. ASSUME NEW i \in 1..n
        PROVE  g[i] = IF i = 1 THEN s ELSE IF g[i - 1] = NULL THEN NULL ELSE p.next[g[i - 1]]
    <3> HIDE DEF g
    <3>1. i = 1 \/ i \in 2..n
      OBVIOUS
    <3> QED BY <1>4, <1>5, <3>1
  <2> QED BY <2>1
<1>7. at = Step(at)
  <2> HIDE DEF Step, g
  <2> QED BY <1>6
<1>8. \A i \in 1..n : at[i] = IF i = 1 THEN s ELSE IF at[i - 1] = NULL THEN NULL ELSE p.next[at[i - 1]]
  <2> HIDE DEF at
  <2> QED BY <1>7
<1> HIDE DEF at, g
<1>9. \A i \in 1..n : at[i] = g[i]
  <2> SUFFICES ASSUME NEW j \in 1..n, at[j] # g[j] PROVE FALSE
    OBVIOUS
  <2> DEFINE T == {i \in 1..n : at[i] # g[i]}
  <2>1. T \in SUBSET Nat /\ T # {}
    OBVIOUS
  <2>2. PICK k \in T : \A y \in T : k <= y
    BY <2>1, Least
  <2>3. k \in 1..n /\ at[k] # g[k]
    OBVIOUS
  <2>4. k # 1
    BY <1>5, <1>8, <2>3
  <2>5. k \in 2..n /\ k - 1 \in 1..n
    BY <2>3, <2>4
  <2>6. at[k - 1] = g[k - 1]
    BY <2>2, <2>5
  <2> QED BY <1>4, <1>8, <2>3, <2>4, <2>5, <2>6
<1> QED BY <1>1, <1>3, <1>9 DEF s

\* What is at one place of the lists is at no other, so each list holds nothing twice.
LEMMA OnceInjective ==
  ASSUME NEW w \in Contents, Once(w), NEW li \in Lists
  PROVE  w[li] \in Seq(Slabs) /\ Len(w[li]) \in Nat /\ IsInjective(w[li])
<1>1. w[li] \in Seq(Slabs)
  BY DEF Contents
<1>2. DOMAIN w[li] = 1..Len(w[li]) /\ Len(w[li]) \in Nat
  BY <1>1
<1> QED BY <1>1, <1>2 DEF Once, IsInjective

\* A walk through the pointers meets the sequence they spell out.
LEMMA WalkIs ==
  ASSUME NEW p, NEW w, Rep(p, w), NEW li \in Lists
  PROVE  Walk(p, li) = w[li]
<1> DEFINE q == w[li]
           met == {n \in 1..slabctl_count : Nth(p, p.head[li], n) # NULL}
<1>1. p \in PointerType /\ w \in Contents /\ Once(w) /\ Spells(p, li, q)
  BY DEF Rep
<1>2. q \in Seq(Slabs) /\ Len(q) \in Nat /\ IsInjective(q)
  BY <1>1, OnceInjective
<1>3. Len(q) <= slabctl_count /\ slabctl_count \in Nat /\ NULL \notin Slabs
  BY <1>2, Short, ListsAssumption
<1>4. ASSUME NEW n \in 1..slabctl_count
      PROVE  Nth(p, p.head[li], n) = IF n <= Len(q) THEN q[n] ELSE NULL
  <2>1. n \in Nat /\ n >= 1
    BY <1>3
  <2> HIDE DEF q
  <2> QED BY <1>1, <1>2, <2>1, NthIs
<1>5. DOMAIN q = 1..Len(q) /\ q = [n \in 1..Len(q) |-> q[n]] /\ \A n \in 1..Len(q) : q[n] \in Slabs
  BY <1>2
<1> HIDE DEF q
<1>6. met = 1..Len(q)
  BY <1>2, <1>3, <1>4, <1>5
<1>7. Cardinality(met) = Len(q)
  <2> HIDE DEF met
  <2> QED BY <1>2, <1>6, FS_Interval
<1>8. Walk(p, li) = [n \in 1..Len(q) |-> Nth(p, p.head[li], n)]
  BY <1>7 DEF Walk
<1>9. [n \in 1..Len(q) |-> Nth(p, p.head[li], n)] = [n \in 1..Len(q) |-> q[n]]
  BY <1>2, <1>3, <1>4
<1> QED BY <1>5, <1>8, <1>9 DEF q
-----------------------------------------------------------------------------
(* Putting a slab in, and taking one out                                   *)

\* The sequences, list by list.
LEMMA ContentsAre ==
  ASSUME NEW w \in Contents, NEW li \in Lists
  PROVE  /\ w[li] \in Seq(Slabs) /\ Len(w[li]) \in Nat
         /\ \A i \in 1..Len(w[li]) : w[li][i] \in Slabs
  BY DEF Contents

\* A slab put in front of others.
LEMMA SlabsCons ==
  ASSUME NEW q \in Seq(Slabs), NEW s \in Slabs
  PROVE  /\ Cons(s, q) \in Seq(Slabs) /\ Len(Cons(s, q)) = Len(q) + 1 /\ Cons(s, q)[1] = s
         /\ \A i \in 1..Len(q) : Cons(s, q)[i + 1] = q[i]
         /\ \A i \in 2..(Len(q) + 1) : i - 1 \in 1..Len(q) /\ Cons(s, q)[i] = q[i - 1]
<1> DEFINE new == <<s>> \o q
<1>1. /\ new \in Seq(Slabs) /\ Len(new) = Len(q) + 1 /\ new[1] = s /\ Len(q) \in Nat
      /\ \A i \in 1..Len(q) : new[i + 1] = q[i]
  OBVIOUS
<1>2. \A i \in 2..(Len(q) + 1) : i - 1 \in 1..Len(q) /\ new[i] = q[i - 1]
  BY <1>1
<1> QED BY <1>1, <1>2 DEF Cons

\* push puts a slab that is on no list at the head of one.
LEMMA PushRep ==
  ASSUME NEW p, NEW w, Rep(p, w), NEW li \in Lists, NEW s \in Slabs,
         \A lj \in Lists : \A i \in 1..Len(w[lj]) : w[lj][i] # s,
         NEW v, v = [w EXCEPT ![li] = Cons(s, w[li])]
  PROVE  Rep(push(p, li, s), v)
<1> DEFINE r == push(p, li, s)
           q == w[li]
           n == Len(q)
           c == Cons(s, q)
<1>1. p \in PointerType /\ w \in Contents /\ Once(w) /\ \A lj \in Lists : Spells(p, lj, w[lj])
  BY DEF Rep
<1>2. /\ q \in Seq(Slabs) /\ n \in Nat /\ (\A i \in 1..n : q[i] \in Slabs) /\ NULL \notin Slabs
      /\ p.head[li] = IF n = 0 THEN NULL ELSE q[1]
      /\ p.tail[li] = IF n = 0 THEN NULL ELSE q[n]
      /\ \A i \in 1..n : p.next[q[i]] = IF i = n THEN NULL ELSE q[i + 1]
      /\ \A i \in 2..n : p.prev[q[i]] = q[i - 1]
  BY <1>1, ContentsAre, ListsAssumption DEF Spells
<1>3. /\ c \in Seq(Slabs) /\ Len(c) = n + 1 /\ c[1] = s
      /\ \A i \in 1..n : c[i + 1] = q[i]
      /\ \A i \in 2..(n + 1) : i - 1 \in 1..n /\ c[i] = q[i - 1]
  <2>1. q \in Seq(Slabs)
    BY <1>2
  <2> HIDE DEF q
  <2> QED BY <2>1, SlabsCons
<1>4. v \in Contents /\ v[li] = c /\ \A lj \in Lists : lj # li => v[lj] = w[lj]
  <2> HIDE DEF c
  <2> QED BY <1>1, <1>3 DEF Contents, c
<1>5. r \in PointerType
  BY <1>1 DEF push, PointerType, Places
<1>6. /\ \A lj \in Lists : r.head[lj] = IF lj = li THEN s ELSE p.head[lj]
      /\ \A lj \in Lists : r.tail[lj] = IF lj = li /\ p.head[li] = NULL THEN s ELSE p.tail[lj]
      /\ \A x \in Slabs : r.next[x] = IF x = s THEN p.head[li] ELSE p.next[x]
      /\ \A x \in Slabs : r.prev[x] = IF x = s THEN NULL ELSE IF x = p.head[li] THEN s ELSE p.prev[x]
  BY <1>1 DEF push, PointerType
<1>7. ASSUME NEW lj \in Lists, NEW i \in 1..Len(v[lj])
      PROVE  IF lj = li THEN IF i = 1 THEN v[lj][i] = s
                             ELSE i - 1 \in 1..n /\ v[lj][i] = w[lj][i - 1] /\ v[lj][i] # s
             ELSE i \in 1..Len(w[lj]) /\ v[lj][i] = w[lj][i] /\ v[lj][i] # s
  <2> HIDE DEF r, c
  <2>1. CASE lj = li
    <3>1. i = 1 \/ i \in 2..(n + 1)
      BY <1>2, <1>3, <1>4, <2>1
    <3> QED BY <1>3, <1>4, <2>1, <3>1
  <2>2. CASE lj # li
    BY <1>4, <2>2
  <2> QED BY <2>1, <2>2
<1>8. Once(v)
  <2> SUFFICES ASSUME NEW la \in Lists, NEW lb \in Lists, NEW i \in 1..Len(v[la]), NEW j \in 1..Len(v[lb]),
                      v[la][i] = v[lb][j]
               PROVE  la = lb /\ i = j
    BY DEF Once
  <2>1. CASE v[la][i] = s
    BY <1>7, <2>1
  <2>2. CASE v[la][i] # s
    <3> DEFINE a == IF la = li THEN i - 1 ELSE i
               b == IF lb = li THEN j - 1 ELSE j
    <3>1. a \in 1..Len(w[la]) /\ b \in 1..Len(w[lb]) /\ w[la][a] = w[lb][b]
      BY <1>7, <2>2
    <3>2. la = lb /\ a = b
      <4> HIDE DEF a, b
      <4> QED BY <1>1, <3>1 DEF Once
    <3>3. i \in Int /\ j \in Int
      OBVIOUS
    <3> QED BY <3>2, <3>3
  <2> QED BY <2>1, <2>2
<1> HIDE DEF r, c
<1>9. ASSUME NEW lj \in Lists, lj # li PROVE Spells(r, lj, v[lj])
  <2> DEFINE d == w[lj]
  <2>1. /\ d \in Seq(Slabs) /\ Len(d) \in Nat /\ (\A i \in 1..Len(d) : d[i] \in Slabs /\ d[i] # s)
        /\ v[lj] = d /\ Spells(p, lj, d)
    BY <1>1, <1>4, <1>9, ContentsAre
  <2>2. \A i \in 1..Len(d) : d[i] # p.head[li]
    <3>1. n # 0 => 1 \in 1..n
      BY <1>2
    <3> QED BY <1>1, <1>2, <1>9, <2>1, <3>1 DEF Once
  <2> HIDE DEF d
  <2>3. \A i \in 2..Len(d) : i \in 1..Len(d)
    BY <2>1
  <2>4. r.head[lj] = p.head[lj] /\ r.tail[lj] = p.tail[lj]
    BY <1>6, <1>9
  <2>5. \A i \in 1..Len(d) : r.next[d[i]] = p.next[d[i]] /\ r.prev[d[i]] = p.prev[d[i]]
    BY <1>6, <2>1, <2>2
  <2> QED BY <2>1, <2>3, <2>4, <2>5 DEF Spells
<1>10. Spells(r, li, v[li])
  <2>1. r.head[li] = c[1] /\ Len(c) # 0
    BY <1>2, <1>3, <1>6
  <2>2. r.tail[li] = c[Len(c)]
    <3>1. CASE n = 0
      BY <1>2, <1>3, <1>6, <3>1
    <3>2. CASE n # 0
      <4>1. n \in 1..n /\ q[1] # NULL
        BY <1>2, <3>2
      <4> QED BY <1>2, <1>3, <1>6, <3>2, <4>1
    <3> QED BY <3>1, <3>2
  <2>3. ASSUME NEW i \in 1..Len(c) PROVE r.next[c[i]] = IF i = Len(c) THEN NULL ELSE c[i + 1]
    <3>1. CASE i = 1
      <4>1. n # 0 => 1 \in 1..n /\ c[2] = q[1]
        BY <1>2, <1>3
      <4> QED BY <1>2, <1>3, <1>6, <3>1, <4>1
    <3>2. CASE i # 1
      <4>1. i \in 2..(n + 1) /\ i - 1 \in 1..n
        BY <1>2, <1>3, <3>2
      <4>2. c[i] = q[i - 1] /\ q[i - 1] # s /\ q[i - 1] \in Slabs
        BY <1>2, <1>3, <4>1
      <4>3. p.next[q[i - 1]] = IF i - 1 = n THEN NULL ELSE q[i]
        BY <1>2, <4>1
      <4>4. i # n + 1 => c[i + 1] = q[i]
        BY <1>2, <1>3, <4>1
      <4>5. r.next[c[i]] = p.next[c[i]]
        BY <1>6, <4>2
      <4>6. Len(c) = n + 1 /\ (i - 1 = n <=> i = n + 1)
        <5>1. Len(c) = n + 1 /\ n \in Int
          BY <1>2, <1>3
        <5>2. i \in Int
          OBVIOUS
        <5> HIDE DEF n, c
        <5> QED BY <5>1, <5>2
      <4> QED BY <4>2, <4>3, <4>4, <4>5, <4>6
    <3> QED BY <3>1, <3>2
  <2>4. ASSUME NEW i \in 2..Len(c) PROVE r.prev[c[i]] = c[i - 1]
    <3>1. /\ i \in 2..(n + 1) /\ i - 1 \in 1..n /\ 1 \in 1..n
          /\ c[i] = q[i - 1] /\ q[i - 1] # s /\ q[i - 1] \in Slabs
      <4>1. n \in Nat /\ i \in 2..(n + 1)
        BY <1>2, <1>3
      <4>2. i - 1 \in 1..n /\ 1 \in 1..n
        BY <4>1
      <4> QED BY <1>2, <1>3, <4>1, <4>2
    <3>2. CASE i = 2
      BY <1>2, <1>3, <1>6, <3>1, <3>2
    <3>3. CASE i # 2
      <4> DEFINE k == i - 1
      <4>1. k \in 2..n /\ k \in 1..n /\ k # 1 /\ k \in 2..(n + 1)
        <5>1. n \in Nat /\ i \in 2..(n + 1) /\ i # 2
          BY <1>2, <3>1, <3>3
        <5> HIDE DEF n
        <5> QED BY <5>1
      <4> HIDE DEF k
      <4>2. q[k] # q[1]
        BY <1>1, <3>1, <4>1 DEF Once
      <4>3. p.prev[q[k]] = q[k - 1] /\ c[k] = q[k - 1]
        BY <1>2, <1>3, <4>1
      <4>4. c[i] = q[k] /\ c[i - 1] = c[k] /\ q[k] # s /\ q[k] \in Slabs
        BY <3>1 DEF k
      <4>5. p.head[li] = q[1]
        BY <1>2, <3>1
      <4> QED BY <1>6, <4>2, <4>3, <4>4, <4>5
    <3> QED BY <3>2, <3>3
  <2> QED BY <1>4, <2>1, <2>2, <2>3, <2>4 DEF Spells
<1> QED BY <1>4, <1>5, <1>8, <1>9, <1>10 DEF Rep, r

\* What is left of slabs when the one at place k is taken out.
LEMMA SlabsRemove ==
  ASSUME NEW q \in Seq(Slabs), NEW k \in 1..Len(q)
  PROVE  /\ RemoveAt(q, k) \in Seq(Slabs) /\ Len(RemoveAt(q, k)) = Len(q) - 1
         /\ \A i \in 1..(Len(q) - 1) : RemoveAt(q, k)[i] = IF i < k THEN q[i] ELSE q[i + 1]
  BY RemoveAtIs

\* What the pointers r are to be after rem took the slab at place k out of the sequence
\* q of list li: the slabs beside it point at one another, and the head and the tail of
\* li pass over it.  What the slab itself points at, and the prev of a new head, stay.
Unlinked(p, r, li, q, k) ==
  /\ r \in PointerType
  /\ \A lj \in Lists \ {li} : r.head[lj] = p.head[lj] /\ r.tail[lj] = p.tail[lj]
  /\ r.head[li] = IF k > 1 THEN q[1] ELSE IF Len(q) = 1 THEN NULL ELSE q[2]
  /\ r.tail[li] = IF k < Len(q) THEN q[Len(q)] ELSE IF Len(q) = 1 THEN NULL ELSE q[Len(q) - 1]
  /\ k > 1 => r.next[q[k - 1]] = IF k = Len(q) THEN NULL ELSE q[k + 1]
  /\ k > 1 /\ k < Len(q) => r.prev[q[k + 1]] = q[k - 1]
  /\ \A x \in Slabs : x # q[k] /\ (k > 1 => x # q[k - 1]) => r.next[x] = p.next[x]
  /\ \A x \in Slabs : x # q[k] /\ (k < Len(q) => x # q[k + 1]) => r.prev[x] = p.prev[x]

\* rem unlinks the slab at the head, at the tail, and between others.
LEMMA RemUnlinks ==
  ASSUME NEW p, NEW w, Rep(p, w), NEW li \in Lists, NEW k \in 1..Len(w[li])
  PROVE  Unlinked(p, rem(p, li, w[li][k]), li, w[li], k)
<1> DEFINE q == w[li]
           n == Len(q)
           s == q[k]
           r == rem(p, li, s)
<1> SUFFICES Unlinked(p, r, li, q, k)
  OBVIOUS
<1>1. p \in PointerType /\ w \in Contents /\ Once(w) /\ Spells(p, li, q)
  BY DEF Rep
<1>2. /\ n \in Nat /\ (\A i \in 1..n : q[i] \in Slabs) /\ NULL \notin Slabs /\ n # 0 /\ k \in 1..n /\ s \in Slabs
      /\ p.head[li] = q[1] /\ p.tail[li] = q[n]
      /\ \A i \in 1..n : p.next[q[i]] = IF i = n THEN NULL ELSE q[i + 1]
      /\ \A i \in 2..n : p.prev[q[i]] = q[i - 1]
  BY <1>1, ContentsAre, ListsAssumption DEF Spells
<1>3. \A i, j \in 1..n : q[i] = q[j] => i = j
  BY <1>1 DEF Once
<1>4. /\ p.head \in [Lists -> Places] /\ p.tail \in [Lists -> Places]
      /\ p.next \in [Slabs -> Places] /\ p.prev \in [Slabs -> Places]
  BY <1>1 DEF PointerType
<1>5. 1 \in 1..n /\ n \in 1..n
  BY <1>2
<1> HIDE DEF n, q
<1>6. CASE k = 1
  <2>1. r = pop(p, li) /\ p.next[s] = IF n = 1 THEN NULL ELSE q[2]
    BY <1>2, <1>5, <1>6 DEF rem
  <2>2. /\ r.head = [p.head EXCEPT ![li] = p.next[s]]
        /\ r.tail = IF n = 1 THEN [p.tail EXCEPT ![li] = NULL] ELSE p.tail
        /\ r.next = p.next /\ r.prev = [p.prev EXCEPT ![s] = NULL]
    <3>1. n # 1 => 2 \in 1..n
      BY <1>2
    <3> QED BY <1>2, <1>6, <2>1, <3>1 DEF pop
  <2>3. r \in PointerType
    BY <1>2, <1>4, <2>1 DEF pop, PointerType, Places
  <2> HIDE DEF r, s
  <2>4. /\ r.head[li] = IF n = 1 THEN NULL ELSE q[2]
        /\ r.tail[li] = IF n = 1 THEN NULL ELSE q[n]
        /\ \A lj \in Lists \ {li} : r.head[lj] = p.head[lj] /\ r.tail[lj] = p.tail[lj]
        /\ \A x \in Slabs : r.next[x] = p.next[x] /\ (x # s => r.prev[x] = p.prev[x])
    BY <1>2, <1>4, <2>1, <2>2
  <2>5. ~(k > 1) /\ (k < n <=> n # 1)
    BY <1>2, <1>6
  <2> QED BY <2>3, <2>4, <2>5 DEF Unlinked, n, s
<1>7. CASE k # 1 /\ k = n
  <2> DEFINE b == p.prev[q[n]]
  <2>1. s # p.head[li] /\ s = p.tail[li] /\ b = q[n - 1] /\ b \in Slabs /\ b # s /\ k > 1 /\ n > 1
    <3>1. n - 1 \in 1..n /\ n \in 2..n /\ k > 1
      BY <1>2, <1>7
    <3> QED BY <1>2, <1>3, <1>5, <1>7, <3>1
  <2>2. r = [p EXCEPT !.next[b] = NULL, !.tail[li] = b]
    BY <1>2, <2>1 DEF rem, unlink_tail
  <2> HIDE DEF b, s, r
  <2>3. /\ r.head = p.head /\ r.tail = [p.tail EXCEPT ![li] = b]
        /\ r.next = [p.next EXCEPT ![b] = NULL] /\ r.prev = p.prev /\ r \in PointerType
    BY <1>1, <2>1, <2>2 DEF PointerType, Places
  <2>4. /\ r.head[li] = q[1] /\ r.tail[li] = b /\ r.next[b] = NULL
        /\ \A lj \in Lists \ {li} : r.head[lj] = p.head[lj] /\ r.tail[lj] = p.tail[lj]
        /\ \A x \in Slabs : x # b => r.next[x] = p.next[x]
    BY <1>2, <1>4, <2>1, <2>3
  <2> QED BY <1>2, <1>7, <2>1, <2>3, <2>4 DEF Unlinked, n, s
<1>8. CASE k # 1 /\ k # n
  <2> DEFINE b == p.prev[s]
             a == p.next[s]
  <2>1. /\ s # p.head[li] /\ s # p.tail[li] /\ b = q[k - 1] /\ b \in Slabs /\ a = q[k + 1] /\ a \in Slabs
        /\ k > 1 /\ k < n
    <3>1. k - 1 \in 1..n /\ k + 1 \in 1..n /\ k \in 2..n /\ k > 1 /\ k < n
      BY <1>2, <1>8
    <3> QED BY <1>2, <1>3, <1>5, <1>8, <3>1
  <2>2. r = [p EXCEPT !.next[b] = a, !.prev[a] = b]
    BY <1>2, <2>1 DEF rem
  <2> HIDE DEF a, b, s, r
  <2>3. /\ r.head = p.head /\ r.tail = p.tail
        /\ r.next = [p.next EXCEPT ![b] = a] /\ r.prev = [p.prev EXCEPT ![a] = b] /\ r \in PointerType
    BY <1>1, <2>1, <2>2 DEF PointerType, Places
  <2>4. /\ r.next[b] = a /\ r.prev[a] = b
        /\ \A x \in Slabs : x # b => r.next[x] = p.next[x]
        /\ \A x \in Slabs : x # a => r.prev[x] = p.prev[x]
    BY <1>4, <2>1, <2>3
  <2> QED BY <1>2, <1>8, <2>1, <2>3, <2>4 DEF Unlinked, n, s
<1> QED BY <1>6, <1>7, <1>8

\* Once it is unlinked, the pointers spell out the sequences without it.
LEMMA RemRep ==
  ASSUME NEW p, NEW w, Rep(p, w), NEW li \in Lists, NEW k \in 1..Len(w[li]),
         NEW v, v = [w EXCEPT ![li] = RemoveAt(w[li], k)]
  PROVE  /\ Rep(rem(p, li, w[li][k]), v)
         /\ \A lj \in Lists : \A i \in 1..Len(v[lj]) : v[lj][i] # w[li][k]
<1> DEFINE q == w[li]
           n == Len(q)
           s == q[k]
           r == rem(p, li, s)
           c == RemoveAt(q, k)
<1>1. p \in PointerType /\ w \in Contents /\ Once(w) /\ \A lj \in Lists : Spells(p, lj, w[lj])
  BY DEF Rep
<1>2. /\ q \in Seq(Slabs) /\ n \in Nat /\ (\A i \in 1..n : q[i] \in Slabs) /\ k \in 1..n
      /\ \A i \in 1..n : p.next[q[i]] = IF i = n THEN NULL ELSE q[i + 1]
      /\ \A i \in 2..n : p.prev[q[i]] = q[i - 1]
  BY <1>1, ContentsAre DEF Spells
<1>3. \A i, j \in 1..n : q[i] = q[j] => i = j
  BY <1>1 DEF Once
<1>4. c \in Seq(Slabs) /\ Len(c) = n - 1 /\ \A i \in 1..(n - 1) : c[i] = IF i < k THEN q[i] ELSE q[i + 1]
  <2> HIDE DEF q
  <2> QED BY <1>2, SlabsRemove
<1>5. v \in Contents /\ v[li] = c /\ \A lj \in Lists : lj # li => v[lj] = w[lj]
  <2> HIDE DEF c
  <2> QED BY <1>1, <1>4 DEF Contents, c
<1>6. Unlinked(p, r, li, q, k)
  BY RemUnlinks
<1> HIDE DEF r, c
<1>7. ASSUME NEW lj \in Lists, NEW i \in 1..Len(v[lj])
      PROVE  IF lj # li THEN i \in 1..Len(w[lj]) /\ v[lj][i] = w[lj][i]
             ELSE IF i < k THEN i \in 1..n /\ v[lj][i] = w[lj][i]
             ELSE i + 1 \in 1..n /\ i + 1 > k /\ v[lj][i] = w[lj][i + 1]
  BY <1>2, <1>4, <1>5
<1> DEFINE f(lj, i) == IF lj = li /\ i >= k THEN i + 1 ELSE i
<1>8. ASSUME NEW lj \in Lists, NEW i \in 1..Len(v[lj])
      PROVE  f(lj, i) \in 1..Len(w[lj]) /\ v[lj][i] = w[lj][f(lj, i)] /\ (lj = li => f(lj, i) # k) /\ i \in Int
  <2>1. i \in Int /\ k \in Int
    BY <1>2
  <2>2. CASE lj # li
    BY <1>7, <2>1, <2>2
  <2>3. CASE lj = li /\ i < k
    <3>1. i \in 1..n /\ v[lj][i] = w[lj][i]
      BY <1>7, <2>3
    <3>2. f(lj, i) = i /\ i # k
      BY <2>1, <2>3
    <3> QED BY <2>1, <2>3, <3>1, <3>2
  <2>4. CASE lj = li /\ ~(i < k)
    <3>1. i + 1 \in 1..n /\ i + 1 > k /\ v[lj][i] = w[lj][i + 1]
      BY <1>7, <2>4
    <3>2. f(lj, i) = i + 1 /\ i + 1 # k
      BY <2>1, <2>4, <3>1
    <3> QED BY <2>1, <2>4, <3>1, <3>2
  <2> QED BY <2>2, <2>3, <2>4
<1>9. Once(v)
  <2> SUFFICES ASSUME NEW la \in Lists, NEW lb \in Lists, NEW i \in 1..Len(v[la]), NEW j \in 1..Len(v[lb]),
                      v[la][i] = v[lb][j]
               PROVE  la = lb /\ i = j
    BY DEF Once
  <2>1. la = lb /\ f(la, i) = f(lb, j)
    <3> HIDE DEF f
    <3>1. /\ f(la, i) \in 1..Len(w[la]) /\ f(lb, j) \in 1..Len(w[lb])
          /\ w[la][f(la, i)] = w[lb][f(lb, j)]
      BY <1>8
    <3> QED BY <1>1, <3>1 DEF Once
  <2>2. i \in Int /\ j \in Int /\ k \in Int
    BY <1>2
  <2> QED BY <2>1, <2>2
<1>10. \A lj \in Lists : \A i \in 1..Len(v[lj]) : v[lj][i] # s
  <2> HIDE DEF f
  <2> SUFFICES ASSUME NEW lj \in Lists, NEW i \in 1..Len(v[lj]), v[lj][i] = s PROVE FALSE
    OBVIOUS
  <2>1. f(lj, i) \in 1..Len(w[lj]) /\ w[lj][f(lj, i)] = w[li][k] /\ k \in 1..Len(w[li])
    BY <1>2, <1>8
  <2>2. lj = li /\ f(lj, i) = k
    BY <1>1, <2>1 DEF Once
  <2> QED BY <1>8, <2>2
<1>11. ASSUME NEW lj \in Lists, lj # li PROVE Spells(r, lj, v[lj])
  <2> DEFINE d == w[lj]
  <2>1. /\ Len(d) \in Nat /\ (\A i \in 1..Len(d) : d[i] \in Slabs) /\ v[lj] = d /\ Spells(p, lj, d)
    BY <1>1, <1>5, <1>11, ContentsAre
  <2>2. \A i \in 1..Len(d), j \in 1..n : d[i] # q[j]
    BY <1>1, <1>11 DEF Once
  <2>3. \A i \in 1..Len(d) : d[i] # q[k] /\ (k > 1 => d[i] # q[k - 1]) /\ (k < n => d[i] # q[k + 1])
    <3>1. (k > 1 => k - 1 \in 1..n) /\ (k < n => k + 1 \in 1..n)
      BY <1>2
    <3> QED BY <1>2, <2>2, <3>1
  <2> HIDE DEF d
  <2>4. r.head[lj] = p.head[lj] /\ r.tail[lj] = p.tail[lj]
    BY <1>6, <1>11 DEF Unlinked
  <2>5. \A i \in 1..Len(d) : r.next[d[i]] = p.next[d[i]] /\ r.prev[d[i]] = p.prev[d[i]]
    <3> HIDE DEF q
    <3> QED BY <1>6, <2>1, <2>3 DEF Unlinked, n
  <2>6. \A i \in 2..Len(d) : i \in 1..Len(d)
    BY <2>1
  <2> QED BY <2>1, <2>4, <2>5, <2>6 DEF Spells
<1>12. Spells(r, li, c)
  <2>0. /\ r.head[li] = IF k > 1 THEN q[1] ELSE IF n = 1 THEN NULL ELSE q[2]
        /\ r.tail[li] = IF k < n THEN q[n] ELSE IF n = 1 THEN NULL ELSE q[n - 1]
        /\ k > 1 => r.next[q[k - 1]] = IF k = n THEN NULL ELSE q[k + 1]
        /\ k > 1 /\ k < n => r.prev[q[k + 1]] = q[k - 1]
        /\ \A x \in Slabs : x # q[k] /\ (k > 1 => x # q[k - 1]) => r.next[x] = p.next[x]
        /\ \A x \in Slabs : x # q[k] /\ (k < n => x # q[k + 1]) => r.prev[x] = p.prev[x]
    BY <1>6 DEF Unlinked
  <2> HIDE DEF q, n, s
  <2>1. r.head[li] = IF Len(c) = 0 THEN NULL ELSE c[1]
    <3>1. CASE n = 1
      BY <1>2, <1>4, <2>0, <3>1
    <3>2. CASE n # 1
      <4>1. 1 \in 1..(n - 1) /\ n - 1 # 0
        BY <1>2, <3>2
      <4>2. (k > 1 /\ 1 < k) \/ (k = 1 /\ ~(k > 1) /\ ~(1 < k))
        BY <1>2
      <4>3. c[1] = IF k > 1 THEN q[1] ELSE q[1 + 1]
        BY <1>4, <4>1, <4>2
      <4>4. q[1 + 1] = q[2]
        OBVIOUS
      <4> QED BY <1>4, <2>0, <3>2, <4>1, <4>3, <4>4
    <3> QED BY <3>1, <3>2
  <2>2. r.tail[li] = IF Len(c) = 0 THEN NULL ELSE c[Len(c)]
    <3>1. CASE n = 1
      BY <1>2, <1>4, <2>0, <3>1
    <3>2. CASE n # 1
      <4>1. n - 1 \in 1..(n - 1) /\ n - 1 # 0 /\ (n - 1) + 1 = n
        BY <1>2, <3>2
      <4>2. (k < n /\ ~(n - 1 < k)) \/ (k = n /\ n - 1 < k)
        BY <1>2
      <4> QED BY <1>2, <1>4, <2>0, <3>2, <4>1, <4>2
    <3> QED BY <3>1, <3>2
  <2>3. ASSUME NEW i \in 1..Len(c) PROVE r.next[c[i]] = IF i = Len(c) THEN NULL ELSE c[i + 1]
    <3>0. i \in 1..(n - 1) /\ n \in Nat /\ k \in 1..n
      BY <1>2, <1>4
    <3>1. CASE i + 1 < k
      <4>1. i \in 1..n /\ k - 1 \in 1..n /\ i # k /\ i # k - 1 /\ i # n /\ i # n - 1 /\ i + 1 \in 1..(n - 1) /\ i < k
        BY <3>0, <3>1
      <4>2. c[i] = q[i] /\ c[i + 1] = q[i + 1]
        BY <1>4, <3>0, <3>1, <4>1
      <4>3. q[i] # q[k] /\ q[i] # q[k - 1] /\ q[i] \in Slabs
        BY <1>2, <1>3, <4>1
      <4>4. r.next[q[i]] = p.next[q[i]]
        BY <2>0, <4>3
      <4>5. p.next[q[i]] = q[i + 1]
        BY <1>2, <4>1
      <4> QED BY <1>4, <4>1, <4>2, <4>4, <4>5
    <3>2. CASE i + 1 = k
      <4>1. k > 1 /\ k - 1 = i /\ i < k /\ (i = n - 1 <=> k = n)
        BY <3>0, <3>2
      <4>2. c[i] = q[k - 1]
        BY <1>4, <3>0, <4>1
      <4>3. k # n => c[i + 1] = q[k + 1]
        <5>1. k # n => k \in 1..(n - 1) /\ ~(k < k)
          BY <3>0
        <5> QED BY <1>4, <3>2, <5>1
      <4> QED BY <1>4, <2>0, <4>1, <4>2, <4>3
    <3>3. CASE i + 1 > k
      <4> DEFINE j == i + 1
      <4>1. /\ j \in 1..n /\ j # k /\ ~(i < k) /\ (i = n - 1 <=> j = n) /\ (k > 1 => k - 1 \in 1..n /\ j # k - 1)
            /\ (i # n - 1 => j \in 1..(n - 1) /\ ~(j < k))
        BY <3>0, <3>3
      <4>2. c[i] = q[j]
        BY <1>4, <3>0, <4>1
      <4> HIDE DEF j
      <4>3. q[j] # q[k] /\ (k > 1 => q[j] # q[k - 1]) /\ q[j] \in Slabs
        BY <1>2, <1>3, <4>1
      <4>4. r.next[q[j]] = p.next[q[j]]
        BY <2>0, <4>3
      <4>5. p.next[q[j]] = IF j = n THEN NULL ELSE q[j + 1]
        BY <1>2, <4>1
      <4>6. i # n - 1 => c[j] = q[j + 1]
        BY <1>4, <4>1
      <4> QED BY <1>4, <4>1, <4>2, <4>4, <4>5, <4>6 DEF j
    <3> QED BY <3>0, <3>1, <3>2, <3>3
  <2>4. ASSUME NEW i \in 2..Len(c) PROVE r.prev[c[i]] = c[i - 1]
    <3>0. i \in 2..(n - 1) /\ i \in 1..(n - 1) /\ i - 1 \in 1..(n - 1) /\ n \in Nat /\ k \in 1..n
      BY <1>2, <1>4
    <3>1. CASE i < k
      <4>1. i \in 2..n /\ i \in 1..n /\ i # k /\ i - 1 < k /\ (k < n => k + 1 \in 1..n /\ i # k + 1)
        BY <3>0, <3>1
      <4>2. c[i] = q[i] /\ c[i - 1] = q[i - 1]
        BY <1>4, <3>0, <3>1, <4>1
      <4>3. q[i] # q[k] /\ (k < n => q[i] # q[k + 1]) /\ q[i] \in Slabs
        BY <1>2, <1>3, <4>1
      <4>4. r.prev[q[i]] = p.prev[q[i]] /\ p.prev[q[i]] = q[i - 1]
        BY <1>2, <2>0, <4>1, <4>3
      <4> QED BY <4>2, <4>4
    <3>2. CASE i = k
      <4>1. k > 1 /\ k < n /\ ~(i < k) /\ i - 1 < k /\ i + 1 = k + 1
        BY <3>0, <3>2
      <4>2. c[i] = q[k + 1] /\ c[i - 1] = q[k - 1]
        BY <1>4, <3>0, <3>2, <4>1
      <4> QED BY <2>0, <4>1, <4>2
    <3>3. CASE i > k
      <4> DEFINE j == i + 1
      <4>1. /\ j \in 2..n /\ j \in 1..n /\ j # k /\ ~(i < k) /\ ~(i - 1 < k) /\ k < n /\ k + 1 \in 1..n /\ j # k + 1
            /\ (i - 1) + 1 = i /\ j - 1 = i
        <5>1. i \in Int /\ n \in Int /\ k \in Int /\ 2 <= i /\ i <= n - 1 /\ 1 <= k /\ k < i
          BY <3>0, <3>3
        <5> QED BY <5>1
      <4>2. c[i] = q[j] /\ c[i - 1] = q[i]
        BY <1>4, <3>0, <4>1
      <4> HIDE DEF j
      <4>3. q[j] # q[k] /\ q[j] # q[k + 1] /\ q[j] \in Slabs
        BY <1>2, <1>3, <4>1
      <4>4. r.prev[q[j]] = p.prev[q[j]] /\ p.prev[q[j]] = q[j - 1]
        BY <1>2, <2>0, <4>1, <4>3
      <4> QED BY <4>1, <4>2, <4>4
    <3> QED BY <3>0, <3>1, <3>2, <3>3
  <2> QED BY <2>1, <2>2, <2>3, <2>4 DEF Spells
<1>13. r \in PointerType
  BY <1>6 DEF Unlinked
<1> QED BY <1>5, <1>9, <1>10, <1>11, <1>12, <1>13 DEF Rep, r

\* A slab that is moved goes from its place in one sequence to the head of another.
Moved(w, src, dest, s) == [w EXCEPT ![src] = RemoveFirst(@, s), ![dest] = Cons(s, @)]

\* rem and push between them do this move, and leave every slab on a list.
LEMMA MoveRep ==
  ASSUME NEW p, NEW w, Rep(p, w), All(w), NEW src \in Lists, NEW dest \in Lists, src # dest,
         NEW k \in 1..Len(w[src])
  PROVE  /\ Rep(push(rem(p, src, w[src][k]), dest, w[src][k]), Moved(w, src, dest, w[src][k]))
         /\ All(Moved(w, src, dest, w[src][k]))
<1> DEFINE q == w[src]
           s == q[k]
           u == [w EXCEPT ![src] = RemoveAt(q, k)]
           v == [u EXCEPT ![dest] = Cons(s, u[dest])]
<1>1. w \in Contents /\ Once(w)
  BY DEF Rep
<1>2. /\ q \in Seq(Slabs) /\ IsInjective(q) /\ Len(q) \in Nat /\ k \in 1..Len(q) /\ s \in Slabs
      /\ w \in [Lists -> Seq(Slabs)]
  BY <1>1, OnceInjective, ContentsAre DEF Contents
<1>3. RemoveFirst(q, s) = RemoveAt(q, k)
  <2> HIDE DEF q
  <2> QED BY <1>2, RemoveFirstIs
<1>4. Moved(w, src, dest, s) = v
  <2> HIDE DEF s
  <2> QED BY <1>2, <1>3 DEF Moved
<1>5. Rep(rem(p, src, s), u) /\ \A lj \in Lists : \A i \in 1..Len(u[lj]) : u[lj][i] # s
  BY RemRep
<1>6. Rep(push(rem(p, src, s), dest, s), v)
  <2> DEFINE r == rem(p, src, s)
  <2> HIDE DEF r, u, s
  <2> QED BY <1>2, <1>5, PushRep DEF r
<1>7. u[dest] = w[dest] /\ u[src] = RemoveAt(q, k) /\ v[src] = RemoveAt(q, k) /\ v[dest] = Cons(s, w[dest])
      /\ \A lj \in Lists : lj # src /\ lj # dest => v[lj] = w[lj]
  <2> HIDE DEF q, s
  <2> QED BY <1>2
<1>8. ASSUME NEW x \in Slabs PROVE \E li \in Lists : Contains(v[li], x)
  <2> HIDE DEF v, u
  <2>1. PICK li \in Lists : Contains(w[li], x)
    BY DEF All
  <2>2. w[dest] \in Seq(Slabs) /\ IsInjective(w[dest]) /\ Len(w[dest]) \in Nat
    BY <1>1, OnceInjective
  <2>3. /\ Cons(s, w[dest]) \in Seq(Slabs) /\ Len(Cons(s, w[dest])) = Len(w[dest]) + 1 /\ Cons(s, w[dest])[1] = s
        /\ \A i \in 1..Len(w[dest]) : Cons(s, w[dest])[i + 1] = w[dest][i]
    <3> DEFINE d == w[dest]
    <3> HIDE DEF d, q, s
    <3> QED BY <1>2, <2>2, SlabsCons DEF d
  <2>4. CASE x = s
    <3>1. Contains(v[dest], x)
      BY <1>7, <2>2, <2>3, <2>4 DEF Contains
    <3> QED BY <3>1
  <2>5. CASE x # s /\ li = src
    <3>1. Contains(RemoveAt(q, k), x)
      <4>1. Contains(q, x)
        BY <2>1, <2>5
      <4> HIDE DEF q
      <4> QED BY <1>2, <2>5, <4>1, RemoveAtIn
    <3> QED BY <1>7, <3>1
  <2>6. CASE li = dest
    <3>1. PICK i \in 1..Len(w[dest]) : w[dest][i] = x
      BY <2>1, <2>6 DEF Contains
    <3>2. i + 1 \in 1..(Len(w[dest]) + 1)
      BY <2>2
    <3>3. Contains(v[dest], x)
      BY <1>7, <2>3, <3>1, <3>2 DEF Contains
    <3> QED BY <3>3
  <2>7. CASE li # src /\ li # dest
    BY <1>7, <2>1, <2>7
  <2> QED BY <2>4, <2>5, <2>6, <2>7
<1> QED BY <1>4, <1>6, <1>8 DEF All
-----------------------------------------------------------------------------
(* Steps                                                                   *)

\* What init_cache_manager links are the slabs in their order, on the list of free ones.
LEMMA InitRep == Init => Rep(m, Filed) /\ All(Filed)
<1> SUFFICES ASSUME Init PROVE Rep(m, Filed) /\ All(Filed)
  OBVIOUS
<1> DEFINE n == slabctl_count
           q == [i \in 1..n |-> i - 1]
<1>1. n \in Nat /\ n > 0 /\ slabs_free \in Lists /\ NULL \notin Slabs /\ Slabs = 0..(n - 1)
  BY ListsAssumption DEF Slabs
<1>2. q \in Seq(Slabs) /\ Len(q) = n /\ \A i \in 1..n : q[i] = i - 1
  BY <1>1
<1> HIDE DEF q
<1>3. Filed \in Contents /\ Filed[slabs_free] = q /\ \A li \in Lists : li # slabs_free => Filed[li] = <<>>
  <2>1. Filed = [li \in Lists |-> IF li = slabs_free THEN q ELSE <<>>]
    BY DEF Filed, q
  <2>2. <<>> \in Seq(Slabs)
    OBVIOUS
  <2> QED BY <1>1, <1>2, <2>1, <2>2 DEF Contents
<1>4. /\ \A li \in Lists : m.head[li] = (IF li = slabs_free THEN 0 ELSE NULL) /\ m.tail[li] = IF li = slabs_free THEN n - 1 ELSE NULL
      /\ \A s \in Slabs : m.next[s] = (IF s = n - 1 THEN NULL ELSE s + 1) /\ m.prev[s] = IF s = 0 THEN NULL ELSE s - 1
      /\ m \in PointerType
  <2>1. 0 \in Slabs /\ n - 1 \in Slabs /\ \A s \in Slabs : (s # n - 1 => s + 1 \in Slabs) /\ (s # 0 => s - 1 \in Slabs)
    BY <1>1
  <2> QED BY <2>1 DEF Init, PointerType, Places
<1>5. Once(Filed)
  <2> SUFFICES ASSUME NEW li \in Lists, NEW lj \in Lists, NEW i \in 1..Len(Filed[li]), NEW j \in 1..Len(Filed[lj]),
                      Filed[li][i] = Filed[lj][j]
               PROVE  li = lj /\ i = j
    BY DEF Once
  <2>1. li = slabs_free /\ lj = slabs_free
    BY <1>3
  <2>2. i \in 1..n /\ j \in 1..n /\ i - 1 = j - 1
    BY <1>2, <1>3, <2>1
  <2> QED BY <1>1, <2>1, <2>2
<1>6. Spells(m, slabs_free, q)
  <2>1. m.head[slabs_free] = q[1] /\ m.tail[slabs_free] = q[n]
    BY <1>1, <1>2, <1>4
  <2>2. ASSUME NEW i \in 1..n PROVE m.next[q[i]] = IF i = n THEN NULL ELSE q[i + 1]
    <3>1. i - 1 \in Slabs /\ (i = n <=> i - 1 = n - 1) /\ (i # n => i + 1 \in 1..n) /\ (i - 1) + 1 = i /\ (i + 1) - 1 = i
      BY <1>1
    <3> QED BY <1>2, <1>4, <3>1
  <2>3. ASSUME NEW i \in 2..n PROVE m.prev[q[i]] = q[i - 1]
    <3>1. i \in 1..n /\ i - 1 \in Slabs /\ i - 1 # 0 /\ i - 1 \in 1..n
      BY <1>1
    <3> QED BY <1>2, <1>4, <3>1
  <2> QED BY <1>1, <1>2, <2>1, <2>2, <2>3 DEF Spells
<1>7. ASSUME NEW li \in Lists, li # slabs_free PROVE Spells(m, li, <<>>)
  BY <1>4, <1>7 DEF Spells
<1>8. All(Filed)
  <2> SUFFICES ASSUME NEW s \in Slabs PROVE Contains(q, s)
    BY <1>1, <1>3 DEF All
  <2>1. s + 1 \in 1..n /\ (s + 1) - 1 = s
    BY <1>1
  <2> QED BY <1>2, <2>1 DEF Contains
<1> QED BY <1>3, <1>4, <1>5, <1>6, <1>7, <1>8 DEF Rep

\* A step moves one slab, in the pointers as in the sequences.
LEMMA StepMoves ==
  ASSUME NEW w \in Contents, Rep(m, w), All(w), Next
  PROVE  \E src, dest \in Lists : /\ src # dest
                                  /\ \E k \in 1..Len(w[src]) : /\ Rep(m', Moved(w, src, dest, w[src][k]))
                                                               /\ All(Moved(w, src, dest, w[src][k]))
<1>1. PICK src, dest \in Lists : /\ src # dest
                                 /\ \/ pop_and_push(src, dest)
                                    \/ \E s \in Slabs : rem_and_push(src, dest, s)
  BY DEF Next
<1>2. Len(w[src]) \in Nat /\ m.head[src] = IF Len(w[src]) = 0 THEN NULL ELSE w[src][1]
  BY ContentsAre DEF Rep, Spells
<1>3. CASE pop_and_push(src, dest)
  <2>1. Len(w[src]) # 0 /\ m.head[src] = w[src][1] /\ 1 \in 1..Len(w[src])
    BY <1>2, <1>3 DEF pop_and_push
  <2>2. m' = push(rem(m, src, w[src][1]), dest, w[src][1])
    BY <1>3, <2>1 DEF pop_and_push, rem
  <2> QED BY <1>1, <2>1, <2>2, MoveRep
<1>4. ASSUME NEW s \in Slabs, rem_and_push(src, dest, s)
      PROVE  \E k \in 1..Len(w[src]) : m' = push(rem(m, src, w[src][k]), dest, w[src][k])
  <2>1. Contains(w[src], s) /\ m' = push(rem(m, src, s), dest, s)
    BY <1>4, WalkIs DEF rem_and_push
  <2> QED BY <2>1 DEF Contains
<1>5. CASE \E s \in Slabs : rem_and_push(src, dest, s)
  <2>1. PICK k \in 1..Len(w[src]) : m' = push(rem(m, src, w[src][k]), dest, w[src][k])
    BY <1>4, <1>5
  <2> QED BY <1>1, <2>1, MoveRep
<1> QED BY <1>1, <1>3, <1>5

\* What a move makes are sequences of slabs again.
LEMMA StepKeeps == IInv /\ [Next]_m => IInv'
<1> SUFFICES ASSUME IInv, [Next]_m PROVE IInv'
  OBVIOUS
<1>1. PICK w \in Contents : Rep(m, w) /\ All(w)
  BY DEF IInv
<1>2. CASE Next
  <2>1. \E v : Rep(m', v) /\ All(v)
    BY <1>1, <1>2, StepMoves
  <2> QED BY <2>1 DEF IInv, Rep
<1>3. CASE m' = m
  BY <1>1, <1>3 DEF IInv
<1> QED BY <1>2, <1>3

\* Pointers that spell out sequences are linked.
LEMMA LinkedIs == IInv => Linked
<1> SUFFICES ASSUME IInv PROVE Linked
  OBVIOUS
<1>1. PICK w \in Contents : Rep(m, w) /\ All(w)
  BY DEF IInv
<1>2. \A li \in Lists : Walk(m, li) = w[li]
  BY <1>1, WalkIs
<1>3. ASSUME NEW li \in Lists
      PROVE  LET q == w[li] IN
             /\ \A i \in 2..Len(q) : m.prev[q[i]] = q[i - 1]
             /\ m.tail[li] = IF q = <<>> THEN NULL ELSE q[Len(q)]
             /\ q # <<>> => m.next[q[Len(q)]] = NULL
             /\ IsInjective(q)
  <2> DEFINE q == w[li]
  <2>1. q \in Seq(Slabs) /\ IsInjective(q) /\ Spells(m, li, q)
    BY <1>1, OnceInjective DEF Rep
  <2> HIDE DEF q
  <2>2. (q = <<>> <=> Len(q) = 0) /\ (q # <<>> => Len(q) \in 1..Len(q))
    BY <2>1
  <2>3. /\ \A i \in 2..Len(q) : m.prev[q[i]] = q[i - 1]
        /\ m.tail[li] = IF q = <<>> THEN NULL ELSE q[Len(q)]
        /\ q # <<>> => m.next[q[Len(q)]] = NULL
    BY <2>1, <2>2 DEF Spells
  <2> QED BY <2>1, <2>3 DEF q
<1>4. ASSUME NEW s \in Slabs
      PROVE  \E li \in Lists : Contains(w[li], s) /\ \A lj \in Lists \ {li} : ~Contains(w[lj], s)
  <2>1. PICK li \in Lists : Contains(w[li], s)
    BY <1>1 DEF All
  <2>2. ASSUME NEW lj \in Lists \ {li}, Contains(w[lj], s) PROVE FALSE
    <3>1. PICK i \in 1..Len(w[li]) : w[li][i] = s
      BY <2>1 DEF Contains
    <3>2. PICK j \in 1..Len(w[lj]) : w[lj][j] = s
      BY <2>2 DEF Contains
    <3> QED BY <1>1, <3>1, <3>2 DEF Rep, Once
  <2> QED BY <2>1, <2>2
<1> QED BY <1>2, <1>3, <1>4 DEF Linked
-----------------------------------------------------------------------------
(* Theorems                                                                *)

\* The pointers of slab.c spell out sequences that between them hold every slab once,
\* after any moves by pop and rem and push.
THEOREM PointersSpellSequences == Spec => []IInv
<1>1. Init => IInv
  BY InitRep DEF IInv, Rep
<1> QED BY <1>1, StepKeeps, PTL DEF Spec

\* Where rem and a walk trust the pointers they are right, for any number of slabs and
\* lists: this is the assertion in rem, and that no slab is met twice or nowhere.
THEOREM ListsLinked == Spec => []Linked
  BY PointersSpellSequences, LinkedIs, PTL

\* The lists are the sequences that the allocator is modelled with: a step takes one
\* slab out of one of them and puts it at the head of another.
THEOREM ListsRefineSequences == Spec => RefinesSequences
<1> DEFINE contents == [li \in Lists |-> Walk(m, li)]
<1>1. ASSUME NEW w, Rep(m, w) PROVE contents = w
  <2>1. w \in [Lists -> Seq(Slabs)]
    BY <1>1 DEF Rep, Contents
  <2>2. \A li \in Lists : Walk(m, li) = w[li]
    BY <1>1, WalkIs
  <2> QED BY <2>1, <2>2
<1>2. ASSUME NEW w, Rep(m', w) PROVE [li \in Lists |-> Walk(m', li)] = w
  <2>1. w \in [Lists -> Seq(Slabs)]
    BY <1>2 DEF Rep, Contents
  <2>2. \A li \in Lists : Walk(m', li) = w[li]
    BY <1>2, WalkIs
  <2> QED BY <2>1, <2>2
<1>3. Init => Abstract!QInit
  <2> SUFFICES ASSUME Init PROVE contents = Filed
    BY DEF Abstract!QInit
  <2> QED BY <1>1, InitRep
<1>4. ASSUME NEW q, NEW s
      PROVE  /\ Abstract!Contains(q, s) <=> Contains(q, s)
             /\ Abstract!RemoveFirst(q, s) = RemoveFirst(q, s)
             /\ Abstract!Cons(s, q) = Cons(s, q)
  <2>1. Abstract!RemoveFirst(q, s) = RemoveFirst(q, s)
    BY DEF Abstract!RemoveFirst, RemoveFirst, Abstract!RemoveAt, RemoveAt, Abstract!SelectInSeq, SelectInSeq,
           Abstract!Min, Min
  <2> QED BY <2>1 DEF Abstract!Contains, Contains, Abstract!Cons, Cons
<1>5. IInv /\ [Next]_m => [Abstract!QNext]_contents
  <2> SUFFICES ASSUME IInv, [Next]_m PROVE [Abstract!QNext]_contents
    OBVIOUS
  <2>1. PICK w \in Contents : Rep(m, w) /\ All(w)
    BY DEF IInv
  <2>2. CASE Next
    <3>1. PICK src, dest \in Lists : /\ src # dest
                                     /\ \E k \in 1..Len(w[src]) : Rep(m', Moved(w, src, dest, w[src][k]))
      BY <2>1, <2>2, StepMoves
    <3>2. PICK k \in 1..Len(w[src]) : Rep(m', Moved(w, src, dest, w[src][k]))
      BY <3>1
    <3> DEFINE s == w[src][k]
    <3>3. contents = w /\ [li \in Lists |-> Walk(m', li)] = Moved(w, src, dest, s)
      BY <1>1, <1>2, <2>1, <3>2
    <3>4. Contains(w[src], s)
      BY DEF Contains
    <3>5. s \in ToSet(w[src])
      <4>1. w[src] \in Seq(Slabs)
        BY DEF Contents
      <4>2. DOMAIN w[src] = 1..Len(w[src])
        BY <4>1
      <4> QED BY <4>2 DEF ToSet
    <3> HIDE DEF s, contents
    <3>6. Abstract!Move(src, dest, s)
      <4>1. [li \in Lists |-> Walk(m, li)] = w
        BY <3>3 DEF contents
      <4> QED BY <1>4, <3>3, <3>4, <4>1 DEF Abstract!Move, Moved
    <3>7. s \in Abstract!ToSet([li \in Lists |-> Walk(m, li)][src])
      BY <3>3, <3>5 DEF contents, Abstract!ToSet, ToSet
    <3> QED BY <3>1, <3>6, <3>7 DEF Abstract!QNext
  <2>3. CASE m' = m
    BY <2>3
  <2> QED BY <2>2, <2>3
<1> QED BY <1>3, <1>5, PointersSpellSequences, PTL DEF Spec, RefinesSequences, Abstract!QSpec
=============================================================================

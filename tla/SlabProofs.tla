----------------------------- MODULE SlabProofs -----------------------------
(***************************************************************************)
(* The slab allocator is right for any number of slabs and any table of    *)
(* size classes, as long as an unsigned int can count the bytes of the     *)
(* slabs; and what mem.c puts in front of it leaves it so.                 *)
(***************************************************************************)
EXTENDS Mem, ListLemmas

-----------------------------------------------------------------------------
(* Numbers                                                                 *)

\* The sizes of the classes, and how many of their chunks a slab holds.
LEMMA Sizes ==
  /\ SLAB_SIZE \in Nat /\ SLAB_SIZE > 0 /\ slabctl_count \in Nat
  /\ Classes = 1..Len(ChunkSizes) /\ Len(ChunkSizes) \in Classes
  /\ \A c \in Classes :
       /\ ChunkSizes[c] \in 1..SLAB_SIZE
       /\ chunk_count_perslab(c) \in 1..BITS
       /\ ChunkSizes[c] * chunk_count_perslab(c) <= SLAB_SIZE
<1>1. ChunkSizes \in Seq(1..SLAB_SIZE) /\ ChunkSizes # <<>> /\ SLAB_SIZE \in Nat
  BY SizesAssumption
<1>2. Classes = 1..Len(ChunkSizes) /\ Len(ChunkSizes) \in Nat /\ Len(ChunkSizes) > 0
  BY <1>1 DEF Classes
<1>3. ASSUME NEW c \in Classes PROVE ChunkSizes[c] \in 1..SLAB_SIZE
  BY <1>1, <1>2
<1>4. SLAB_SIZE > 0
  <2>1. ChunkSizes[1] \in 1..SLAB_SIZE
    BY <1>2, <1>3
  <2> QED BY <1>1, <2>1
<1>5. ASSUME NEW c \in Classes
      PROVE  /\ chunk_count_perslab(c) \in 1..BITS
             /\ ChunkSizes[c] * chunk_count_perslab(c) <= SLAB_SIZE
  <2> DEFINE k == ChunkSizes[c]
             n == SLAB_SIZE \div k
  <2>1. k \in Nat /\ k > 0 /\ k <= SLAB_SIZE
    BY <1>1, <1>3
  <2>2. n \in Nat /\ n >= 1 /\ k * n <= SLAB_SIZE
    <3> HIDE DEF k
    <3> QED BY <1>1, <2>1
  <2>3. n <= BITS /\ BITS \in Nat
    BY BitsAssumption DEF chunk_count_perslab
  <2> QED BY <2>2, <2>3 DEF chunk_count_perslab
<1> QED BY <1>1, <1>2, <1>3, <1>4, <1>5, CountAssumption

\* A chunk lies within its slab, and its address leads back to it.
LEMMA ChunkWithin ==
  ASSUME NEW c \in Classes, NEW i \in 0..(chunk_count_perslab(c) - 1)
  PROVE  /\ ChunkSizes[c] * i \in Nat
         /\ ChunkSizes[c] * i + ChunkSizes[c] <= SLAB_SIZE
<1> DEFINE k == ChunkSizes[c]
           n == chunk_count_perslab(c)
<1>1. k \in Nat /\ n \in Nat /\ k * n <= SLAB_SIZE /\ SLAB_SIZE \in Nat
  BY Sizes, BitsAssumption
<1>2. i \in Nat /\ i + 1 <= n
  BY <1>1
<1> HIDE DEF k, n
<1>3. k * i \in Nat /\ k * (i + 1) <= k * n /\ k * (i + 1) = k * i + k
  BY <1>1, <1>2
<1> QED BY <1>1, <1>3 DEF k

LEMMA AddressWithin ==
  ASSUME NEW s \in Slabs, NEW c \in Classes, NEW i \in 0..(chunk_count_perslab(c) - 1)
  PROVE  LET p == s * SLAB_SIZE + ChunkSizes[c] * i IN
         /\ p \in Nat /\ ChunkSizes[c] \in Nat /\ ChunkSizes[c] > 0
         /\ p + ChunkSizes[c] <= slabctl_count * SLAB_SIZE
         /\ p \div SLAB_SIZE = s
         /\ (p % SLAB_SIZE) \div ChunkSizes[c] = i
<1> DEFINE k == ChunkSizes[c]
           x == k * i
           p == s * SLAB_SIZE + x
<1>1. /\ SLAB_SIZE \in Nat /\ SLAB_SIZE > 0 /\ slabctl_count \in Nat
      /\ s \in Nat /\ s + 1 <= slabctl_count /\ k \in Nat /\ k > 0
      /\ x \in Nat /\ x + k <= SLAB_SIZE
  BY Sizes, ChunkWithin DEF Slabs
<1>2. p \in Nat /\ p + k <= slabctl_count * SLAB_SIZE
  <2> HIDE DEF x, k
  <2>1. (s + 1) * SLAB_SIZE <= slabctl_count * SLAB_SIZE /\ (s + 1) * SLAB_SIZE = s * SLAB_SIZE + SLAB_SIZE
    BY <1>1
  <2>2. s * SLAB_SIZE \in Nat /\ slabctl_count * SLAB_SIZE \in Nat
    BY <1>1
  <2> QED BY <1>1, <2>1, <2>2
<1>3. p \div SLAB_SIZE = s /\ p % SLAB_SIZE = x
  <2> HIDE DEF x, k
  <2> QED BY <1>1
<1>4. x \div k = i
  <2>1. i \in Nat
    BY Sizes
  <2> HIDE DEF k
  <2> QED BY <1>1, <2>1
<1> QED BY <1>1, <1>2, <1>3, <1>4

\* Two chunks share no byte, unless they are the same.
LEMMA ChunksApart ==
  ASSUME NEW s \in Slabs, NEW c \in Classes, NEW i \in 0..(chunk_count_perslab(c) - 1),
         NEW t \in Slabs, NEW d \in Classes, NEW j \in 0..(chunk_count_perslab(d) - 1),
         s # t \/ (c = d /\ i # j)
  PROVE  LET p == s * SLAB_SIZE + ChunkSizes[c] * i
             q == t * SLAB_SIZE + ChunkSizes[d] * j
         IN  p + ChunkSizes[c] <= q \/ q + ChunkSizes[d] <= p
<1> DEFINE k == ChunkSizes[c]
           l == ChunkSizes[d]
           x == k * i
           y == l * j
<1>1. /\ SLAB_SIZE \in Nat /\ s \in Nat /\ t \in Nat /\ k \in Nat /\ l \in Nat
      /\ x \in Nat /\ x + k <= SLAB_SIZE /\ y \in Nat /\ y + l <= SLAB_SIZE
  <2>1. x \in Nat /\ x + k <= SLAB_SIZE
    BY ChunkWithin
  <2>2. y \in Nat /\ y + l <= SLAB_SIZE
    BY ChunkWithin
  <2> HIDE DEF x, y
  <2>3. SLAB_SIZE \in Nat /\ k \in 1..SLAB_SIZE /\ l \in 1..SLAB_SIZE
    BY Sizes
  <2>4. s \in Nat /\ t \in Nat
    BY DEF Slabs
  <2> HIDE DEF k, l
  <2>5. k \in Nat /\ l \in Nat
    BY <2>3
  <2> QED BY <2>1, <2>2, <2>3, <2>4, <2>5
<1>2. CASE s < t
  <2> HIDE DEF k, l, x, y
  <2>1. s * SLAB_SIZE + SLAB_SIZE = (s + 1) * SLAB_SIZE /\ (s + 1) * SLAB_SIZE <= t * SLAB_SIZE
    BY <1>1, <1>2
  <2>2. s * SLAB_SIZE \in Nat /\ t * SLAB_SIZE \in Nat
    BY <1>1
  <2>3. s * SLAB_SIZE + x + k <= t * SLAB_SIZE + y
    BY <1>1, <2>1, <2>2
  <2> QED BY <2>3 DEF k, l, x, y
<1>3. CASE t < s
  <2> HIDE DEF k, l, x, y
  <2>1. t * SLAB_SIZE + SLAB_SIZE = (t + 1) * SLAB_SIZE /\ (t + 1) * SLAB_SIZE <= s * SLAB_SIZE
    BY <1>1, <1>3
  <2>2. s * SLAB_SIZE \in Nat /\ t * SLAB_SIZE \in Nat
    BY <1>1
  <2>3. t * SLAB_SIZE + y + l <= s * SLAB_SIZE + x
    BY <1>1, <2>1, <2>2
  <2> QED BY <2>3 DEF k, l, x, y
<1>4. CASE s = t /\ c = d /\ i # j
  <2>1. i \in Nat /\ j \in Nat
    BY Sizes
  <2>2. k * i + k <= k * j \/ k * j + k <= k * i
    <3>1. CASE i + 1 <= j
      <4> HIDE DEF k
      <4>1. k * (i + 1) <= k * j /\ k * (i + 1) = k * i + k
        BY <1>1, <2>1, <3>1
      <4> QED BY <4>1
    <3>2. CASE j + 1 <= i
      <4> HIDE DEF k
      <4>1. k * (j + 1) <= k * i /\ k * (j + 1) = k * j + k
        BY <1>1, <2>1, <3>2
      <4> QED BY <4>1
    <3> QED BY <1>4, <2>1, <3>1, <3>2
  <2>3. s * SLAB_SIZE \in Nat /\ k * i \in Nat /\ k * j \in Nat /\ k \in Nat
    BY <1>1, <1>4
  <2> QED BY <1>4, <2>2, <2>3
<1> QED BY <1>1, <1>2, <1>3, <1>4
-----------------------------------------------------------------------------
(* Chunks                                                                  *)

\* The class a request is served from exists and is large enough.
LEMMA ClassFits ==
  ASSUME NEW size \in Nat, size <= largest_chunk_size
  PROVE  size_to_cache(size) \in Classes /\ size <= ChunkSizes[size_to_cache(size)]
<1> DEFINE T == {c \in Classes : size <= ChunkSizes[c]}
<1>1. T \in SUBSET Nat /\ Len(ChunkSizes) \in T
  BY Sizes DEF largest_chunk_size
<1>2. Min(T) \in T
  <2> HIDE DEF T
  <2> QED BY <1>1, Least
<1> QED BY <1>2 DEF size_to_cache

\* A slab that its counter does not call full has a free bit, and the first one is that
\* of a chunk it has.
LEMMA FreeBit ==
  ASSUME TypeOK, Counted, NEW s \in Slabs, NEW c \in Classes, nused[s] < chunk_count_perslab(c)
  PROVE  /\ slots[s] # {}
         /\ ff_setbit(s) \in slots[s]
         /\ ff_setbit(s) \in 0..(chunk_count_perslab(c) - 1)
<1> DEFINE n == chunk_count_perslab(c)
<1>1. n \in 1..BITS /\ BITS \in Nat /\ n \in Nat
  BY Sizes, BitsAssumption
<1>2. slots[s] \subseteq 0..(BITS - 1)
  BY DEF TypeOK
<1>3. IsFiniteSet(Used(s)) /\ nused[s] = Cardinality(Used(s))
  <2>1. IsFiniteSet(0..(BITS - 1))
    BY <1>1, FS_Interval
  <2> QED BY <2>1, FS_Subset DEF Counted, Used
<1>4. Cardinality(0..(n - 1)) = n
  <2> HIDE DEF n
  <2> QED BY <1>1, FS_Interval
<1>5. PICK j \in 0..(n - 1) : j \notin Used(s)
  <2>1. SUFFICES ASSUME 0..(n - 1) \subseteq Used(s) PROVE FALSE
    OBVIOUS
  <2>2. Cardinality(0..(n - 1)) <= Cardinality(Used(s))
    BY <1>3, <2>1, FS_Subset
  <2>3. nused[s] \in Int
    BY DEF TypeOK
  <2> HIDE DEF n
  <2>4. nused[s] < n
    BY DEF n
  <2> QED BY <1>1, <1>3, <1>4, <2>2, <2>3, <2>4
<1>6. j \in slots[s]
  <2> HIDE DEF n
  <2> QED BY <1>1, <1>5 DEF Used
<1>7. Min(slots[s]) \in slots[s] /\ Min(slots[s]) <= j
  <2>1. slots[s] \in SUBSET Nat
    BY <1>2
  <2> QED BY <1>6, <2>1, Least
<1>8. Min(slots[s]) \in 0..(n - 1)
  <2> HIDE DEF n
  <2> QED BY <1>1, <1>2, <1>5, <1>7
<1> QED BY <1>6, <1>7, <1>8 DEF ff_setbit

\* The bytes of chunk i of slab s when it serves class c, and those of the chunks u when
\* slab s serves class a[s].
ChunkBytes(s, c, i) ==
  (s * SLAB_SIZE + ChunkSizes[c] * i)..(s * SLAB_SIZE + ChunkSizes[c] * i + ChunkSizes[c] - 1)

BytesOf(u, a) == UNION {UNION {ChunkBytes(s, a[s], i) : i \in u[s]} : s \in Slabs}

\* The slabs u are cut as a says.
Cut(u, a) ==
  \A s \in Slabs : u[s] # {} => a[s] \in Classes /\ u[s] \subseteq 0..(chunk_count_perslab(a[s]) - 1)

\* Chunks lie within the slabs, so there are finitely many bytes in them.
LEMMA BytesWithin ==
  ASSUME NEW u, NEW a, Cut(u, a)
  PROVE  /\ IsFiniteSet(BytesOf(u, a))
         /\ Cardinality(BytesOf(u, a)) \in Nat
         /\ Cardinality(BytesOf(u, a)) <= slabctl_count * SLAB_SIZE
<1> DEFINE n == slabctl_count * SLAB_SIZE
<1>1. n \in Nat
  BY Sizes
<1>2. ASSUME NEW s \in Slabs, NEW i \in u[s], NEW x \in ChunkBytes(s, a[s], i)
      PROVE  x \in 0..(n - 1)
  <2> DEFINE p == s * SLAB_SIZE + ChunkSizes[a[s]] * i
             k == ChunkSizes[a[s]]
  <2>1. a[s] \in Classes /\ i \in 0..(chunk_count_perslab(a[s]) - 1)
    BY DEF Cut
  <2>2. p \in Nat /\ p + k <= n /\ k \in Nat
    BY <2>1, AddressWithin
  <2>3. x \in p..(p + k - 1)
    BY DEF ChunkBytes
  <2> HIDE DEF p, k, n
  <2> QED BY <1>1, <2>2, <2>3
<1>3. BytesOf(u, a) \subseteq 0..(n - 1)
  <2> HIDE DEF n
  <2> QED BY <1>2 DEF BytesOf
<1>4. IsFiniteSet(0..(n - 1)) /\ Cardinality(0..(n - 1)) = n
  <2> HIDE DEF n
  <2> QED BY <1>1, FS_Interval
<1> QED BY <1>3, <1>4, FS_Subset, FS_CardinalityType

\* Sets without a common element.
LEMMA Disjoint ==
  ASSUME NEW S, NEW T, IsFiniteSet(S), IsFiniteSet(T), S \cap T = {}
  PROVE  Cardinality(S \cup T) = Cardinality(S) + Cardinality(T)
<1>1. Cardinality(S) \in Nat /\ Cardinality(T) \in Nat /\ Cardinality({}) = 0
  BY FS_CardinalityType, FS_EmptySet
<1>2. Cardinality(S \cup T) = Cardinality(S) + Cardinality(T) - Cardinality({})
  BY FS_Union
<1> QED BY <1>1, <1>2

\* One more chunk in use is its size more bytes in use.
LEMMA OneMore ==
  ASSUME NEW u \in [Slabs -> SUBSET Nat], NEW a \in [Slabs -> Classes \cup {NULL}], Cut(u, a),
         NEW s \in Slabs, NEW c \in Classes, NEW i \in 0..(chunk_count_perslab(c) - 1),
         i \notin u[s], u[s] # {} => a[s] = c,
         u[s] \subseteq 0..(chunk_count_perslab(c) - 1),
         NEW v, NEW b, v[s] = u[s] \cup {i}, b[s] = c,
         \A t \in Slabs \ {s} : v[t] = u[t] /\ b[t] = a[t]
  PROVE  Cut(v, b) /\ Cardinality(BytesOf(v, b)) = Cardinality(BytesOf(u, a)) + ChunkSizes[c]
<1> DEFINE E == ChunkBytes(s, c, i)
           p == s * SLAB_SIZE + ChunkSizes[c] * i
           k == ChunkSizes[c]
<1>1. Cut(v, b)
  BY DEF Cut
<1>2. p \in Nat /\ k \in Nat /\ k > 0
  BY AddressWithin
<1>3. IsFiniteSet(E) /\ Cardinality(E) = k
  <2>1. E = p..(p + k - 1)
    BY DEF ChunkBytes
  <2> HIDE DEF p, k, E
  <2> QED BY <1>2, <2>1, FS_Interval
<1>4. \A t \in Slabs : t # s => v[t] = u[t] /\ b[t] = a[t]
  OBVIOUS
<1>5. v[s] = u[s] \cup {i} /\ b[s] = c
  OBVIOUS
<1>6. BytesOf(v, b) = BytesOf(u, a) \cup E
  <2> HIDE DEF E
  <2>1. ASSUME NEW x \in BytesOf(v, b) PROVE x \in BytesOf(u, a) \/ x \in E
    <3>0. PICK t \in Slabs : \E j \in v[t] : x \in ChunkBytes(t, b[t], j)
      BY DEF BytesOf
    <3>1. PICK j \in v[t] : x \in ChunkBytes(t, b[t], j)
      BY <3>0
    <3>2. CASE t # s
      BY <1>4, <3>1, <3>2 DEF BytesOf
    <3>3. CASE t = s /\ j \in u[s]
      BY <1>5, <3>1, <3>3 DEF BytesOf
    <3>4. CASE t = s /\ j = i
      BY <1>5, <3>1, <3>4 DEF E
    <3> QED BY <1>5, <3>1, <3>2, <3>3, <3>4
  <2>2. ASSUME NEW x \in E PROVE x \in BytesOf(v, b)
    <3>1. i \in v[s] /\ x \in ChunkBytes(s, b[s], i)
      BY <1>5 DEF E
    <3> QED BY <3>1 DEF BytesOf
  <2>3. ASSUME NEW x \in BytesOf(u, a) PROVE x \in BytesOf(v, b)
    <3>0. PICK t \in Slabs : \E j \in u[t] : x \in ChunkBytes(t, a[t], j)
      BY DEF BytesOf
    <3>1. PICK j \in u[t] : x \in ChunkBytes(t, a[t], j)
      BY <3>0
    <3>2. j \in v[t] /\ a[t] = b[t]
      BY <1>4, <1>5, <3>1
    <3> QED BY <3>1, <3>2 DEF BytesOf
  <2> QED BY <2>1, <2>2, <2>3
<1>7. BytesOf(u, a) \cap E = {}
  <2> SUFFICES ASSUME NEW x \in BytesOf(u, a), x \in E PROVE FALSE
    OBVIOUS
  <2>0. PICK t \in Slabs : \E j \in u[t] : x \in ChunkBytes(t, a[t], j)
    BY DEF BytesOf
  <2>1. PICK j \in u[t] : x \in ChunkBytes(t, a[t], j)
    BY <2>0
  <2>2. a[t] \in Classes /\ j \in 0..(chunk_count_perslab(a[t]) - 1)
    BY <2>1 DEF Cut
  <2>3. t # s \/ (a[t] = c /\ j # i)
    BY <2>1
  <2> DEFINE q == t * SLAB_SIZE + ChunkSizes[a[t]] * j
             m == ChunkSizes[a[t]]
  <2>4. p + k <= q \/ q + m <= p
    BY <2>2, <2>3, ChunksApart
  <2>5. q \in Nat /\ m \in Nat
    BY <2>2, AddressWithin
  <2>6. x \in p..(p + k - 1) /\ x \in q..(q + m - 1)
    BY <2>1 DEF ChunkBytes
  <2> HIDE DEF p, k, q, m
  <2> QED BY <1>2, <2>4, <2>5, <2>6
<1>8. IsFiniteSet(BytesOf(u, a)) /\ Cardinality(BytesOf(u, a)) \in Nat
  BY BytesWithin
<1>9. Cardinality(BytesOf(v, b)) = Cardinality(BytesOf(u, a)) + Cardinality(E)
  <2> HIDE DEF E
  <2> QED BY <1>3, <1>6, <1>7, <1>8, Disjoint
<1> QED BY <1>1, <1>3, <1>9
-----------------------------------------------------------------------------
(* The state                                                               *)

\* The chunks in use, slab by slab.
UsedOf == [s \in Slabs |-> Used(s)]

\* The counters bound the chunks in use.
LEMMA CountedIs ==
  ASSUME TypeOK, Counted
  PROVE  /\ UsedOf \in [Slabs -> SUBSET Nat] /\ Cut(UsedOf, cache)
         /\ UsedBytes = BytesOf(UsedOf, cache)
         /\ \A s \in Slabs : /\ IsFiniteSet(Used(s)) /\ nused[s] \in Nat
                             /\ nused[s] = 0 <=> Used(s) = {}
                             /\ Used(s) # {} => /\ cache[s] \in Classes
                                                /\ nused[s] <= chunk_count_perslab(cache[s])
<1>0. BITS \in Nat
  BY BitsAssumption
<1>1. UsedOf \in [Slabs -> SUBSET Nat]
  BY <1>0 DEF UsedOf, Used
<1>2. Cut(UsedOf, cache)
  BY DEF Cut, UsedOf, Counted, TypeOK
<1>3. UsedBytes = BytesOf(UsedOf, cache)
  BY DEF UsedBytes, BytesOf, UsedOf, Extent, ChunkBytes
<1>4. ASSUME NEW s \in Slabs
      PROVE  /\ IsFiniteSet(Used(s)) /\ nused[s] \in Nat
             /\ nused[s] = 0 <=> Used(s) = {}
             /\ Used(s) # {} => /\ cache[s] \in Classes
                                /\ nused[s] <= chunk_count_perslab(cache[s])
  <2>1. IsFiniteSet(0..(BITS - 1))
    BY <1>0, FS_Interval
  <2>2. IsFiniteSet(Used(s))
    BY <2>1, FS_Subset DEF Used
  <2>3. nused[s] \in Nat /\ (nused[s] = 0 <=> Used(s) = {})
    BY <2>2, FS_CardinalityType, FS_EmptySet DEF Counted
  <2>4. ASSUME Used(s) # {}
        PROVE  cache[s] \in Classes /\ nused[s] <= chunk_count_perslab(cache[s])
    <3>1. cache[s] \in Classes /\ Used(s) \subseteq 0..(chunk_count_perslab(cache[s]) - 1)
      BY <2>4 DEF Counted, TypeOK
    <3> DEFINE n == chunk_count_perslab(cache[s])
    <3>2. n \in Nat /\ n >= 1
      BY <1>0, <3>1, Sizes
    <3> HIDE DEF n
    <3>3. IsFiniteSet(0..(n - 1)) /\ Cardinality(0..(n - 1)) = n
      BY <3>2, FS_Interval
    <3>4. Cardinality(Used(s)) <= Cardinality(0..(n - 1))
      BY <3>1, <3>3, FS_Subset DEF n
    <3> QED BY <3>1, <3>3, <3>4 DEF Counted, n
  <2> QED BY <2>2, <2>3, <2>4
<1> QED BY <1>1, <1>2, <1>3, <1>4

\* The products of slab numbers and sizes are as in the integers.
LEMMA NoWrap ==
  ASSUME Fits
  PROVE  /\ (slabctl_count * SLAB_SIZE) % WIDTH = slabctl_count * SLAB_SIZE
         /\ mem_mallocd = METADATA + slabctl_count * SLAB_SIZE
         /\ \A p \in Nat : p <= slabctl_count * SLAB_SIZE => p % WIDTH = p
         /\ \A s \in Slabs, c \in Classes :
              \A i \in 0..(chunk_count_perslab(c) - 1) :
                Address(s, c, i) = s * SLAB_SIZE + ChunkSizes[c] * i
<1> DEFINE n == slabctl_count * SLAB_SIZE
<1>1. n \in Nat /\ WIDTH \in Nat /\ n < WIDTH
  BY Sizes, SizesAssumption DEF Fits
<1>2. SLAB_SIZE * slabctl_count = n
  BY Sizes
<1>3. \A p \in Nat : p <= n => p % WIDTH = p
  <2> HIDE DEF n
  <2> QED BY <1>1
<1>4. ASSUME NEW s \in Slabs PROVE (s * SLAB_SIZE) % WIDTH = s * SLAB_SIZE
  <2>1. s \in Nat /\ s <= slabctl_count /\ SLAB_SIZE \in Nat /\ slabctl_count \in Nat
    BY Sizes DEF Slabs
  <2>2. s * SLAB_SIZE \in Nat /\ s * SLAB_SIZE <= slabctl_count * SLAB_SIZE
    BY <2>1
  <2> HIDE DEF n
  <2> QED BY <1>3, <2>2 DEF n
<1>5. n % WIDTH = n
  <2> HIDE DEF n
  <2> QED BY <1>1, <1>3
<1> HIDE DEF n
<1> QED BY <1>2, <1>3, <1>4, <1>5 DEF n, mem_mallocd, Address

\* A slab that serves class c, or none, and is not full, has a chunk to give, and there
\* are bytes for it within the limit scmalloc asserts.
LEMMA Room ==
  ASSUME TypeOK, Counted, MemUsedTrue, Fits, NEW s \in Slabs, NEW c \in Classes,
         nused[s] < chunk_count_perslab(c), nused[s] = 0 \/ cache[s] = c
  PROVE  LET i == ff_setbit(s)
             v == [UsedOf EXCEPT ![s] = @ \cup {i}]
             b == [cache EXCEPT ![s] = c]
         IN  /\ slots[s] # {} /\ i \in slots[s] /\ i \in 0..(chunk_count_perslab(c) - 1)
             /\ InLimit(c) /\ Cut(v, b)
             /\ Cardinality(BytesOf(v, b)) = mem_used + ChunkSizes[c]
<1> DEFINE i == ff_setbit(s)
           v == [UsedOf EXCEPT ![s] = @ \cup {i}]
           b == [cache EXCEPT ![s] = c]
<1>1. slots[s] # {} /\ i \in slots[s] /\ i \in 0..(chunk_count_perslab(c) - 1)
  BY FreeBit
<1>2. /\ UsedOf \in [Slabs -> SUBSET Nat] /\ Cut(UsedOf, cache)
      /\ UsedBytes = BytesOf(UsedOf, cache) /\ cache \in [Slabs -> Classes \cup {NULL}]
      /\ UsedOf[s] = Used(s) /\ i \notin Used(s)
  BY <1>1, CountedIs DEF UsedOf, TypeOK, Used
<1>3. (Used(s) # {} => cache[s] = c) /\ Used(s) \subseteq 0..(chunk_count_perslab(c) - 1)
  BY CountedIs DEF Counted
<1>4. Cut(v, b) /\ Cardinality(BytesOf(v, b)) = Cardinality(BytesOf(UsedOf, cache)) + ChunkSizes[c]
  <2>1. /\ i \notin UsedOf[s] /\ (UsedOf[s] # {} => cache[s] = c)
        /\ UsedOf[s] \subseteq 0..(chunk_count_perslab(c) - 1)
    BY <1>2, <1>3
  <2>2. /\ v[s] = UsedOf[s] \cup {i} /\ b[s] = c
        /\ \A t \in Slabs \ {s} : v[t] = UsedOf[t] /\ b[t] = cache[t]
    BY <1>2
  <2> HIDE DEF i, v, b
  <2> QED BY <1>1, <1>2, <2>1, <2>2, OneMore
<1>5. Cardinality(BytesOf(v, b)) = mem_used + ChunkSizes[c]
  BY <1>2, <1>4 DEF MemUsedTrue
<1>6. Cardinality(BytesOf(v, b)) <= slabctl_count * SLAB_SIZE
  <2> HIDE DEF v, b
  <2> QED BY <1>4, BytesWithin
<1>7. InLimit(c)
  <2> DEFINE n == slabctl_count * SLAB_SIZE
             k == ChunkSizes[c]
  <2>1. n \in Nat /\ METADATA \in Nat /\ k \in Nat /\ mem_used \in Int
    BY Sizes, SizesAssumption DEF TypeOK
  <2>2. mem_mallocd = METADATA + n
    BY NoWrap
  <2>3. mem_used + k <= n
    BY <1>5, <1>6
  <2> HIDE DEF n, k
  <2>4. mem_used + k <= METADATA + n
    BY <2>1, <2>3
  <2> QED BY <2>2, <2>4 DEF InLimit, k
<1> QED BY <1>1, <1>4, <1>5, <1>7
-----------------------------------------------------------------------------
(* The invariant                                                           *)

LEMMA InitOK == Init => IInv
<1> SUFFICES ASSUME Init PROVE IInv
  OBVIOUS
<1> USE DEF Init
<1>0. BITS \in Nat /\ slabctl_count \in Nat
  BY BitsAssumption, CountAssumption
<1>1. \A s \in Slabs : Used(s) = {}
  BY <1>0 DEF Used
<1>2. slabs_free \in Seq(Slabs) /\ Len(slabs_free) = slabctl_count
  BY <1>0 DEF Slabs
<1>3. \A c \in Classes : slabs_partial[c] = <<>> /\ slabs_full[c] = <<>>
  OBVIOUS
<1>4. TypeOK
  <2>1. <<>> \in Seq(Slabs)
    OBVIOUS
  <2> QED BY <1>0, <1>2, <2>1 DEF TypeOK
<1>5. Counted
  BY <1>1, FS_EmptySet DEF Counted
<1>6. SlabsListed
  <2>1. ASSUME NEW s \in Slabs PROVE Contains(slabs_free, s)
    <3>1. s + 1 \in 1..slabctl_count /\ slabs_free[s + 1] = s
      BY <1>0 DEF Slabs
    <3> QED BY <1>2, <3>1 DEF Contains
  <2>2. \A s : ~Contains(<<>>, s)
    BY DEF Contains
  <2>3. IsInjective(slabs_free) /\ IsInjective(<<>>)
    BY <1>0 DEF IsInjective
  <2>4. ASSUME NEW s \in Slabs PROVE Listed(s)
    <3>1. nused[s] = 0
      OBVIOUS
    <3>2. ASSUME NEW c \in Classes
          PROVE  nused[s] \notin 1..(chunk_count_perslab(c) - 1)
      BY <3>1
    <3> QED BY <1>3, <2>1, <2>2, <3>1, <3>2 DEF Listed
  <2> QED BY <1>3, <2>3, <2>4 DEF SlabsListed
<1>7. MemUsedTrue
  <2>1. UsedBytes = {}
    BY <1>1 DEF UsedBytes
  <2> QED BY <2>1, FS_EmptySet DEF MemUsedTrue
<1>8. HeldOwned
  BY DEF HeldOwned
<1> QED BY <1>4, <1>5, <1>6, <1>7, <1>8 DEF IInv, NeverDies, Running

\* Giving a chunk keeps the counter of its slab, the bytes in use and the pointers given
\* out in step.
LEMMA CarveKeeps ==
  ASSUME TypeOK, Counted, MemUsedTrue, HeldOwned, Fits, NEW s \in Slabs, NEW c \in Classes,
         nused[s] < chunk_count_perslab(c), nused[s] = 0 \/ cache[s] = c,
         NEW size \in 1..ChunkSizes[c], NEW partial, Carve(s, c, partial, size)
  PROVE  Counted' /\ MemUsedTrue' /\ HeldOwned' /\ held' \subseteq [ptr : Nat, size : Nat]
<1> DEFINE i == ff_setbit(s)
           p == s * SLAB_SIZE + ChunkSizes[c] * i
<1>1. /\ i \in slots[s] /\ i \in 0..(chunk_count_perslab(c) - 1)
      /\ Cut([UsedOf EXCEPT ![s] = @ \cup {i}], [cache EXCEPT ![s] = c])
      /\ Cardinality(BytesOf([UsedOf EXCEPT ![s] = @ \cup {i}], [cache EXCEPT ![s] = c]))
           = mem_used + ChunkSizes[c]
  BY Room
<1>2. /\ slots' = [slots EXCEPT ![s] = @ \ {i}] /\ nused' = [nused EXCEPT ![s] = @ + 1]
      /\ cache' = [cache EXCEPT ![s] = c] /\ mem_used' = mem_used + ChunkSizes[c]
      /\ held' = held \cup {[ptr |-> Address(s, c, i), size |-> size]}
  BY DEF Carve
<1>3. Address(s, c, i) = p /\ p \in Nat /\ size \in Nat
  BY <1>1, NoWrap, AddressWithin
<1> HIDE DEF i
<1>4. \A t \in Slabs : Used(t)' = IF t = s THEN Used(s) \cup {i} ELSE Used(t)
  <2>1. slots \in [Slabs -> SUBSET (0..(BITS - 1))]
    BY DEF TypeOK
  <2> QED BY <1>1, <1>2, <2>1 DEF Used
<1>5. cache' \in [Slabs -> Classes \cup {NULL}] /\ \A t \in Slabs : cache'[t] = IF t = s THEN c ELSE cache[t]
  BY <1>2 DEF TypeOK
<1>6. Counted'
  <2> SUFFICES ASSUME NEW t \in Slabs
               PROVE  /\ nused'[t] = Cardinality(Used(t)')
                      /\ Used(t)' # {} => /\ cache'[t] # NULL
                                          /\ Used(t)' \subseteq 0..(chunk_count_perslab(cache'[t]) - 1)
    BY DEF Counted
  <2>1. CASE t # s
    <3>1. nused'[t] = nused[t] /\ Used(t)' = Used(t) /\ cache'[t] = cache[t]
      BY <1>2, <1>4, <1>5, <2>1 DEF TypeOK
    <3> QED BY <3>1 DEF Counted
  <2>2. CASE t = s
    <3>1. nused'[s] = nused[s] + 1 /\ Used(s)' = Used(s) \cup {i} /\ cache'[s] = c
      BY <1>2, <1>4, <1>5 DEF TypeOK
    <3>2. i \notin Used(s) /\ IsFiniteSet(Used(s)) /\ nused[s] = Cardinality(Used(s))
      BY <1>1, CountedIs DEF Used, Counted
    <3>3. Cardinality(Used(s) \cup {i}) = nused[s] + 1
      BY <3>2, FS_AddElement
    <3>4. Used(s) \subseteq 0..(chunk_count_perslab(c) - 1)
      BY CountedIs DEF Counted
    <3> QED BY <1>1, <2>2, <3>1, <3>3, <3>4, NullAssumption
  <2> QED BY <2>1, <2>2
<1>7. MemUsedTrue'
  <2>1. UsedOf' = [UsedOf EXCEPT ![s] = @ \cup {i}]
    BY <1>4 DEF UsedOf
  <2>2. UsedBytes' = BytesOf(UsedOf', cache')
    BY DEF UsedBytes, BytesOf, UsedOf, Extent, ChunkBytes
  <2> QED BY <1>1, <1>2, <2>1, <2>2 DEF MemUsedTrue
<1>8. HeldOwned'
  <2> DEFINE Own(h, t, d, j) == /\ h.ptr = t * SLAB_SIZE + ChunkSizes[d] * j
                                /\ h.size \in 1..ChunkSizes[d]
             new == [ptr |-> p, size |-> size]
  <2>0. held' = held \cup {new}
    BY <1>2, <1>3
  <2>1. ASSUME NEW h \in held
        PROVE  \E t \in Slabs : \E j \in Used(t)' : Own(h, t, cache'[t], j) /\ h.ptr # p
    <3>1. PICK t \in Slabs : \E j \in Used(t) : Own(h, t, cache[t], j)
      BY DEF HeldOwned
    <3>2. PICK j \in Used(t) : Own(h, t, cache[t], j)
      BY <3>1
    <3>3. j \in Used(t)' /\ cache'[t] = cache[t]
      <4>1. t = s => cache[t] = c
        BY CountedIs, <3>2
      <4> QED BY <1>4, <1>5, <4>1
    <3>4. Own(h, t, cache'[t], j)
      BY <3>2, <3>3
    <3>5. h.ptr # p
      <4> DEFINE d == cache[t]
                 q == t * SLAB_SIZE + ChunkSizes[d] * j
      <4>1. d \in Classes /\ j \in 0..(chunk_count_perslab(d) - 1)
        BY CountedIs DEF Counted
      <4>2. t # s \/ (d = c /\ j # i)
        <5>1. t = s => d = c
          BY CountedIs
        <5> QED BY <1>1, <5>1 DEF Used
      <4>3. p + ChunkSizes[c] <= q \/ q + ChunkSizes[d] <= p
        <5> HIDE DEF d
        <5> QED BY <1>1, <4>1, <4>2, ChunksApart
      <4>4. q \in Nat /\ ChunkSizes[d] \in Nat /\ ChunkSizes[d] > 0
        <5> HIDE DEF d
        <5> QED BY <4>1, AddressWithin
      <4>5. ChunkSizes[c] \in Nat /\ ChunkSizes[c] > 0
        BY <1>1, AddressWithin
      <4>6. q # p
        <5> HIDE DEF q, p
        <5> QED BY <1>3, <4>3, <4>4, <4>5
      <4> QED BY <3>2, <4>6
    <3> QED BY <3>3, <3>4, <3>5
  <2>2. \E t \in Slabs : \E j \in Used(t)' : Own(new, t, cache'[t], j)
    <3>1. i \in Used(s)' /\ cache'[s] = c
      BY <1>4, <1>5
    <3>2. Own(new, s, cache'[s], i)
      BY <3>1
    <3> HIDE DEF Own
    <3> QED BY <3>1, <3>2
  <2>3. \A h \in held' : \E t \in Slabs : \E j \in Used(t)' : Own(h, t, cache'[t], j)
    <3> HIDE DEF Own
    <3> QED BY <2>0, <2>1, <2>2
  <2>4. \A g, h \in held' : g.ptr = h.ptr => g = h
    <3>1. \A g, h \in held : g.ptr = h.ptr => g = h
      BY DEF HeldOwned
    <3>2. new.ptr = p /\ \A h \in held : h.ptr # p
      BY <2>1
    <3> HIDE DEF new
    <3> QED BY <2>0, <3>1, <3>2
  <2> QED BY <2>3, <2>4 DEF HeldOwned
<1>9. held' \subseteq [ptr : Nat, size : Nat]
  BY <1>2, <1>3 DEF TypeOK
<1> QED BY <1>6, <1>7, <1>8, <1>9

\* What scmalloc_partial does when the invariant holds: it does not die, and the slab it
\* takes from has a chunk.
LEMMA PartialServes ==
  ASSUME IInv, Fits, NEW c \in Classes, NEW size, scmalloc_partial(c, size)
  PROVE  /\ slabs_partial[c] # <<>>
         /\ Head(slabs_partial[c]) \in Slabs /\ cache[Head(slabs_partial[c])] = c
         /\ nused[Head(slabs_partial[c])] \in 1..(chunk_count_perslab(c) - 1)
         /\ Carve(Head(slabs_partial[c]), c, slabs_partial[c], size)
         /\ UNCHANGED slabs_free
<1> DEFINE s == Head(slabs_partial[c])
<1> USE DEF IInv
<1>1. slabs_partial[c] # <<>> /\ UNCHANGED slabs_free
  BY DEF scmalloc_partial
<1>2. s \in Slabs /\ Contains(slabs_partial[c], s)
  BY <1>1, TailIn DEF TypeOK, SlabsListed
<1>3. cache[s] = c /\ nused[s] \in 1..(chunk_count_perslab(c) - 1)
  BY <1>2 DEF SlabsListed, Listed
<1>4. Sound(s, c) /\ InLimit(c)
  <2>1. nused[s] < chunk_count_perslab(c)
    BY <1>3, Sizes
  <2>2. slots[s] # {} /\ InLimit(c)
    BY <1>2, <1>3, <2>1, Room
  <2> QED BY <1>3, <2>2 DEF Sound
<1> QED BY <1>1, <1>2, <1>3, <1>4 DEF scmalloc_partial

\* Taking a chunk of a slab keeps the types.
LEMMA CarveTypes ==
  ASSUME TypeOK, NEW s \in Slabs, NEW c \in Classes, NEW partial, NEW size, Carve(s, c, partial, size)
  PROVE  /\ slots' \in [Slabs -> SUBSET (0..(BITS - 1))]
         /\ nused' \in [Slabs -> Int] /\ cache' \in [Slabs -> Classes \cup {NULL}]
         /\ mem_used' \in Int
<1>1. ChunkSizes[c] \in Int
  BY Sizes
<1>2. /\ slots' = [slots EXCEPT ![s] = @ \ {ff_setbit(s)}] /\ nused' = [nused EXCEPT ![s] = @ + 1]
      /\ cache' = [cache EXCEPT ![s] = c] /\ mem_used' = mem_used + ChunkSizes[c]
  BY DEF Carve
<1>3. /\ slots \in [Slabs -> SUBSET (0..(BITS - 1))] /\ nused \in [Slabs -> Int]
      /\ cache \in [Slabs -> Classes \cup {NULL}] /\ mem_used \in Int
  BY DEF TypeOK
<1>4. slots' \in [Slabs -> SUBSET (0..(BITS - 1))]
  BY <1>2, <1>3
<1>5. nused' \in [Slabs -> Int]
  BY <1>2, <1>3
<1>6. cache' \in [Slabs -> Classes \cup {NULL}] /\ mem_used' \in Int
  BY <1>1, <1>2, <1>3
<1> QED BY <1>4, <1>5, <1>6

LEMMA PartialKeeps ==
  ASSUME IInv, Fits, NEW c \in Classes, NEW size \in 1..ChunkSizes[c], scmalloc_partial(c, size)
  PROVE  IInv'
<1> DEFINE s == Head(slabs_partial[c])
           n == chunk_count_perslab(c)
<1> USE DEF IInv
<1>1. /\ slabs_partial[c] # <<>> /\ s \in Slabs /\ cache[s] = c /\ nused[s] \in 1..(n - 1)
      /\ Carve(s, c, slabs_partial[c], size) /\ UNCHANGED slabs_free
  BY PartialServes
<1>2. n \in Nat /\ \A t \in Slabs : nused[t] \in Nat
  BY Sizes, CountedIs, BitsAssumption
<1>3. Counted' /\ MemUsedTrue' /\ HeldOwned' /\ held' \subseteq [ptr : Nat, size : Nat]
  <2>1. nused[s] < n
    BY <1>1, <1>2
  <2> HIDE DEF s
  <2> QED BY <1>1, <2>1, CarveKeeps
<1>4. /\ \A t \in Slabs : nused'[t] = IF t = s THEN nused[s] + 1 ELSE nused[t]
      /\ \A t \in Slabs : cache'[t] = cache[t]
      /\ status' = "running"
  BY <1>1 DEF Carve, TypeOK, NeverDies, Running
<1> HIDE DEF s
<1>5. /\ slots' \in [Slabs -> SUBSET (0..(BITS - 1))]
      /\ nused' \in [Slabs -> Int] /\ cache' \in [Slabs -> Classes \cup {NULL}]
      /\ mem_used' \in Int
  BY <1>1, CarveTypes
<1>6. CASE nused[s] + 1 # n
  <2>1. UNCHANGED lists
    <3>1. slabs_partial' = [slabs_partial EXCEPT ![c] = slabs_partial[c]] /\ UNCHANGED slabs_full
      BY <1>1, <1>6 DEF Carve, Filled
    <3>2. slabs_partial' = slabs_partial
      BY <3>1 DEF TypeOK
    <3> QED BY <1>1, <3>1, <3>2 DEF lists
  <2>2. TypeOK'
    BY <1>3, <1>4, <1>5, <2>1 DEF TypeOK, lists
  <2>3. SlabsListed'
    <3>1. ASSUME NEW t \in Slabs PROVE Listed(t)'
      <4>1. CASE t # s
        BY <1>4, <2>1, <4>1 DEF lists, SlabsListed, Listed
      <4>2. CASE t = s
        <5>1. /\ nused'[s] = nused[s] + 1 /\ cache'[s] = c /\ nused'[s] # 0
              /\ nused'[s] \in 1..(n - 1) /\ nused[s] # 0 /\ nused'[s] # n /\ nused[s] # n
          BY <1>1, <1>2, <1>4, <1>6
        <5> HIDE DEF n
        <5> QED BY <1>1, <2>1, <4>2, <5>1 DEF lists, SlabsListed, Listed, n
      <4> QED BY <4>1, <4>2
    <3> QED BY <2>1, <3>1 DEF lists, SlabsListed
  <2> QED BY <1>3, <1>4, <2>2, <2>3 DEF NeverDies, Running
<1>7. CASE nused[s] + 1 = n
  <2>1. /\ slabs_partial' = [slabs_partial EXCEPT ![c] = Tail(slabs_partial[c])]
        /\ slabs_full' = [slabs_full EXCEPT ![c] = Cons(s, slabs_full[c])]
    BY <1>1, <1>7 DEF Carve, Filled
  <2>2. /\ slabs_partial[c] \in Seq(Slabs) /\ IsInjective(slabs_partial[c])
        /\ slabs_full[c] \in Seq(Slabs) /\ IsInjective(slabs_full[c])
        /\ ~Contains(slabs_full[c], s)
    BY <1>1, <1>2, <1>7 DEF TypeOK, SlabsListed, Listed
  <2>3. /\ Tail(slabs_partial[c]) \in Seq(Slabs) /\ IsInjective(Tail(slabs_partial[c]))
        /\ \A x : Contains(Tail(slabs_partial[c]), x) <=> x # s /\ Contains(slabs_partial[c], x)
    BY <1>1, <2>2, TailIn DEF s
  <2>4. /\ Cons(s, slabs_full[c]) \in Seq(Slabs) /\ IsInjective(Cons(s, slabs_full[c]))
        /\ \A x : Contains(Cons(s, slabs_full[c]), x) <=> x = s \/ Contains(slabs_full[c], x)
    BY <1>1, <2>2, ConsIn
  <2>5. TypeOK'
    BY <1>1, <1>3, <1>4, <1>5, <2>1, <2>3, <2>4 DEF TypeOK
  <2>6. \A d \in Classes : /\ slabs_partial'[d] = IF d = c THEN Tail(slabs_partial[c]) ELSE slabs_partial[d]
                           /\ slabs_full'[d] = IF d = c THEN Cons(s, slabs_full[c]) ELSE slabs_full[d]
    BY <2>1 DEF TypeOK
  <2>7. SlabsListed'
    <3>1. ASSUME NEW t \in Slabs PROVE Listed(t)'
      <4>1. CASE t # s
        <5>1. \A d \in Classes : /\ Contains(slabs_partial'[d], t) <=> Contains(slabs_partial[d], t)
                                 /\ Contains(slabs_full'[d], t) <=> Contains(slabs_full[d], t)
          BY <2>3, <2>4, <2>6, <4>1
        <5> QED BY <1>1, <1>4, <4>1, <5>1 DEF SlabsListed, Listed
      <4>2. CASE t = s
        <5>1. nused'[s] = n /\ cache'[s] = c /\ nused[s] # 0 /\ n # 0 /\ n \notin 1..(n - 1)
          BY <1>1, <1>2, <1>4, <1>7
        <5>2. \A d \in Classes : ~Contains(slabs_partial'[d], s) /\ (Contains(slabs_full'[d], s) <=> d = c)
          BY <1>1, <2>3, <2>4, <2>6 DEF SlabsListed, Listed
        <5> HIDE DEF n
        <5> QED BY <1>1, <4>2, <5>1, <5>2 DEF SlabsListed, Listed, n
      <4> QED BY <4>1, <4>2
    <3> QED BY <1>1, <2>3, <2>4, <2>6, <3>1 DEF SlabsListed
  <2> QED BY <1>3, <1>4, <2>5, <2>7 DEF NeverDies, Running
<1> QED BY <1>6, <1>7

\* The same of scmalloc_free.
LEMMA FreeServes ==
  ASSUME IInv, Fits, NEW c \in Classes, NEW size, scmalloc_free(c, size)
  PROVE  /\ slabs_partial[c] = <<>> /\ slabs_free # <<>>
         /\ Head(slabs_free) \in Slabs /\ nused[Head(slabs_free)] = 0
         /\ Carve(Head(slabs_free), c, <<Head(slabs_free)>>, size)
         /\ slabs_free' = Tail(slabs_free)
<1> DEFINE s == Head(slabs_free)
<1> USE DEF IInv
<1>1. slabs_partial[c] = <<>> /\ slabs_free # <<>>
  BY DEF scmalloc_free
<1>2. s \in Slabs /\ Contains(slabs_free, s)
  BY <1>1, TailIn DEF TypeOK, SlabsListed
<1>3. nused[s] = 0
  BY <1>2 DEF SlabsListed, Listed
<1>4. slots[s] # {} /\ InLimit(c)
  <2>1. nused[s] < chunk_count_perslab(c)
    BY <1>3, Sizes
  <2> QED BY <1>2, <1>3, <2>1, Room
<1> QED BY <1>1, <1>2, <1>3, <1>4 DEF scmalloc_free

LEMMA FreeKeeps ==
  ASSUME IInv, Fits, NEW c \in Classes, NEW size \in 1..ChunkSizes[c], scmalloc_free(c, size)
  PROVE  IInv'
<1> DEFINE s == Head(slabs_free)
           n == chunk_count_perslab(c)
<1> USE DEF IInv
<1>1. /\ slabs_partial[c] = <<>> /\ slabs_free # <<>> /\ s \in Slabs /\ nused[s] = 0
      /\ Carve(s, c, <<s>>, size) /\ slabs_free' = Tail(slabs_free)
  BY FreeServes
<1>2. n \in Nat /\ n >= 1 /\ \A t \in Slabs : nused[t] \in Nat
  BY Sizes, CountedIs, BitsAssumption
<1>3. Counted' /\ MemUsedTrue' /\ HeldOwned' /\ held' \subseteq [ptr : Nat, size : Nat]
  <2>1. nused[s] < n
    BY <1>1, <1>2
  <2> HIDE DEF s
  <2> QED BY <1>1, <2>1, CarveKeeps
<1>4. /\ \A t \in Slabs : nused'[t] = IF t = s THEN 1 ELSE nused[t]
      /\ \A t \in Slabs : cache'[t] = IF t = s THEN c ELSE cache[t]
      /\ status' = "running"
  BY <1>1 DEF Carve, TypeOK, NeverDies, Running
<1> HIDE DEF s
<1>5. /\ slots' \in [Slabs -> SUBSET (0..(BITS - 1))]
      /\ nused' \in [Slabs -> Int] /\ cache' \in [Slabs -> Classes \cup {NULL}]
      /\ mem_used' \in Int
  BY <1>1, CarveTypes
<1>6. /\ slabs_free' \in Seq(Slabs) /\ IsInjective(slabs_free')
      /\ \A x : Contains(slabs_free', x) <=> x # s /\ Contains(slabs_free, x)
  <2>1. slabs_free \in Seq(Slabs) /\ IsInjective(slabs_free)
    BY DEF TypeOK, SlabsListed
  <2> QED BY <1>1, <2>1, TailIn DEF s
<1>7. \A d \in Classes : ~Contains(slabs_partial[d], s) /\ ~Contains(slabs_full[d], s)
  BY <1>1 DEF SlabsListed, Listed
<1>8. /\ <<s>> \in Seq(Slabs) /\ IsInjective(<<s>>) /\ \A x : Contains(<<s>>, x) <=> x = s
      /\ <<>> \in Seq(Slabs) /\ IsInjective(<<>>) /\ \A x : ~Contains(<<>>, x)
      /\ Tail(<<s>>) = <<>>
  BY <1>1 DEF IsInjective, Contains
<1>9. /\ slabs_full[c] \in Seq(Slabs) /\ IsInjective(slabs_full[c])
      /\ Cons(s, slabs_full[c]) \in Seq(Slabs) /\ IsInjective(Cons(s, slabs_full[c]))
      /\ \A x : Contains(Cons(s, slabs_full[c]), x) <=> x = s \/ Contains(slabs_full[c], x)
  <2>1. slabs_full[c] \in Seq(Slabs) /\ IsInjective(slabs_full[c]) /\ ~Contains(slabs_full[c], s)
    BY <1>7 DEF TypeOK, SlabsListed
  <2> QED BY <1>1, <2>1, ConsIn
<1>10. PICK p, f :
         /\ slabs_partial' = [slabs_partial EXCEPT ![c] = p]
         /\ slabs_full' = [slabs_full EXCEPT ![c] = f]
         /\ p \in Seq(Slabs) /\ IsInjective(p) /\ \A x : Contains(p, x) <=> x = s /\ n # 1
         /\ f \in Seq(Slabs) /\ IsInjective(f)
         /\ \A x : Contains(f, x) <=> Contains(slabs_full[c], x) \/ (x = s /\ n = 1)
  <2>1. CASE n = 1
    <3>1. /\ slabs_partial' = [slabs_partial EXCEPT ![c] = <<>>]
          /\ slabs_full' = [slabs_full EXCEPT ![c] = Cons(s, slabs_full[c])]
      BY <1>1, <1>8, <2>1 DEF Carve, Filled
    <3> QED BY <1>8, <1>9, <2>1, <3>1
  <2>2. CASE n # 1
    <3>1. slabs_partial' = [slabs_partial EXCEPT ![c] = <<s>>] /\ slabs_full' = slabs_full
      BY <1>1, <2>2 DEF Carve, Filled
    <3>2. slabs_full = [slabs_full EXCEPT ![c] = slabs_full[c]]
      BY DEF TypeOK
    <3> QED BY <1>8, <1>9, <2>2, <3>1, <3>2
  <2> QED BY <2>1, <2>2
<1>11. \A d \in Classes : /\ slabs_partial'[d] = IF d = c THEN p ELSE slabs_partial[d]
                          /\ slabs_full'[d] = IF d = c THEN f ELSE slabs_full[d]
  BY <1>10 DEF TypeOK
<1>12. TypeOK'
  BY <1>3, <1>4, <1>5, <1>6, <1>10 DEF TypeOK
<1>13. SlabsListed'
  <2>1. ASSUME NEW t \in Slabs PROVE Listed(t)'
    <3>1. CASE t # s
      <4>0. ~Contains(slabs_partial[c], t)
        BY <1>1, <1>8
      <4>1. \A d \in Classes : /\ Contains(slabs_partial'[d], t) <=> Contains(slabs_partial[d], t)
                               /\ Contains(slabs_full'[d], t) <=> Contains(slabs_full[d], t)
        BY <1>10, <1>11, <3>1, <4>0
      <4> QED BY <1>4, <1>6, <3>1, <4>1 DEF SlabsListed, Listed
    <3>2. CASE t = s
      <4>1. nused'[s] = 1 /\ cache'[s] = c /\ (1 \in 1..(n - 1) <=> n # 1)
        BY <1>1, <1>2, <1>4
      <4>2. \A d \in Classes : /\ Contains(slabs_partial'[d], s) <=> d = c /\ n # 1
                               /\ Contains(slabs_full'[d], s) <=> d = c /\ n = 1
        BY <1>7, <1>10, <1>11
      <4> HIDE DEF n
      <4> QED BY <1>6, <3>2, <4>1, <4>2 DEF Listed, n
    <3> QED BY <3>1, <3>2
  <2> QED BY <1>6, <1>10, <1>11, <2>1 DEF SlabsListed
<1> QED BY <1>3, <1>4, <1>12, <1>13 DEF NeverDies, Running

\* Whatever is asked for, scmalloc keeps the invariant.
LEMMA MallocKeeps ==
  ASSUME IInv, Fits, NEW size \in Asked, scmalloc(size)
  PROVE  IInv'
<1>1. size \in Nat /\ size > 0 /\ size <= largest_chunk_size
  BY AskedAssumption DEF scmalloc
<1>2. PICK c \in Classes : size <= ChunkSizes[c] /\ (scmalloc_partial(c, size) \/ scmalloc_free(c, size))
  BY <1>1, ClassFits DEF scmalloc
<1>3. size \in 1..ChunkSizes[c]
  BY <1>1, <1>2, Sizes
<1> QED BY <1>2, <1>3, PartialKeeps, FreeKeeps

\* What scfree does with a pointer it was given: it finds the slab and the chunk in use,
\* none of its assertions fails, and the chunk is freed.
LEMMA FreeFinds ==
  ASSUME IInv, Fits, NEW h \in held, scfree(h.ptr)
  PROVE  \E s \in Slabs : \E i \in Used(s) :
           /\ h.ptr = s * SLAB_SIZE + ChunkSizes[cache[s]] * i
           /\ FreeChunk(s, cache[s], i)
           /\ held' = {g \in held : g.ptr # h.ptr}
<1> USE DEF IInv
<1>1. PICK s \in Slabs : \E i \in Used(s) : h.ptr = s * SLAB_SIZE + ChunkSizes[cache[s]] * i
  BY DEF HeldOwned
<1>2. PICK i \in Used(s) : h.ptr = s * SLAB_SIZE + ChunkSizes[cache[s]] * i
  BY <1>1
<1> DEFINE c == cache[s]
           n == chunk_count_perslab(c)
           N == slabctl_count * SLAB_SIZE
<1>3. c \in Classes /\ c # NULL /\ i \in 0..(n - 1) /\ i \notin slots[s]
  BY CountedIs, NullAssumption DEF Counted, Used
<1>4. /\ h.ptr \in Nat /\ h.ptr <= N /\ h.ptr \div SLAB_SIZE = s
      /\ (h.ptr % SLAB_SIZE) \div ChunkSizes[c] = i
  <2> DEFINE k == ChunkSizes[c]
  <2>1. /\ h.ptr \in Nat /\ k \in Nat /\ h.ptr + k <= N /\ h.ptr \div SLAB_SIZE = s
        /\ (h.ptr % SLAB_SIZE) \div k = i
    <3> HIDE DEF c
    <3>1. h.ptr = s * SLAB_SIZE + ChunkSizes[c] * i
      BY <1>2 DEF c
    <3> QED BY <1>3, <3>1, AddressWithin
  <2>2. N \in Nat
    BY Sizes
  <2> HIDE DEF k, N, c
  <2> QED BY <2>1, <2>2 DEF k
<1>5. h.ptr % WIDTH = h.ptr /\ N % WIDTH = N
  BY <1>4, NoWrap
<1>6. Owned(s, c)
  <2>1. nused[s] \in Nat /\ nused[s] # 0 /\ nused[s] <= n /\ n \in Nat
    BY <1>3, CountedIs, Sizes, BitsAssumption
  <2>2. CASE nused[s] = n
    BY <1>3, <2>1, <2>2 DEF SlabsListed, Listed, Owned
  <2>3. CASE nused[s] # n
    <3>1. nused[s] \in 1..(n - 1)
      <4> HIDE DEF n
      <4> QED BY <2>1, <2>3
    <3>2. Contains(slabs_partial[c], s)
      BY <1>3, <3>1 DEF SlabsListed, Listed
    <3> QED BY <2>3, <3>2 DEF Owned
  <2> QED BY <2>2, <2>3
<1>7. Chunk(s, h.ptr) = i
  BY <1>4 DEF Chunk
<1>8. ~(h.ptr > N)
  <2>1. N \in Nat
    BY Sizes
  <2> HIDE DEF N
  <2> QED BY <1>4, <2>1
<1>9. FreeChunk(s, cache[s], i) /\ held' = {g \in held : g.ptr # h.ptr}
  <2> HIDE DEF N, IInv
  <2> QED BY <1>3, <1>4, <1>5, <1>6, <1>7, <1>8 DEF scfree, c, N
<1> QED BY <1>2, <1>9

\* Freeing a chunk keeps the counter of its slab, the bytes in use and the pointers given
\* out in step.
LEMMA FreeChunkKeeps ==
  ASSUME IInv, NEW h \in held, NEW s \in Slabs, NEW i \in Used(s),
         h.ptr = s * SLAB_SIZE + ChunkSizes[cache[s]] * i,
         FreeChunk(s, cache[s], i), held' = {g \in held : g.ptr # h.ptr}
  PROVE  Counted' /\ MemUsedTrue' /\ HeldOwned'
<1> DEFINE c == cache[s]
<1> USE DEF IInv
<1>1. c \in Classes /\ i \in 0..(chunk_count_perslab(c) - 1) /\ i \notin slots[s] /\ i \in 0..(BITS - 1)
  BY CountedIs DEF Counted, Used
<1>2. /\ slots' = [slots EXCEPT ![s] = @ \cup {i}] /\ nused' = [nused EXCEPT ![s] = @ - 1]
      /\ mem_used' = mem_used - ChunkSizes[c] /\ cache' = cache
  BY DEF FreeChunk
<1>3. \A t \in Slabs : Used(t)' = IF t = s THEN Used(s) \ {i} ELSE Used(t)
  BY <1>1, <1>2 DEF Used, TypeOK
<1>4. Counted'
  <2> SUFFICES ASSUME NEW t \in Slabs
               PROVE  /\ nused'[t] = Cardinality(Used(t)')
                      /\ Used(t)' # {} => /\ cache'[t] # NULL
                                          /\ Used(t)' \subseteq 0..(chunk_count_perslab(cache'[t]) - 1)
    BY DEF Counted
  <2>0. Used(t)' \subseteq Used(t)
    BY <1>3
  <2>1. nused'[t] = Cardinality(Used(t)')
    <3>1. CASE t # s
      BY <1>2, <1>3, <3>1 DEF TypeOK, Counted
    <3>2. CASE t = s
      <4>1. nused'[s] = nused[s] - 1 /\ Used(s)' = Used(s) \ {i}
        BY <1>2, <1>3 DEF TypeOK
      <4>2. Cardinality(Used(s) \ {i}) = Cardinality(Used(s)) - 1
        BY CountedIs, FS_RemoveElement
      <4> QED BY <3>2, <4>1, <4>2 DEF Counted
    <3> QED BY <3>1, <3>2
  <2> QED BY <1>2, <2>0, <2>1 DEF Counted
<1>5. MemUsedTrue'
  <2> DEFINE u == UsedOf'
             v == UsedOf
             k == ChunkSizes[c]
  <2>1. /\ v \in [Slabs -> SUBSET Nat] /\ Cut(v, cache) /\ UsedBytes = BytesOf(v, cache)
        /\ cache \in [Slabs -> Classes \cup {NULL}]
    BY CountedIs DEF TypeOK
  <2>2. u \in [Slabs -> SUBSET Nat] /\ \A t \in Slabs : u[t] = IF t = s THEN Used(s) \ {i} ELSE v[t]
    BY <1>3, <2>1 DEF UsedOf
  <2>3. v[s] = Used(s) /\ v[s] \subseteq 0..(chunk_count_perslab(c) - 1)
    BY DEF UsedOf, Counted
  <2> HIDE DEF u, v
  <2>4. Cut(u, cache)
    <3>1. \A t \in Slabs : u[t] \subseteq v[t]
      BY <2>2, <2>3
    <3> QED BY <2>1, <3>1 DEF Cut
  <2>5. /\ i \notin u[s] /\ (u[s] # {} => cache[s] = c)
        /\ u[s] \subseteq 0..(chunk_count_perslab(c) - 1)
        /\ v[s] = u[s] \cup {i} /\ cache[s] = c
        /\ \A t \in Slabs \ {s} : v[t] = u[t] /\ cache[t] = cache[t]
    BY <2>2, <2>3
  <2>6. Cardinality(BytesOf(v, cache)) = Cardinality(BytesOf(u, cache)) + k
    <3> HIDE DEF c
    <3> QED BY <1>1, <2>1, <2>2, <2>4, <2>5, OneMore
  <2>7. UsedBytes' = BytesOf(UsedOf', cache')
    BY DEF UsedBytes, BytesOf, UsedOf, Extent, ChunkBytes
  <2>8. Cardinality(BytesOf(u, cache)) \in Nat /\ k \in Nat
    BY <1>1, <2>4, BytesWithin, Sizes
  <2>9. mem_used' = Cardinality(BytesOf(u, cache))
    <3> HIDE DEF k
    <3>1. mem_used = Cardinality(BytesOf(v, cache)) /\ mem_used' = mem_used - k
      BY <1>2, <2>1 DEF MemUsedTrue, k
    <3> QED BY <2>6, <2>8, <3>1
  <2> QED BY <1>2, <2>7, <2>9 DEF MemUsedTrue, u
<1>6. HeldOwned'
  <2> DEFINE Own(g, t, j) == /\ g.ptr = t * SLAB_SIZE + ChunkSizes[cache[t]] * j
                             /\ g.size \in 1..ChunkSizes[cache[t]]
  <2>1. ASSUME NEW g \in held'
        PROVE  \E t \in Slabs : \E j \in Used(t)' : Own(g, t, j)
    <3>1. g \in held /\ g.ptr # h.ptr
      OBVIOUS
    <3>2. PICK t \in Slabs : \E j \in Used(t) : Own(g, t, j)
      BY <3>1 DEF HeldOwned
    <3>3. PICK j \in Used(t) : Own(g, t, j)
      BY <3>2
    <3>4. j \in Used(t)'
      BY <1>3, <3>1, <3>3
    <3> QED BY <3>3, <3>4
  <2>2. \A f, g \in held' : f.ptr = g.ptr => f = g
    BY DEF HeldOwned
  <2> QED BY <1>2, <2>1, <2>2 DEF HeldOwned
<1> QED BY <1>4, <1>5, <1>6

\* Every slab is in the list its counter says after a free, too.
LEMMA ReleaseKeeps ==
  ASSUME IInv, NEW s \in Slabs, NEW i \in Used(s), FreeChunk(s, cache[s], i)
  PROVE  /\ SlabsListed'
         /\ slabs_free' \in Seq(Slabs)
         /\ slabs_partial' \in [Classes -> Seq(Slabs)] /\ slabs_full' \in [Classes -> Seq(Slabs)]
<1> DEFINE c == cache[s]
           n == chunk_count_perslab(c)
<1> USE DEF IInv
<1>1. /\ c \in Classes /\ n \in Nat /\ nused[s] \in Nat /\ nused[s] # 0 /\ nused[s] <= n
      /\ \A t \in Slabs : nused[t] \in Nat
  BY CountedIs, Sizes, BitsAssumption
<1>2. /\ Release(s, c) /\ cache' = cache
      /\ \A t \in Slabs : nused'[t] = IF t = s THEN nused[s] - 1 ELSE nused[t]
  BY DEF FreeChunk, TypeOK
<1>3. /\ ~Contains(slabs_free, s)
      /\ \A d \in Classes : /\ Contains(slabs_partial[d], s) <=> d = c /\ nused[s] # n
                            /\ Contains(slabs_full[d], s) <=> d = c /\ nused[s] = n
  <2>1. nused[s] # 0 /\ (nused[s] \in 1..(n - 1) <=> nused[s] # n)
    <3> HIDE DEF n
    <3> QED BY <1>1
  <2> QED BY <2>1 DEF SlabsListed, Listed
<1>4. /\ slabs_free \in Seq(Slabs) /\ IsInjective(slabs_free)
      /\ slabs_partial \in [Classes -> Seq(Slabs)] /\ slabs_full \in [Classes -> Seq(Slabs)]
      /\ \A d \in Classes : /\ slabs_partial[d] \in Seq(Slabs) /\ IsInjective(slabs_partial[d])
                            /\ slabs_full[d] \in Seq(Slabs) /\ IsInjective(slabs_full[d])
  BY DEF TypeOK, SlabsListed
<1>5. /\ Cons(s, slabs_free) \in Seq(Slabs) /\ IsInjective(Cons(s, slabs_free))
      /\ \A x : Contains(Cons(s, slabs_free), x) <=> x = s \/ Contains(slabs_free, x)
  BY <1>3, <1>4, ConsIn
<1>6. ASSUME nused[s] # n
      PROVE  /\ RemoveFirst(slabs_partial[c], s) \in Seq(Slabs)
             /\ IsInjective(RemoveFirst(slabs_partial[c], s))
             /\ \A x : Contains(RemoveFirst(slabs_partial[c], s), x) <=> x # s /\ Contains(slabs_partial[c], x)
  <2>1. Contains(slabs_partial[c], s)
    BY <1>1, <1>3, <1>6
  <2> HIDE DEF c
  <2> QED BY <1>1, <1>4, <2>1, RemoveIn
<1>7. ASSUME nused[s] = n
      PROVE  /\ RemoveFirst(slabs_full[c], s) \in Seq(Slabs)
             /\ IsInjective(RemoveFirst(slabs_full[c], s))
             /\ \A x : Contains(RemoveFirst(slabs_full[c], s), x) <=> x # s /\ Contains(slabs_full[c], x)
             /\ Cons(s, slabs_partial[c]) \in Seq(Slabs) /\ IsInjective(Cons(s, slabs_partial[c]))
             /\ \A x : Contains(Cons(s, slabs_partial[c]), x) <=> x = s \/ Contains(slabs_partial[c], x)
  <2>1. Contains(slabs_full[c], s) /\ ~Contains(slabs_partial[c], s)
    BY <1>1, <1>3, <1>7
  <2> HIDE DEF c
  <2> QED BY <1>1, <1>4, <2>1, RemoveIn, ConsIn
\* The list of the class that changes, whichever it is.
<1>8. PICK p, f :
        /\ slabs_partial' = [slabs_partial EXCEPT ![c] = p] /\ p \in Seq(Slabs) /\ IsInjective(p)
        /\ slabs_full' = [slabs_full EXCEPT ![c] = f] /\ f \in Seq(Slabs) /\ IsInjective(f)
        /\ \A x : x # s => /\ Contains(p, x) <=> Contains(slabs_partial[c], x)
                           /\ Contains(f, x) <=> Contains(slabs_full[c], x)
        /\ Contains(p, s) <=> nused[s] # 1
        /\ ~Contains(f, s)
        /\ slabs_free' = IF nused[s] = 1 THEN Cons(s, slabs_free) ELSE slabs_free
  <2>0. /\ slabs_partial = [slabs_partial EXCEPT ![c] = slabs_partial[c]]
        /\ slabs_full = [slabs_full EXCEPT ![c] = slabs_full[c]]
    BY <1>4
  <2>1. CASE nused[s] = 1 /\ n # 1
    <3>1. nused[s] - 1 = 0 /\ Contains(slabs_partial[c], s) /\ ~Contains(slabs_full[c], s)
      BY <1>1, <1>3, <2>1
    <3>2. /\ slabs_partial' = [slabs_partial EXCEPT ![c] = RemoveFirst(@, s)]
          /\ slabs_full' = slabs_full /\ slabs_free' = Cons(s, slabs_free)
      BY <1>2, <3>1 DEF Release
    <3> HIDE DEF c, n
    <3> QED BY <1>1, <1>4, <1>6, <2>0, <2>1, <3>1, <3>2
  <2>2. CASE nused[s] = 1 /\ n = 1
    <3>1. nused[s] - 1 = 0 /\ ~Contains(slabs_partial[c], s)
      BY <1>1, <1>3, <2>2
    <3>2. /\ slabs_full' = [slabs_full EXCEPT ![c] = RemoveFirst(@, s)]
          /\ slabs_partial' = slabs_partial /\ slabs_free' = Cons(s, slabs_free)
      BY <1>2, <3>1 DEF Release
    <3> HIDE DEF c, n
    <3> QED BY <1>1, <1>4, <1>7, <2>0, <2>2, <3>1, <3>2
  <2>3. CASE nused[s] # 1 /\ nused[s] = n
    <3>1. nused[s] - 1 # 0 /\ nused[s] - 1 = n - 1
      BY <1>1, <2>3
    <3>2. /\ slabs_full' = [slabs_full EXCEPT ![c] = RemoveFirst(@, s)]
          /\ slabs_partial' = [slabs_partial EXCEPT ![c] = Cons(s, @)] /\ slabs_free' = slabs_free
      <4> HIDE DEF c
      <4> QED BY <1>2, <3>1 DEF Release
    <3> HIDE DEF c, n
    <3> QED BY <1>1, <1>4, <1>7, <2>3, <3>2
  <2>4. CASE nused[s] # 1 /\ nused[s] # n
    <3>1. nused[s] - 1 # 0 /\ nused[s] - 1 # n - 1
      BY <1>1, <2>4
    <3>2. slabs_full' = slabs_full /\ slabs_partial' = slabs_partial /\ slabs_free' = slabs_free
      BY <1>2, <3>1 DEF Release, lists
    <3>3. Contains(slabs_partial[c], s) /\ ~Contains(slabs_full[c], s)
      BY <1>1, <1>3, <2>4
    <3> HIDE DEF c, n
    <3> QED BY <1>1, <1>4, <2>0, <2>4, <3>2, <3>3
  <2> QED BY <2>1, <2>2, <2>3, <2>4
<1>9. \A d \in Classes : /\ slabs_partial'[d] = IF d = c THEN p ELSE slabs_partial[d]
                         /\ slabs_full'[d] = IF d = c THEN f ELSE slabs_full[d]
  BY <1>4, <1>8
<1>10. IsInjective(slabs_free') /\ slabs_free' \in Seq(Slabs)
  BY <1>4, <1>5, <1>8
<1>11. ASSUME NEW t \in Slabs PROVE Listed(t)'
  <2>1. CASE t # s
    <3>1. /\ Contains(slabs_free', t) <=> Contains(slabs_free, t)
          /\ \A d \in Classes : /\ Contains(slabs_partial'[d], t) <=> Contains(slabs_partial[d], t)
                                /\ Contains(slabs_full'[d], t) <=> Contains(slabs_full[d], t)
      BY <1>5, <1>8, <1>9, <2>1
    <3> QED BY <1>2, <2>1, <3>1 DEF SlabsListed, Listed
  <2>2. CASE t = s
    <3>1. /\ nused'[s] = nused[s] - 1 /\ nused'[s] # n
          /\ nused'[s] = 0 <=> nused[s] = 1
          /\ nused'[s] \in 1..(n - 1) <=> nused[s] # 1
      <4> HIDE DEF n
      <4> QED BY <1>1, <1>2
    <3>2. /\ Contains(slabs_free', s) <=> nused[s] = 1
          /\ \A d \in Classes : /\ Contains(slabs_partial'[d], s) <=> d = c /\ nused[s] # 1
                                /\ ~Contains(slabs_full'[d], s)
      BY <1>3, <1>5, <1>8, <1>9
    <3> HIDE DEF n
    <3> QED BY <1>2, <2>2, <3>1, <3>2 DEF Listed, n
  <2> QED BY <2>1, <2>2
<1>12. SlabsListed'
  BY <1>4, <1>8, <1>9, <1>10, <1>11 DEF SlabsListed
<1> QED BY <1>4, <1>8, <1>10, <1>12

\* Freeing what was given keeps the invariant.
LEMMA FreedKeeps ==
  ASSUME IInv, Fits, NEW h \in held, scfree(h.ptr)
  PROVE  IInv'
<1>1. PICK s \in Slabs : \E i \in Used(s) :
        /\ h.ptr = s * SLAB_SIZE + ChunkSizes[cache[s]] * i
        /\ FreeChunk(s, cache[s], i)
        /\ held' = {g \in held : g.ptr # h.ptr}
  BY FreeFinds
<1>2. PICK i \in Used(s) : /\ h.ptr = s * SLAB_SIZE + ChunkSizes[cache[s]] * i
                           /\ FreeChunk(s, cache[s], i)
                           /\ held' = {g \in held : g.ptr # h.ptr}
  BY <1>1
<1>3. Counted' /\ MemUsedTrue' /\ HeldOwned'
  BY <1>2, FreeChunkKeeps
<1>4. /\ SlabsListed' /\ slabs_free' \in Seq(Slabs)
      /\ slabs_partial' \in [Classes -> Seq(Slabs)] /\ slabs_full' \in [Classes -> Seq(Slabs)]
  BY <1>2, ReleaseKeeps
<1>5. TypeOK'
  <2>1. i \in 0..(BITS - 1) /\ cache[s] \in Classes
    BY CountedIs DEF Used, IInv
  <2>2. ChunkSizes[cache[s]] \in Int
    BY <2>1, Sizes
  <2>3. TypeOK
    BY DEF IInv
  <2>4. /\ slots' = [slots EXCEPT ![s] = @ \cup {i}] /\ nused' = [nused EXCEPT ![s] = @ - 1]
        /\ mem_used' = mem_used - ChunkSizes[cache[s]] /\ cache' = cache /\ status' = status
    BY <1>2 DEF FreeChunk
  <2>5. slots' \in [Slabs -> SUBSET (0..(BITS - 1))]
    BY <2>1, <2>3, <2>4 DEF TypeOK
  <2>6. nused' \in [Slabs -> Int] /\ mem_used' \in Int
    BY <2>2, <2>3, <2>4 DEF TypeOK
  <2> QED BY <1>2, <1>4, <2>3, <2>4, <2>5, <2>6 DEF TypeOK
<1>6. NeverDies'
  BY <1>2 DEF IInv, NeverDies, Running, FreeChunk
<1> QED BY <1>3, <1>4, <1>5, <1>6 DEF IInv

LEMMA StepKeeps == IInv /\ Fits /\ [Next]_vars => IInv'
<1> SUFFICES ASSUME IInv, Fits, [Next]_vars PROVE IInv'
  OBVIOUS
<1>1. CASE Next
  BY <1>1, MallocKeeps, FreedKeeps DEF Next
<1>2. CASE UNCHANGED vars
  <2> USE <1>2 DEF vars, lists, IInv
  <2>1. TypeOK' /\ NeverDies'
    BY DEF TypeOK, NeverDies, Running
  <2>2. Counted'
    BY DEF Counted, Used
  <2>3. SlabsListed'
    BY DEF SlabsListed, Listed
  <2>4. MemUsedTrue'
    BY DEF MemUsedTrue, UsedBytes, Extent, Used
  <2>5. HeldOwned'
    BY DEF HeldOwned, Used
  <2> QED BY <2>1, <2>2, <2>3, <2>4, <2>5
<1> QED BY <1>1, <1>2

\* Chunks lie apart, so what is given out does.
LEMMA Disjointness == IInv => HeldDisjoint
<1> SUFFICES ASSUME IInv PROVE HeldDisjoint
  OBVIOUS
<1> USE DEF IInv
<1> DEFINE Own(h, t, d, j) == /\ h.ptr = t * SLAB_SIZE + ChunkSizes[d] * j
                              /\ h.size \in 1..ChunkSizes[d]
                              /\ d \in Classes /\ j \in 0..(chunk_count_perslab(d) - 1)
<1>1. ASSUME NEW h \in held
      PROVE  \E t \in Slabs : \E j \in Used(t) : Own(h, t, cache[t], j)
  <2>1. PICK t \in Slabs : \E j \in Used(t) : /\ h.ptr = t * SLAB_SIZE + ChunkSizes[cache[t]] * j
                                              /\ h.size \in 1..ChunkSizes[cache[t]]
    BY DEF HeldOwned
  <2>2. PICK j \in Used(t) : /\ h.ptr = t * SLAB_SIZE + ChunkSizes[cache[t]] * j
                             /\ h.size \in 1..ChunkSizes[cache[t]]
    BY <2>1
  <2>3. cache[t] \in Classes /\ j \in 0..(chunk_count_perslab(cache[t]) - 1)
    BY CountedIs DEF Counted
  <2> QED BY <2>2, <2>3
<1>2. ASSUME NEW h \in held PROVE h.ptr + h.size <= slabctl_count * SLAB_SIZE
  <2>1. PICK t \in Slabs : \E j \in Used(t) : Own(h, t, cache[t], j)
    BY <1>1
  <2>2. PICK j \in Used(t) : Own(h, t, cache[t], j)
    BY <2>1
  <2> DEFINE k == ChunkSizes[cache[t]]
             N == slabctl_count * SLAB_SIZE
  <2>3. h.ptr \in Nat /\ k \in Nat /\ h.ptr + k <= N
    BY <2>2, AddressWithin
  <2>4. h.size \in 1..k /\ N \in Nat
    BY <2>2, Sizes
  <2> HIDE DEF k, N
  <2>5. h.ptr + h.size <= N
    BY <2>3, <2>4
  <2> QED BY <2>5 DEF N
<1>3. ASSUME NEW g \in held, NEW h \in held, g # h PROVE Bytes(g) \cap Bytes(h) = {}
  <2>1. PICK s \in Slabs : \E i \in Used(s) : Own(g, s, cache[s], i)
    BY <1>1
  <2>2. PICK i \in Used(s) : Own(g, s, cache[s], i)
    BY <2>1
  <2>3. PICK t \in Slabs : \E j \in Used(t) : Own(h, t, cache[t], j)
    BY <1>1
  <2>4. PICK j \in Used(t) : Own(h, t, cache[t], j)
    BY <2>3
  <2>5. g.ptr # h.ptr
    BY <1>3 DEF HeldOwned
  <2>6. s # t \/ (cache[s] = cache[t] /\ i # j)
    BY <2>2, <2>4, <2>5
  <2> DEFINE k == ChunkSizes[cache[s]]
             l == ChunkSizes[cache[t]]
  <2>7. g.ptr + k <= h.ptr \/ h.ptr + l <= g.ptr
    BY <2>2, <2>4, <2>6, ChunksApart
  <2>8. g.ptr \in Nat /\ k \in Nat /\ h.ptr \in Nat /\ l \in Nat /\ g.size \in 1..k /\ h.size \in 1..l
    BY <2>2, <2>4, AddressWithin
  <2> HIDE DEF k, l
  <2> QED BY <2>7, <2>8 DEF Bytes
<1> QED BY <1>2, <1>3 DEF HeldDisjoint

\* For any number of slabs, table of size classes, word width the slabs fit in and order of
\* requests, slab.c keeps its counters and bit sets in step, every slab in the one list its
\* counter says, mem_used at the bytes in use, and every pointer at a chunk of its own.
THEOREM AllocatorInvariant == ASSUME Fits PROVE Spec => []IInv
<1>1. Init => IInv
  BY InitOK
<1>2. IInv /\ [Next]_vars => IInv'
  BY StepKeeps
<1> QED BY <1>1, <1>2, PTL DEF Spec

\* No two callers are ever given the same byte, nor a byte beyond the slabs, and none of the
\* assertions of scmalloc and scfree fails for a program that frees what it was given, once.
THEOREM AllocatorSound ==
  ASSUME Fits
  PROVE  Spec => [](TypeOK /\ Counted /\ SlabsListed /\ MemUsedTrue /\ HeldDisjoint /\ NeverDies)
<1>1. IInv => TypeOK /\ Counted /\ SlabsListed /\ MemUsedTrue /\ HeldDisjoint /\ NeverDies
  BY Disjointness DEF IInv
<1> QED BY <1>1, AllocatorInvariant, PTL
-----------------------------------------------------------------------------
(* The pool                                                                *)

\* A slab that serves class c has all its chunks in use only when its counter says so.
LEMMA FullIs ==
  ASSUME IInv, NEW s \in Slabs, nused[s] # 0,
         Used(s) # 0..(chunk_count_perslab(cache[s]) - 1)
  PROVE  cache[s] \in Classes /\ Contains(slabs_partial[cache[s]], s)
<1> DEFINE n == chunk_count_perslab(cache[s])
<1> USE DEF IInv
<1>1. /\ Used(s) # {} /\ cache[s] \in Classes /\ nused[s] \in Nat /\ nused[s] <= n /\ n \in Nat /\ n >= 1
      /\ Used(s) \subseteq 0..(n - 1) /\ nused[s] = Cardinality(Used(s))
  <2>1. /\ Used(s) # {} /\ cache[s] \in Classes /\ nused[s] \in Nat /\ nused[s] <= n
    BY CountedIs
  <2>2. n \in 1..BITS
    BY <2>1, Sizes
  <2>3. n \in Nat /\ n >= 1
    <3> HIDE DEF n
    <3> QED BY <2>2, BitsAssumption
  <2>4. Used(s) \subseteq 0..(n - 1) /\ nused[s] = Cardinality(Used(s))
    BY <2>1 DEF Counted
  <2> QED BY <2>1, <2>3, <2>4
<1>2. IsFiniteSet(0..(n - 1)) /\ Cardinality(0..(n - 1)) = n
  <2> DEFINE m == n - 1
  <2>1. m \in Int /\ 0 <= m /\ m + 1 = n
    BY <1>1
  <2> HIDE DEF m
  <2>2. IsFiniteSet(0..m) /\ Cardinality(0..m) = m + 1
    BY <2>1, FS_Interval
  <2> QED BY <2>1, <2>2 DEF m
<1>3. nused[s] # n
  <2>1. Used(s) # 0..(n - 1)
    OBVIOUS
  <2> HIDE DEF n
  <2> QED BY <1>1, <1>2, <2>1, FS_Subset
<1>4. nused[s] \in 1..(n - 1)
  <2> HIDE DEF n
  <2> QED BY <1>1, <1>3
<1> QED BY <1>1, <1>4 DEF SlabsListed, Listed

\* The slab's owner as the pool sees it.
OwnerOf == [s \in Slabs |-> IF nused[s] = 0 THEN NULL ELSE cache[s]]

LEMMA PoolInit == Init => Pool!PInit
<1> SUFFICES ASSUME Init PROVE Pool!PInit
  OBVIOUS
<1>1. BITS \in Nat
  BY BitsAssumption
<1>2. \A s \in Slabs : Used(s) = {} /\ nused[s] = 0
  BY <1>1 DEF Init, Used
<1> QED BY <1>2 DEF Pool!PInit

\* A chunk of a partial slab is one of a slab the class owns.
LEMMA PoolPartial ==
  ASSUME IInv, Fits, NEW c \in Classes, NEW size, scmalloc_partial(c, size)
  PROVE  Pool!TakeOwned(c)
<1> DEFINE s == Head(slabs_partial[c])
           i == ff_setbit(s)
<1> USE DEF IInv
<1>1. /\ s \in Slabs /\ cache[s] = c /\ nused[s] \in 1..(chunk_count_perslab(c) - 1)
      /\ Carve(s, c, slabs_partial[c], size)
  BY PartialServes
<1>2. /\ slots' = [slots EXCEPT ![s] = @ \ {i}] /\ nused' = [nused EXCEPT ![s] = @ + 1]
      /\ cache' = [cache EXCEPT ![s] = c]
  BY <1>1 DEF Carve
<1>3. i \in slots[s] /\ i \in 0..(chunk_count_perslab(c) - 1) /\ i \in 0..(BITS - 1)
  <2>1. nused[s] < chunk_count_perslab(c)
    BY <1>1, Sizes
  <2> QED BY <1>1, <2>1, FreeBit DEF TypeOK
<1> HIDE DEF s, i
<1>4. UsedOf' = [UsedOf EXCEPT ![s] = @ \cup {i}]
  BY <1>1, <1>2, <1>3 DEF UsedOf, Used, TypeOK
<1>5. OwnerOf' = OwnerOf /\ OwnerOf[s] = c
  <2>1. nused[s] # 0 /\ nused[s] + 1 # 0
    BY <1>1
  <2>2. \A t \in Slabs : cache'[t] = cache[t] /\ nused'[t] = IF t = s THEN nused[s] + 1 ELSE nused[t]
    BY <1>1, <1>2 DEF TypeOK
  <2> QED BY <1>1, <2>1, <2>2 DEF OwnerOf
<1>6. i \notin UsedOf[s]
  BY <1>1, <1>3 DEF UsedOf, Used
<1>7. s \in Pool!HasRoom(c) /\ i \in Pool!Place(s) \ UsedOf[s]
  BY <1>1, <1>3, <1>5, <1>6 DEF Pool!HasRoom, Pool!Place, OwnerOf, UsedOf
<1> QED BY <1>4, <1>5, <1>7 DEF Pool!TakeOwned, OwnerOf, UsedOf

\* A free slab is taken only when every slab the class owns is full.
LEMMA PoolFree ==
  ASSUME IInv, Fits, NEW c \in Classes, NEW size, scmalloc_free(c, size)
  PROVE  Pool!TakeNew(c)
<1> DEFINE s == Head(slabs_free)
           i == ff_setbit(s)
<1> USE DEF IInv
<1>1. /\ slabs_partial[c] = <<>> /\ s \in Slabs /\ nused[s] = 0 /\ Carve(s, c, <<s>>, size)
  BY FreeServes
<1>2. /\ slots' = [slots EXCEPT ![s] = @ \ {i}] /\ nused' = [nused EXCEPT ![s] = @ + 1]
      /\ cache' = [cache EXCEPT ![s] = c]
  BY <1>1 DEF Carve
<1>3. i \in slots[s] /\ i \in 0..(chunk_count_perslab(c) - 1) /\ i \in 0..(BITS - 1)
  <2>1. nused[s] < chunk_count_perslab(c)
    BY <1>1, Sizes
  <2> QED BY <1>1, <2>1, FreeBit DEF TypeOK
<1> HIDE DEF s, i
<1>4. UsedOf' = [UsedOf EXCEPT ![s] = {i}]
  <2>1. Used(s) = {}
    BY <1>1, CountedIs
  <2>2. slots' = [t \in Slabs |-> IF t = s THEN slots[s] \ {i} ELSE slots[t]]
    BY <1>1, <1>2 DEF TypeOK
  <2>3. UsedOf'[s] = {i}
    BY <1>1, <1>3, <2>1, <2>2 DEF UsedOf, Used
  <2>4. \A t \in Slabs : t # s => UsedOf'[t] = UsedOf[t]
    BY <2>2 DEF UsedOf, Used
  <2>5. DOMAIN UsedOf = Slabs /\ UsedOf' = [t \in Slabs |-> UsedOf'[t]]
    BY DEF UsedOf
  <2> QED BY <2>3, <2>4, <2>5
<1>5. OwnerOf' = [OwnerOf EXCEPT ![s] = c] /\ OwnerOf[s] = NULL
  <2>1. \A t \in Slabs : /\ cache'[t] = IF t = s THEN c ELSE cache[t]
                         /\ nused'[t] = IF t = s THEN 1 ELSE nused[t]
    BY <1>1, <1>2 DEF TypeOK
  <2>2. \A t \in Slabs : OwnerOf'[t] = IF t = s THEN c ELSE OwnerOf[t]
    BY <2>1 DEF OwnerOf
  <2>3. OwnerOf[s] = NULL
    BY <1>1 DEF OwnerOf
  <2>4. OwnerOf' = [t \in Slabs |-> OwnerOf'[t]] /\ OwnerOf = [t \in Slabs |-> OwnerOf[t]]
    BY DEF OwnerOf
  <2> QED BY <1>1, <2>2, <2>3, <2>4
<1>6. Pool!HasRoom(c) = {}
  <2> SUFFICES ASSUME NEW t \in Slabs, OwnerOf[t] = c, UsedOf[t] # 0..(chunk_count_perslab(OwnerOf[t]) - 1)
               PROVE  FALSE
    BY DEF Pool!HasRoom, Pool!Place, OwnerOf, UsedOf
  <2>1. nused[t] # 0 /\ cache[t] = c
    BY NullAssumption DEF OwnerOf
  <2>2. Contains(slabs_partial[c], t)
    BY <2>1, FullIs DEF OwnerOf, UsedOf
  <2> QED BY <1>1, <2>2 DEF Contains
<1>7. s \in Pool!Unowned
  BY <1>1 DEF Pool!Unowned
<1> QED BY <1>3, <1>4, <1>5, <1>6, <1>7 DEF Pool!TakeNew, OwnerOf, UsedOf

\* A slab goes back to the pool with its last chunk.
LEMMA PoolReturn ==
  ASSUME IInv, Fits, NEW h \in held, scfree(h.ptr)
  PROVE  \E s \in Slabs : \E i \in UsedOf[s] : Pool!Return(s, i)
<1> USE DEF IInv
<1>1. PICK s \in Slabs : \E i \in Used(s) : FreeChunk(s, cache[s], i)
  BY FreeFinds
<1>2. PICK i \in Used(s) : FreeChunk(s, cache[s], i)
  BY <1>1
<1>3. /\ slots' = [slots EXCEPT ![s] = @ \cup {i}] /\ nused' = [nused EXCEPT ![s] = @ - 1]
      /\ cache' = cache
  BY <1>2 DEF FreeChunk
<1>4. i \in UsedOf[s] /\ UsedOf' = [UsedOf EXCEPT ![s] = @ \ {i}]
  BY <1>3 DEF UsedOf, Used, TypeOK
<1>5. IsFiniteSet(Used(s)) /\ nused[s] = Cardinality(Used(s)) /\ nused[s] \in Nat /\ nused[s] # 0
  BY CountedIs DEF Counted
<1>6. nused[s] = 1 <=> Used(s) = {i}
  BY <1>5, FS_Singleton
<1>7. OwnerOf' = [OwnerOf EXCEPT ![s] = IF UsedOf[s] = {i} THEN NULL ELSE @]
  <2>1. \A t \in Slabs : nused'[t] = IF t = s THEN nused[s] - 1 ELSE nused[t]
    BY <1>3 DEF TypeOK
  <2>2. nused[s] - 1 = 0 <=> UsedOf[s] = {i}
    BY <1>5, <1>6 DEF UsedOf
  <2> QED BY <1>3, <1>5, <2>1, <2>2 DEF OwnerOf
<1> QED BY <1>4, <1>7 DEF Pool!Return, OwnerOf, UsedOf

\* The lists, bits and counters of slab.c implement the pool: a slab is taken from the free
\* ones only when every slab of its class is full, and goes back with its last chunk.
THEOREM AllocatorRefinesPool == ASSUME Fits PROVE Spec => RefinesPool
<1>1. Init => Pool!PInit
  BY PoolInit
<1>2. IInv /\ [Next]_vars => [Pool!PNext]_(Pool!pvars)
  <2> SUFFICES ASSUME IInv, [Next]_vars PROVE [Pool!PNext]_(Pool!pvars)
    OBVIOUS
  <2>1. ASSUME NEW size \in Asked, scmalloc(size) PROVE Pool!PNext
    <3>1. size \in Nat /\ size <= largest_chunk_size
      BY <2>1, AskedAssumption DEF scmalloc
    <3>2. PICK c \in Classes : scmalloc_partial(c, size) \/ scmalloc_free(c, size)
      BY <2>1, <3>1, ClassFits DEF scmalloc
    <3> QED BY <3>2, PoolPartial, PoolFree DEF Pool!PNext
  <2>2. ASSUME NEW h \in held, scfree(h.ptr) PROVE Pool!PNext
    BY <2>2, PoolReturn DEF Pool!PNext, UsedOf
  <2>3. CASE UNCHANGED vars
    BY <2>3 DEF vars, Pool!pvars, Used
  <2> QED BY <2>1, <2>2, <2>3 DEF Next
<1> QED BY <1>1, <1>2, AllocatorInvariant, PTL DEF Spec, RefinesPool, Pool!PSpec
-----------------------------------------------------------------------------
(* mem.c and the startup                                                   *)

\* The sizes of the blocks are within the limit, whatever the product of slabs and slab
\* size comes to in an unsigned int.
LEMMA BlocksFit ==
  ASSUME mem_avail \in Limits
  PROVE  /\ {HEAD, MANAGER, CACHE, CTL, SLAB_SIZE, CachesSize, Before, mem_avail} \subseteq Nat
         /\ Before = MANAGER + CachesSize + 2 * HEAD
         /\ Before + 2 * HEAD <= mem_avail
         /\ slab_count \in Nat /\ CTL * slab_count \in Nat
         /\ (SLAB_SIZE * slab_count) % WIDTH \in Nat
         /\ Before + CTL * slab_count + 2 * HEAD + ((SLAB_SIZE * slab_count) % WIDTH) <= mem_avail
<1> DEFINE q == slab_count
           r == SLAB_SIZE * q
           x == mem_avail - Before - 2 * HEAD
<1>1. HEAD \in Nat /\ MANAGER \in Nat /\ CACHE \in Nat /\ CTL \in Nat /\ CTL > 0
  BY BlocksAssumption
<1>2. SLAB_SIZE \in Nat /\ WIDTH \in Nat /\ WIDTH > 0 /\ Len(ChunkSizes) \in Nat
  BY SizesAssumption
<1>3. CachesSize \in Nat
  BY <1>1, <1>2 DEF CachesSize
<1>4. Before \in Nat /\ Before = MANAGER + CachesSize + 2 * HEAD
  BY <1>1, <1>3 DEF Before
<1>5. mem_avail \in Nat /\ mem_avail >= Before + 2 * HEAD
  BY LimitsAssumption
<1>6. x \in Nat
  BY <1>1, <1>4, <1>5
<1>7. q = x \div (SLAB_SIZE + CTL)
  BY DEF slab_count, SlabCount
<1> HIDE DEF x, q
<1>8. q \in Nat /\ (SLAB_SIZE + CTL) * q <= x
  BY <1>1, <1>2, <1>6, <1>7
<1>9. r \in Nat /\ CTL * q \in Nat /\ r + CTL * q <= x
  BY <1>1, <1>2, <1>6, <1>8
<1> HIDE DEF r
<1>10. r % WIDTH \in Nat /\ r % WIDTH <= r
  BY <1>2, <1>9
<1>11. Before + CTL * q + 2 * HEAD + (r % WIDTH) <= mem_avail
  <2> DEFINE y == CTL * q
             z == r % WIDTH
  <2> HIDE DEF y, z
  <2>1. y \in Nat /\ z \in Nat /\ r \in Nat /\ z <= r /\ r + y <= x /\ x = mem_avail - Before - 2 * HEAD
    BY <1>9, <1>10 DEF y, z, x
  <2>2. Before + y + 2 * HEAD + z <= mem_avail
    BY <1>1, <1>4, <1>5, <2>1
  <2> QED BY <2>2 DEF y, z
<1> QED BY <1>1, <1>2, <1>3, <1>4, <1>5, <1>8, <1>9, <1>10, <1>11 DEF q, r

LEMMA MInitOK == MInit => MInv
<1> SUFFICES ASSUME MInit PROVE MInv
  OBVIOUS
<1> USE DEF MInit
<1>1. mem_avail \in Limits /\ mem_avail \in Nat
  BY BlocksFit
<1>2. /\ blocks \in [{"cm", "caches", "slab_ctls", "slabs"} -> Nat]
      /\ blocks.cm = 0 /\ blocks.caches = 0 /\ blocks.slab_ctls = 0 /\ blocks.slabs = 0
  OBVIOUS
<1>3. SysBytes = {} /\ given \in [Asked -> Nat]
  <2>1. \A size \in Asked : size * given[size] = 0
    BY AskedAssumption
  <2>2. \A size \in Asked : {size} \X (1..(size * given[size])) = {}
    BY <2>1
  <2> QED BY <2>2 DEF SysBytes
<1>4. IsFiniteSet(SysBytes) /\ Cardinality(SysBytes) = 0
  BY <1>3, FS_EmptySet
<1>5. StartupAccounted
  BY <1>1, <1>2 DEF StartupAccounted, SumOfBlocks
<1>6. mem_used = 0
  BY DEF Init
<1> QED BY <1>1, <1>2, <1>3, <1>4, <1>5, <1>6 DEF MInv

\* A block more.
LEMMA BlockTaken ==
  ASSUME MInv, NEW b \in {"cm", "caches", "slab_ctls", "slabs"}, blocks[b] = 0, NEW size \in Nat,
         NEW then, malloci(b, size, then)
  PROVE  /\ blocks' \in [{"cm", "caches", "slab_ctls", "slabs"} -> Nat]
         /\ \A a \in {"cm", "caches", "slab_ctls", "slabs"} \ {b} : blocks'[a] = blocks[a]
         /\ mallocd' = SumOfBlocks' /\ mallocd' = mallocd + size + HEAD
         /\ mode' = then /\ UNCHANGED <<mem_avail, sys_used, given, vars>>
<1>1. HEAD \in Nat /\ mallocd = SumOfBlocks /\ blocks \in [{"cm", "caches", "slab_ctls", "slabs"} -> Nat]
  BY BlocksAssumption DEF MInv, StartupAccounted
<1>2. /\ blocks' = [blocks EXCEPT ![b] = size + HEAD] /\ mallocd' = mallocd + size + HEAD
      /\ mode' = then /\ UNCHANGED <<mem_avail, sys_used, given, vars>>
  BY DEF malloci, sys
<1>3. \A a \in {"cm", "caches", "slab_ctls", "slabs"} :
        blocks'[a] = IF a = b THEN size + HEAD ELSE blocks[a]
  BY <1>1, <1>2
<1>4. blocks' \in [{"cm", "caches", "slab_ctls", "slabs"} -> Nat]
  BY <1>1, <1>2
<1>5. mallocd' = SumOfBlocks'
  BY <1>1, <1>2, <1>3 DEF SumOfBlocks
<1> QED BY <1>2, <1>3, <1>4, <1>5

\* The allocator is given up: the count of the blocks comes out even.
LEMMA GivenUp ==
  ASSUME MInv, deinit_cache_manager, mode \in {"cm", "caches", "slab_ctls", "slabs"}
  PROVE  MInv' /\ UNCHANGED vars
<1>1. mallocd = SumOfBlocks /\ mallocd \in Nat /\ Freed = SumOfBlocks
  <2>1. mallocd = SumOfBlocks
    BY DEF MInv, StartupAccounted
  <2>2. SumOfBlocks \in Nat
    BY DEF MInv, SumOfBlocks
  <2> QED BY <2>1, <2>2 DEF Freed
<1>2. /\ blocks' = [b \in DOMAIN blocks |-> 0] /\ mallocd' = 0 /\ mode' = "sys"
      /\ UNCHANGED <<mem_avail, sys_used, given, vars>>
  BY <1>1 DEF deinit_cache_manager, sys
<1>3. blocks' = [b \in {"cm", "caches", "slab_ctls", "slabs"} |-> 0]
  BY <1>2 DEF MInv
<1>4. SumOfBlocks' = 0
  BY <1>3 DEF SumOfBlocks
<1>5. StartupAccounted'
  <2>1. mem_avail \in Nat
    BY BlocksFit DEF MInv
  <2> QED BY <1>2, <1>4, <2>1 DEF StartupAccounted
<1>6. mem_used' = 0
  BY <1>2 DEF MInv, vars
<1>7. SysBytes' = SysBytes
  BY <1>2 DEF SysBytes
<1>8. blocks' \in [{"cm", "caches", "slab_ctls", "slabs"} -> Nat]
  BY <1>3
<1> QED BY <1>2, <1>5, <1>6, <1>7, <1>8 DEF MInv

\* A block of malloc more, or less, is its size more or less bytes.
GivenBytes(g) == UNION {{size} \X (1..(size * g[size])) : size \in Asked}

LEMMA OneGiven ==
  ASSUME NEW f \in [Asked -> Nat], NEW g \in [Asked -> Nat], NEW size \in Asked,
         g[size] = f[size] + 1, \A t \in Asked \ {size} : g[t] = f[t]
  PROVE  /\ IsFiniteSet(GivenBytes(f)) <=> IsFiniteSet(GivenBytes(g))
         /\ IsFiniteSet(GivenBytes(f)) => Cardinality(GivenBytes(g)) = Cardinality(GivenBytes(f)) + size
<1> DEFINE a == size * f[size]
           E == {size} \X ((a + 1)..(a + size))
<1>1. size \in Nat /\ size > 0 /\ f[size] \in Nat /\ a \in Nat /\ size * g[size] = a + size
  BY AskedAssumption
<1> HIDE DEF a
<1>2. IsFiniteSet(E) /\ Cardinality(E) = size
  <2>1. IsFiniteSet({size}) /\ Cardinality({size}) = 1
    BY FS_Singleton
  <2>2. IsFiniteSet((a + 1)..(a + size)) /\ Cardinality((a + 1)..(a + size)) = size
    BY <1>1, FS_Interval
  <2>3. IsFiniteSet(E) /\ Cardinality(E) = Cardinality({size}) * Cardinality((a + 1)..(a + size))
    BY <2>1, <2>2, FS_Product
  <2> HIDE DEF E
  <2> QED BY <1>1, <2>1, <2>2, <2>3
<1>3. ASSUME NEW t \in Asked
      PROVE  {t} \X (1..(t * g[t])) = IF t = size THEN ({t} \X (1..(t * f[t]))) \cup E ELSE {t} \X (1..(t * f[t]))
  <2>1. CASE t # size
    <3>1. g[t] = f[t]
      BY <2>1
    <3> QED BY <2>1, <3>1
  <2>2. CASE t = size
    <3>1. 1..(a + size) = (1..a) \cup ((a + 1)..(a + size))
      BY <1>1
    <3> QED BY <1>1, <2>2, <3>1 DEF a
  <2> QED BY <2>1, <2>2
<1>4. GivenBytes(g) = GivenBytes(f) \cup E
  <2> HIDE DEF E
  <2>1. ASSUME NEW x \in GivenBytes(g) PROVE x \in GivenBytes(f) \cup E
    <3>1. PICK t \in Asked : x \in {t} \X (1..(t * g[t]))
      BY DEF GivenBytes
    <3>2. x \in {t} \X (1..(t * f[t])) \/ x \in E
      BY <1>3, <3>1
    <3> QED BY <3>2 DEF GivenBytes
  <2>2. ASSUME NEW x \in GivenBytes(f) PROVE x \in GivenBytes(g)
    <3>1. PICK t \in Asked : x \in {t} \X (1..(t * f[t]))
      BY DEF GivenBytes
    <3>2. x \in {t} \X (1..(t * g[t]))
      BY <1>3, <3>1
    <3> QED BY <3>2 DEF GivenBytes
  <2>3. ASSUME NEW x \in E PROVE x \in GivenBytes(g)
    <3>1. x \in {size} \X (1..(size * g[size]))
      BY <1>3
    <3> QED BY <3>1 DEF GivenBytes
  <2> QED BY <2>1, <2>2, <2>3
<1>5. GivenBytes(f) \cap E = {}
  <2> SUFFICES ASSUME NEW x \in GivenBytes(f), x \in E PROVE FALSE
    OBVIOUS
  <2>1. PICK t \in Asked : x \in {t} \X (1..(t * f[t]))
    BY DEF GivenBytes
  <2>2. t = size /\ x[2] \in 1..a /\ x[2] \in (a + 1)..(a + size)
    BY <2>1 DEF a
  <2> QED BY <1>1, <2>2
<1> HIDE DEF E
<1>6. ASSUME IsFiniteSet(GivenBytes(g)) PROVE IsFiniteSet(GivenBytes(f))
  BY <1>4, <1>6, FS_Subset
<1>7. ASSUME IsFiniteSet(GivenBytes(f))
      PROVE  IsFiniteSet(GivenBytes(g)) /\ Cardinality(GivenBytes(g)) = Cardinality(GivenBytes(f)) + size
  <2>1. IsFiniteSet(GivenBytes(f) \cup E)
    BY <1>2, <1>7, FS_Union
  <2>2. Cardinality(GivenBytes(f) \cup E) = Cardinality(GivenBytes(f)) + Cardinality(E)
    BY <1>2, <1>5, <1>7, Disjoint
  <2> QED BY <1>2, <1>4, <2>1, <2>2
<1> QED BY <1>6, <1>7

\* malloc instead of the slabs.
LEMMA SysKeeps ==
  ASSUME MInv, mode = "sys", NEW size \in Asked, SysMalloc(size) \/ SysFree
  PROVE  MInv' /\ UNCHANGED vars
<1>1. UNCHANGED <<mem_avail, blocks, mallocd, vars>>
  BY DEF SysMalloc, SysFree, startup
<1>2. mem_avail \in Nat /\ sys_used \in Nat /\ given \in [Asked -> Nat] /\ SysBytes = GivenBytes(given)
  BY BlocksFit, FS_CardinalityType DEF MInv, SysBytes, GivenBytes
<1>3. SysBytes' = GivenBytes(given')
  BY DEF SysBytes, GivenBytes
<1>4. /\ mode' \in {"sys", "dead"} /\ given' \in [Asked -> Nat] /\ IsFiniteSet(SysBytes')
      /\ sys_used' = Cardinality(SysBytes') /\ sys_used' <= mem_avail
  <2> DEFINE Good == /\ mode' \in {"sys", "dead"} /\ given' \in [Asked -> Nat] /\ IsFiniteSet(SysBytes')
                     /\ sys_used' = Cardinality(SysBytes') /\ sys_used' <= mem_avail
  <2>1. ASSUME mode' = "dead", UNCHANGED sys PROVE Good
    BY <1>2, <1>3, <2>1 DEF MInv, sys
  <2>2. ASSUME SysFits(size), sys_used' = sys_used + size, given' = [given EXCEPT ![size] = @ + 1],
               UNCHANGED mode
        PROVE  Good
    <3>1. size \in Nat /\ given' \in [Asked -> Nat] /\ given'[size] = given[size] + 1
          /\ \A t \in Asked \ {size} : given'[t] = given[t]
      BY <1>2, <2>2, AskedAssumption
    <3>2. IsFiniteSet(GivenBytes(given')) /\ Cardinality(GivenBytes(given')) = Cardinality(GivenBytes(given)) + size
      BY <1>2, <3>1, OneGiven DEF MInv
    <3>3. sys_used' <= mem_avail
      BY <1>2, <2>2, <3>1 DEF SysFits
    <3> QED BY <1>2, <1>3, <2>2, <3>1, <3>2, <3>3 DEF MInv
  <2>3. ASSUME SysFree PROVE Good
    <3>1. PICK t \in Asked : /\ given[t] > 0 /\ given' = [given EXCEPT ![t] = @ - 1]
                             /\ sys_used' = sys_used - t /\ UNCHANGED mode
      BY <2>3 DEF SysFree
    <3>2. t \in Nat /\ given' \in [Asked -> Nat] /\ given[t] = given'[t] + 1
          /\ \A r \in Asked \ {t} : given[r] = given'[r]
      BY <1>2, <3>1, AskedAssumption
    <3>3. IsFiniteSet(GivenBytes(given')) /\ Cardinality(GivenBytes(given)) = Cardinality(GivenBytes(given')) + t
      BY <1>2, <3>2, OneGiven DEF MInv
    <3>4. Cardinality(GivenBytes(given')) \in Nat
      BY <3>3, FS_CardinalityType
    <3>5. sys_used = Cardinality(GivenBytes(given)) /\ sys_used <= mem_avail
      BY <1>2 DEF MInv
    <3>6. sys_used' = Cardinality(GivenBytes(given')) /\ sys_used' <= mem_avail
      <4> DEFINE m == Cardinality(GivenBytes(given'))
      <4>1. m \in Nat /\ sys_used = m + t /\ t \in Nat /\ sys_used' = sys_used - t
        BY <3>1, <3>2, <3>3, <3>4, <3>5
      <4> HIDE DEF m
      <4>2. sys_used' = m /\ m <= mem_avail
        BY <1>2, <3>5, <4>1
      <4> QED BY <4>2 DEF m
    <3>7. mode' = "sys"
      BY <3>1
    <3> QED BY <1>3, <3>2, <3>3, <3>6, <3>7
  <2> HIDE DEF Good
  <2>4. Good
    BY <2>1, <2>2, <2>3 DEF SysMalloc
  <2> QED BY <2>4 DEF Good
<1>5. StartupAccounted'
  BY <1>1, <1>4 DEF MInv, StartupAccounted, SumOfBlocks
<1>6. mem_used' = 0
  BY <1>1 DEF MInv, vars
<1> QED BY <1>1, <1>4, <1>5, <1>6 DEF MInv

\* A step of the server is one of the allocator or leaves it alone, and it keeps the
\* accounts of the startup and of malloc.
LEMMA MStepKeeps == MInv /\ [MNext]_<<vars, memvars>> => MInv' /\ [Next]_vars
<1> SUFFICES ASSUME MInv, [MNext]_<<vars, memvars>> PROVE MInv' /\ [Next]_vars
  OBVIOUS
<1> DEFINE Names == {"cm", "caches", "slab_ctls", "slabs"}
           r == (SLAB_SIZE * slab_count) % WIDTH
           y == CTL * slab_count
<1>0. /\ mem_avail \in Limits
      /\ HEAD \in Nat /\ MANAGER \in Nat /\ CachesSize \in Nat /\ Before \in Nat /\ mem_avail \in Nat
      /\ Before = MANAGER + CachesSize + 2 * HEAD /\ Before + 2 * HEAD <= mem_avail
      /\ slab_count \in Nat /\ y \in Nat /\ r \in Nat
      /\ Before + y + 2 * HEAD + r <= mem_avail
  BY BlocksFit DEF MInv
<1>1. ASSUME NEW b \in Names, blocks[b] = 0, NEW size \in Nat, NEW then,
             malloci(b, size, then)
      PROVE  /\ blocks' \in [Names -> Nat] /\ \A a \in Names \ {b} : blocks'[a] = blocks[a]
             /\ mallocd' = SumOfBlocks' /\ mallocd' = mallocd + size + HEAD /\ mode' = then
             /\ slab_count' = slab_count /\ mem_avail' = mem_avail /\ UNCHANGED vars
             /\ (mode # "slab" => mem_used' = 0)
             /\ given' \in [Asked -> Nat] /\ IsFiniteSet(SysBytes')
             /\ sys_used' = Cardinality(SysBytes') /\ sys_used' <= mem_avail'
  <2>1. /\ blocks' \in [Names -> Nat] /\ \A a \in Names \ {b} : blocks'[a] = blocks[a]
        /\ mallocd' = SumOfBlocks' /\ mallocd' = mallocd + size + HEAD /\ mode' = then
        /\ UNCHANGED <<mem_avail, sys_used, given, vars>>
    BY <1>1, BlockTaken
  <2>2. slab_count' = slab_count /\ SysBytes' = SysBytes
    BY <2>1 DEF slab_count, SysBytes
  <2>3. mode # "slab" => mem_used' = 0
    BY <2>1 DEF MInv, vars
  <2> QED BY <2>1, <2>2, <2>3 DEF MInv
<1>2. CASE InitManager
  <2>1. mode = "cm" /\ (malloci("cm", MANAGER, "caches") \/ deinit_cache_manager)
    BY <1>2 DEF InitManager
  <2>2. CASE malloci("cm", MANAGER, "caches")
    <3>1. /\ blocks.cm = 0 /\ blocks.caches = 0 /\ blocks.slab_ctls = 0 /\ blocks.slabs = 0 /\ mallocd = 0
      BY <2>1 DEF MInv, StartupAccounted, SumOfBlocks
    <3>2. /\ blocks' \in [Names -> Nat] /\ \A a \in Names \ {"cm"} : blocks'[a] = blocks[a]
          /\ mallocd' = SumOfBlocks' /\ mallocd' = mallocd + MANAGER + HEAD /\ mode' = "caches"
          /\ slab_count' = slab_count /\ mem_avail' = mem_avail /\ UNCHANGED vars /\ mem_used' = 0
          /\ given' \in [Asked -> Nat] /\ IsFiniteSet(SysBytes')
          /\ sys_used' = Cardinality(SysBytes') /\ sys_used' <= mem_avail'
      BY <1>0, <1>1, <2>1, <2>2, <3>1
    <3>3. mallocd' = MANAGER + HEAD /\ mallocd' <= mem_avail'
      BY <1>0, <3>1, <3>2
    <3> QED BY <1>0, <3>1, <3>2, <3>3 DEF MInv, StartupAccounted
  <2> QED BY <2>1, <2>2, GivenUp
<1>3. CASE InitCaches
  <2>1. mode = "caches" /\ (malloci("caches", CachesSize, "slab_ctls") \/ deinit_cache_manager)
    BY <1>3 DEF InitCaches
  <2>2. CASE malloci("caches", CachesSize, "slab_ctls")
    <3>1. blocks.caches = 0 /\ blocks.slab_ctls = 0 /\ blocks.slabs = 0 /\ mallocd = MANAGER + HEAD
      BY <2>1 DEF MInv
    <3>2. /\ blocks' \in [Names -> Nat] /\ \A a \in Names \ {"caches"} : blocks'[a] = blocks[a]
          /\ mallocd' = SumOfBlocks' /\ mallocd' = mallocd + CachesSize + HEAD /\ mode' = "slab_ctls"
          /\ slab_count' = slab_count /\ mem_avail' = mem_avail /\ UNCHANGED vars /\ mem_used' = 0
          /\ given' \in [Asked -> Nat] /\ IsFiniteSet(SysBytes')
          /\ sys_used' = Cardinality(SysBytes') /\ sys_used' <= mem_avail'
      BY <1>0, <1>1, <2>1, <2>2, <3>1
    <3>3. mallocd' = Before /\ mallocd' <= mem_avail'
      BY <1>0, <3>1, <3>2
    <3> QED BY <1>0, <3>1, <3>2, <3>3 DEF MInv, StartupAccounted
  <2> QED BY <2>1, <2>2, GivenUp
<1>4. CASE InitSlabCtls
  <2>1. /\ mode = "slab_ctls"
        /\ \/ slab_count > 1 /\ malloci("slab_ctls", y, "slabs")
           \/ deinit_cache_manager
    BY <1>4 DEF InitSlabCtls
  <2>2. CASE slab_count > 1 /\ malloci("slab_ctls", y, "slabs")
    <3>1. blocks.slab_ctls = 0 /\ blocks.slabs = 0 /\ mallocd = Before
      BY <2>1 DEF MInv
    <3>2. /\ blocks' \in [Names -> Nat] /\ \A a \in Names \ {"slab_ctls"} : blocks'[a] = blocks[a]
          /\ mallocd' = SumOfBlocks' /\ mallocd' = mallocd + y + HEAD /\ mode' = "slabs"
          /\ slab_count' = slab_count /\ mem_avail' = mem_avail /\ UNCHANGED vars /\ mem_used' = 0
          /\ given' \in [Asked -> Nat] /\ IsFiniteSet(SysBytes')
          /\ sys_used' = Cardinality(SysBytes') /\ sys_used' <= mem_avail'
      BY <1>0, <1>1, <2>1, <2>2, <3>1
    <3>3. mallocd' = Before + y + HEAD /\ mallocd' <= mem_avail'
      <4> HIDE DEF y, r
      <4> QED BY <1>0, <3>1, <3>2
    <3> QED BY <1>0, <2>2, <3>1, <3>2, <3>3 DEF MInv, StartupAccounted
  <2> QED BY <2>1, <2>2, GivenUp
<1>5. CASE InitSlabs
  <2>0. mode = "slabs" /\ blocks.slabs = 0 /\ mallocd = Before + y + HEAD /\ slab_count > 1
    BY <1>5 DEF InitSlabs, MInv
  <2>1. mallocd + r + HEAD <= mem_avail /\ ~(mallocd + r + HEAD > mem_avail)
    <3> HIDE DEF y, r
    <3> QED BY <1>0, <2>0
  <2>2. malloci("slabs", r, Chosen) \/ deinit_cache_manager
    BY <1>5, <2>1 DEF InitSlabs
  <2>3. CASE malloci("slabs", r, Chosen)
    <3>1. /\ blocks' \in [Names -> Nat] /\ \A a \in Names \ {"slabs"} : blocks'[a] = blocks[a]
          /\ mallocd' = SumOfBlocks' /\ mallocd' = mallocd + r + HEAD /\ mode' = Chosen
          /\ slab_count' = slab_count /\ mem_avail' = mem_avail /\ UNCHANGED vars /\ mem_used' = 0
          /\ given' \in [Asked -> Nat] /\ IsFiniteSet(SysBytes')
          /\ sys_used' = Cardinality(SysBytes') /\ sys_used' <= mem_avail'
      BY <1>0, <1>1, <2>0, <2>3
    <3>2. mode' \in {"sys", "slab"} /\ mallocd' <= mem_avail'
      BY <2>1, <3>1 DEF Chosen
    <3>3. ASSUME mode' = "slab" PROVE mallocd' = mem_mallocd' /\ slab_count' >= Len(ChunkSizes)
      <4>1. ~(slab_count < Len(ChunkSizes))
        BY <3>1, <3>3 DEF Chosen
      <4>2. slab_count = slabctl_count
        BY <1>0, <4>1, LimitsAssumption DEF slab_count
      <4>3. mem_mallocd = METADATA + r /\ METADATA = Before + y + 2 * HEAD
        BY <4>2, BlocksAssumption DEF mem_mallocd
      <4>4. mallocd' = mem_mallocd
        <5>1. mallocd' = Before + y + HEAD + r + HEAD
          BY <2>0, <3>1
        <5> HIDE DEF y, r
        <5> QED BY <1>0, <4>3, <5>1
      <4>5. Len(ChunkSizes) \in Nat
        BY SizesAssumption
      <4> QED BY <1>0, <3>1, <4>1, <4>4, <4>5 DEF mem_mallocd
    <3>4. StartupAccounted'
      BY <3>1, <3>2, <3>3 DEF StartupAccounted
    <3> QED BY <1>0, <3>1, <3>2, <3>4 DEF MInv
  <2> QED BY <2>0, <2>2, <2>3, GivenUp
<1>6. ASSUME UNCHANGED memvars, mode # "slab" => UNCHANGED vars PROVE MInv'
  <2>1. /\ UNCHANGED <<mem_avail, blocks, mallocd, mode, sys_used, given>>
        /\ slab_count' = slab_count /\ SysBytes' = SysBytes /\ mem_mallocd' = mem_mallocd
    BY <1>6 DEF memvars, startup, sys, slab_count, SysBytes, mem_mallocd
  <2>2. StartupAccounted'
    BY <2>1 DEF MInv, StartupAccounted, SumOfBlocks
  <2>3. mode' # "slab" => mem_used' = 0
    BY <1>6, <2>1 DEF MInv, vars
  <2> QED BY <2>1, <2>2, <2>3 DEF MInv
<1>7. ASSUME NEW size \in Asked, li_malloc(size) PROVE MInv' /\ [Next]_vars
  <2>1. CASE mode = "slab" /\ scmalloc(size) /\ UNCHANGED memvars
    BY <1>6, <2>1 DEF Next
  <2>2. CASE mode = "sys" /\ SysMalloc(size)
    BY <2>2, SysKeeps
  <2> QED BY <1>7, <2>1, <2>2 DEF li_malloc
<1>8. CASE li_free
  <2>1. CASE mode = "slab" /\ (\E h \in held : scfree(h.ptr)) /\ UNCHANGED memvars
    BY <1>6, <2>1 DEF Next
  <2>2. CASE mode = "sys" /\ SysFree
    <3>1. \E size \in Asked : TRUE
      BY <2>2 DEF SysFree
    <3> QED BY <2>2, <3>1, SysKeeps
  <2> QED BY <1>8, <2>1, <2>2 DEF li_free
<1>9. CASE UNCHANGED <<vars, memvars>>
  BY <1>6, <1>9
<1> QED BY <1>2, <1>3, <1>4, <1>5, <1>7, <1>8, <1>9 DEF MNext

\* The blocks the slab allocator takes at startup are within mem_avail, their count is true
\* whichever of them malloc refuses, and it is what scmalloc later takes it for.
THEOREM StartupSound == MSpec => []StartupAccounted
<1>1. MInit => MInv
  BY MInitOK
<1>2. MInv /\ [MNext]_<<vars, memvars>> => MInv'
  BY MStepKeeps
<1>3. MInv => StartupAccounted
  BY DEF MInv
<1> QED BY <1>1, <1>2, <1>3, PTL DEF MSpec

\* The server uses the allocator as SlabAllocator says: nothing in the startup kills it, and
\* whatever holds of the allocator alone holds of it in the server.
THEOREM ServerUsesAllocator == MSpec => Spec
<1>1. MInit => MInv /\ Init
  BY MInitOK DEF MInit
<1>2. MInv /\ [MNext]_<<vars, memvars>> => MInv' /\ [Next]_vars
  BY MStepKeeps
<1> QED BY <1>1, <1>2, PTL DEF MSpec, Spec

\* li_memused answers the bytes the program holds and never more than mem_avail, whichever
\* allocator serves it.
THEOREM MemorySound == ASSUME Fits PROVE MSpec => [](IInv /\ MemUsedWithin)
<1>1. MInit => MInv /\ IInv
  BY MInitOK, InitOK DEF MInit
<1>2. MInv /\ IInv /\ [MNext]_<<vars, memvars>> => MInv' /\ IInv'
  BY MStepKeeps, StepKeeps
<1>3. MInv /\ IInv => MemUsedWithin
  <2> SUFFICES ASSUME MInv, IInv PROVE MemUsedWithin
    OBVIOUS
  <2>1. mem_avail \in Nat
    BY BlocksFit DEF MInv
  <2>2. ASSUME mode = "slab" PROVE mem_used <= mem_avail
    <3> DEFINE N == slabctl_count * SLAB_SIZE
    <3>1. mem_used = Cardinality(BytesOf(UsedOf, cache)) /\ Cut(UsedOf, cache)
      BY CountedIs DEF IInv, MemUsedTrue
    <3>2. mem_used \in Nat /\ mem_used <= N
      BY <3>1, BytesWithin
    <3>3. N \in Nat /\ METADATA \in Nat
      BY Sizes, SizesAssumption
    <3>4. METADATA + N <= mem_avail
      BY <2>2, NoWrap DEF MInv, StartupAccounted
    <3> HIDE DEF N
    <3> QED BY <2>1, <3>2, <3>3, <3>4
  <2> QED BY <2>1, <2>2 DEF MInv, MemUsedWithin, li_memused
<1> QED BY <1>1, <1>2, <1>3, PTL DEF MSpec
-----------------------------------------------------------------------------
(* The allocator in the server                                             *)

\* The counters and bit sets of the slabs agree in the server, at every step.
THEOREM CountersTrue == ASSUME Fits PROVE MSpec => []Counted
BY AllocatorSound, ServerUsesAllocator, PTL

\* Every slab is in the one list its counter says, so scmalloc fails only when it must.
THEOREM ListsTrue == ASSUME Fits PROVE MSpec => []SlabsListed
BY AllocatorSound, ServerUsesAllocator, PTL

\* No two blocks scmalloc has given out overlap, and none leaves the slabs.
THEOREM BlocksApart == ASSUME Fits PROVE MSpec => []HeldDisjoint
BY AllocatorSound, ServerUsesAllocator, PTL

\* mem_used counts the bytes of the chunks in use.
THEOREM MemUsedCounts == ASSUME Fits PROVE MSpec => []MemUsedTrue
BY AllocatorSound, ServerUsesAllocator, PTL

\* None of the assertions of scmalloc, scfree and init_cache_manager ever fails.
THEOREM NoneFails == ASSUME Fits PROVE MSpec => []NeverDies
BY AllocatorSound, ServerUsesAllocator, PTL

\* In the server, too, the allocator is the pool.
THEOREM ServerRefinesPool == ASSUME Fits PROVE MSpec => RefinesPool
BY AllocatorRefinesPool, ServerUsesAllocator, PTL
=============================================================================

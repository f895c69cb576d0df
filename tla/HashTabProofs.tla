--------------------------- MODULE HashTabProofs ---------------------------
(***************************************************************************)
(* Theorems about HashTab for every set of keys, every hash function and   *)
(* every size.  What matters of a table is which entries it holds, in      *)
(* whatever buckets (In): insertion adds one, marking an item free takes   *)
(* one away, and growth is a way of saying the same entries again, up to   *)
(* the item it has come to.  The invariant has one part for a table        *)
(* (Sound), one for a call of _hgrow (Growth), and one for a call within   *)
(* another (Within), so that nothing has to be said of the whole stack.    *)
(***************************************************************************)
EXTENDS HashTab, ListLemmas, FunctionTheorems

Stored   == Vals \cup {NULL}
ItemType == [key : Keys \cup {NULL}, klen : Nat, cap : Nat, val : Stored, free : BOOLEAN]
Table    == [size : Nat \ {0}, chain : UNION {[0..(n - 1) -> Seq(ItemType)] : n \in Nat \ {0}},
             count : Int, freecount : Int]
Frame    == [from : Table, done : UNION {[0..(n - 1) -> Nat] : n \in Nat \ {0}}, to : Table]

Fits(it)  == IF it.key = NULL THEN it.free ELSE it.klen = KeyLen[it.key] /\ it.cap >= it.klen + 1
Empty(it) == it.free => it.val = NULL

\* An item with the key of an item in use is free, and comes before it: what is recycled is
\* the last free item of the chain.
Ordered(chain) ==
  \A i, j \in 1..Len(chain) :
    i # j /\ chain[i].key = chain[j].key /\ ~chain[j].free => chain[i].free /\ i < j

GoodChain(chain) ==
  /\ chain \in Seq(ItemType)
  /\ \A i \in 1..Len(chain) : Fits(chain[i]) /\ Empty(chain[i])
  /\ Ordered(chain)

\* A table whose items are sound and in their buckets.
Sound(t) ==
  /\ t \in Table
  /\ t.chain \in [0..(t.size - 1) -> Seq(ItemType)]
  /\ \A b \in 0..(t.size - 1) : 
       /\ GoodChain(t.chain[b])
       /\ \A i \in 1..Len(t.chain[b]) : t.chain[b][i].key # NULL => Bucket(t, t.chain[b][i].key) = b

HasEntry(it, k, v) == ~it.free /\ it.key = k /\ it.val = v

Among(chain, k, v) == \E i \in 1..Len(chain) : HasEntry(chain[i], k, v)

In(t, k, v) == \E b \in 0..(t.size - 1) : Among(t.chain[b], k, v)

Elsewhere(t, b, k, v) == \E a \in 0..(t.size - 1) : a # b /\ Among(t.chain[a], k, v)

\* The table u holds the entry k, v and those of t.
Adds(t, u, k, v) ==
  \A kk \in Keys, vv \in Stored : In(u, kk, vv) <=> In(t, kk, vv) \/ (kk = k /\ vv = v)

LiveKeys(t) == {k \in Keys : \E v \in Stored : In(t, k, v)}

CountsKeys(t) ==
  IsFiniteSet(LiveKeys(t)) /\ Cardinality(LiveKeys(t)) = t.count - t.freecount

\* An item in use that has been moved.
HasMoved(f, k, v) ==
  \E b \in 0..(f.from.size - 1) : \E i \in 1..f.done[b] : HasEntry(f.from.chain[b][i], k, v)

\* A call of _hgrow: the new table holds what has been moved.
Growth(f) ==
  /\ f \in Frame
  /\ Sound(f.from) /\ Sound(f.to) /\ f.to.size >= 2 * f.from.size
  /\ f.done \in [0..(f.from.size - 1) -> Nat]
  /\ \A b \in 0..(f.from.size - 1) : f.done[b] <= Len(f.from.chain[b])
  /\ \A k \in Keys, v \in Stored : In(f.to, k, v) <=> HasMoved(f, k, v)

\* A call within another: it grows the other's new table, into which the pending item has
\* been set.
Within(f, g) ==
  /\ Left(f) # {} /\ Pending(f).key # NULL /\ ~Clash(f)
  /\ g.from.size = f.to.size
  /\ Adds(f.to, g.from, Pending(f).key, Pending(f).val)

\* The outermost call grows the table a SET has put a new item into.
Started(t, u) ==
  /\ u.size = t.size /\ CountsKeys(u) /\ u.count - u.freecount = t.count - t.freecount + 1
  /\ \E k \in Keys, v \in Vals : hget(t, k) = 0 /\ Adds(t, u, k, v)

\* A table between two commands.
TableOK(t) ==
  /\ Sound(t) /\ CountsKeys(t)
  /\ \A k \in Keys, v \in Stored : In(t, k, v) => v \in Vals
  /\ "create" \notin Sites => ~Overloaded(t)

\* The calls under way when the last command has left the table t.
StackOK(t, s) ==
  /\ s \in Seq(Frame)
  /\ \A n \in 1..Len(s) : Growth(s[n])
  /\ \A n \in 2..Len(s) : Within(s[n - 1], s[n])
  /\ s # <<>> => Started(t, s[1].from)

HInv ==
  /\ TableOK(ht) /\ StackOK(ht, stack)
  /\ answer \in {"ok", "error"} /\ status \in {"running", "segv", "dangling"}

-----------------------------------------------------------------------------
(* Sets of places                                                          *)

\* A set of places of a sequence that is not empty has a greatest element.
LEMMA Greatest ==
  ASSUME NEW n \in Nat, NEW T \in SUBSET (1..n), T # {}
  PROVE  Max(T) \in T /\ \A y \in T : y <= Max(T)
<1> DEFINE R == {n - y : y \in T}
<1>1. R \in SUBSET Nat /\ R # {}
  <2>1. \A y \in T : y \in 1..n /\ n - y \in Nat
    OBVIOUS
  <2> QED BY <2>1
<1>2. Min(R) \in R /\ \A z \in R : Min(R) <= z
  <2> HIDE DEF R
  <2> QED BY <1>1, Least
<1>3. PICK x \in T : Min(R) = n - x
  BY <1>2
<1>4. \A y \in T : y <= x
  <2> SUFFICES ASSUME NEW y \in T PROVE y <= x
    OBVIOUS
  <2>1. n - y \in R
    OBVIOUS
  <2>2. n - x <= n - y
    BY <1>2, <1>3, <2>1
  <2> QED BY <2>2
<1> HIDE DEF R
<1>5. \A y \in T : x >= y
  BY <1>4
<1> QED BY <1>5 DEF Max

\* The only element of a set is its least.
LEMMA OnlyOne ==
  ASSUME NEW i PROVE Min({i}) = i
BY DEF Min
-----------------------------------------------------------------------------
(* Tables                                                                  *)

\* Every key has a bucket, which depends on the size alone.
LEMMA BucketIn ==
  ASSUME NEW t, t.size \in Nat \ {0}, NEW k \in Keys
  PROVE  Bucket(t, k) \in 0..(t.size - 1)
BY HashAssumption DEF Bucket

\* What is known of the items of a table.
LEMMA ItemIs ==
  ASSUME NEW t, Sound(t), NEW b \in 0..(t.size - 1), NEW i \in 1..Len(t.chain[b])
  PROVE  /\ t.size \in Nat \ {0} /\ t.chain[b] \in Seq(ItemType) /\ Len(t.chain[b]) \in Nat
         /\ t.chain[b][i] \in ItemType
         /\ Fits(t.chain[b][i]) /\ Empty(t.chain[b][i])
         /\ t.chain[b][i].key # NULL => Bucket(t, t.chain[b][i].key) = b
         /\ ~t.chain[b][i].free => t.chain[b][i].key \in Keys
<1>1. t.size \in Nat \ {0} /\ t.chain[b] \in Seq(ItemType)
  BY DEF Sound, Table
<1>2. /\ GoodChain(t.chain[b])
      /\ t.chain[b][i].key # NULL => Bucket(t, t.chain[b][i].key) = b
  BY DEF Sound
<1>3. Fits(t.chain[b][i]) /\ Empty(t.chain[b][i])
  BY <1>2 DEF GoodChain
<1>4. t.chain[b][i] \in ItemType /\ Len(t.chain[b]) \in Nat
  BY <1>1
<1>5. ~t.chain[b][i].free => t.chain[b][i].key \in Keys
  BY <1>3, <1>4 DEF Fits, ItemType
<1> QED BY <1>1, <1>2, <1>3, <1>4, <1>5

\* No item but the one at i of bucket b is in use with the key.
OnlyItem(t, k, b, i) ==
  \A a \in 0..(t.size - 1) : \A j \in 1..Len(t.chain[a]) :
    ~t.chain[a][j].free /\ t.chain[a][j].key = k => a = b /\ j = i

\* hget finds no entry, or the one item in use with the key.
LEMMA GetOnly ==
  ASSUME NEW t, Sound(t), NEW k \in Keys
  PROVE  /\ hget(t, k) = 0 => \A v : ~In(t, k, v)
         /\ hget(t, k) # 0 =>
              /\ Bucket(t, k) \in 0..(t.size - 1)
              /\ hget(t, k) \in 1..Len(t.chain[Bucket(t, k)])
              /\ ~t.chain[Bucket(t, k)][hget(t, k)].free
              /\ t.chain[Bucket(t, k)][hget(t, k)].key = k
              /\ OnlyItem(t, k, Bucket(t, k), hget(t, k))
<1> DEFINE c == Bucket(t, k)
           M == Matches(t.chain[c], k)
<1>1. t.size \in Nat \ {0} /\ c \in 0..(t.size - 1)
  BY BucketIn DEF Sound, Table
<1>2. GoodChain(t.chain[c]) /\ t.chain[c] \in Seq(ItemType)
  BY <1>1 DEF Sound, GoodChain
<1>3. M = {i \in 1..Len(t.chain[c]) : ~t.chain[c][i].free /\ t.chain[c][i].key = k}
  BY <1>2 DEF Matches
<1>4. ASSUME NEW b \in 0..(t.size - 1), NEW i \in 1..Len(t.chain[b]),
             ~t.chain[b][i].free, t.chain[b][i].key = k
      PROVE  b = c /\ i \in M
  <2>1. b = c
    BY <1>4, NullAssumption DEF Sound
  <2> QED BY <1>3, <1>4, <2>1
<1>5. \A i, j \in M : i = j
  BY <1>2, <1>3 DEF GoodChain, Ordered
<1>6. hget(t, k) = IF M = {} THEN 0 ELSE Min(M)
  BY DEF hget
<1>7. CASE M = {}
  <2>1. hget(t, k) = 0
    BY <1>6, <1>7
  <2> HIDE DEF c, M
  <2>2. ASSUME NEW v, In(t, k, v) PROVE FALSE
    BY <1>4, <1>7, <2>2 DEF In, Among, HasEntry
  <2> QED BY <2>1, <2>2
<1>8. CASE M # {}
  <2>1. PICK i : i \in M
    BY <1>8
  <2>2. M = {i}
    BY <1>5, <2>1
  <2>3. hget(t, k) = i
    BY <1>6, <1>8, <2>2, OnlyOne
  <2>4. i \in 1..Len(t.chain[c]) /\ i # 0
    BY <1>2, <1>3, <2>1
  <2>5. ~t.chain[c][i].free /\ t.chain[c][i].key = k
    BY <1>3, <2>1
  <2>6. OnlyItem(t, k, c, i)
    BY <1>4, <2>2 DEF OnlyItem
  <2> QED BY <1>1, <2>3, <2>4, <2>5, <2>6
<1> QED BY <1>7, <1>8
-----------------------------------------------------------------------------
(* Chains                                                                  *)

\* hget answers the place of the one item in use with the key, if there is one.
LEMMA GetIs ==
  ASSUME NEW t, Sound(t), NEW k \in Keys
  PROVE  /\ hget(t, k) = 0 => \A v : ~In(t, k, v)
         /\ hget(t, k) # 0 =>
              /\ Bucket(t, k) \in 0..(t.size - 1)
              /\ hget(t, k) \in 1..Len(t.chain[Bucket(t, k)])
              /\ ~t.chain[Bucket(t, k)][hget(t, k)].free
              /\ t.chain[Bucket(t, k)][hget(t, k)].key = k
              /\ \A b \in 0..(t.size - 1) : \A i \in 1..Len(t.chain[b]) :
                   ~t.chain[b][i].free /\ t.chain[b][i].key = k
                     => b = Bucket(t, k) /\ i = hget(t, k)
<1>1. hget(t, k) = 0 => \A v : ~In(t, k, v)
  BY GetOnly
<1>2. ASSUME hget(t, k) # 0
      PROVE  /\ Bucket(t, k) \in 0..(t.size - 1)
             /\ hget(t, k) \in 1..Len(t.chain[Bucket(t, k)])
             /\ ~t.chain[Bucket(t, k)][hget(t, k)].free
             /\ t.chain[Bucket(t, k)][hget(t, k)].key = k
  BY <1>2, GetOnly
<1>3. ASSUME hget(t, k) # 0 PROVE OnlyItem(t, k, Bucket(t, k), hget(t, k))
  BY <1>3, GetOnly
<1> QED BY <1>1, <1>2, <1>3 DEF OnlyItem

\* An item in use is written over the last free item of a chain that does not have its key.
LEMMA ReuseGood ==
  ASSUME NEW chain, GoodChain(chain), NEW i \in 1..Len(chain), chain[i].free,
         \A j \in 1..Len(chain) : chain[j].free => j <= i,
         NEW it \in ItemType, Fits(it), ~it.free,
         \A j \in 1..Len(chain) : ~chain[j].free => chain[j].key # it.key
  PROVE  /\ GoodChain([chain EXCEPT ![i] = it])
         /\ Len([chain EXCEPT ![i] = it]) = Len(chain) /\ [chain EXCEPT ![i] = it][i] = it
         /\ \A j \in 1..Len(chain) : j # i => [chain EXCEPT ![i] = it][j] = chain[j]
         /\ \A k, v : Among([chain EXCEPT ![i] = it], k, v) <=> Among(chain, k, v) \/ HasEntry(it, k, v)
<1> DEFINE new == [chain EXCEPT ![i] = it]
<1>1. chain \in Seq(ItemType) /\ Len(chain) \in Nat
  BY DEF GoodChain
<1>2. /\ new \in Seq(ItemType) /\ Len(new) = Len(chain) /\ new[i] = it
      /\ \A j \in 1..Len(chain) : j # i => new[j] = chain[j]
  BY <1>1
<1> HIDE DEF new
<1>3. ASSUME NEW j \in 1..Len(new) PROVE Fits(new[j]) /\ Empty(new[j])
  BY <1>2 DEF GoodChain, Empty
<1>4. ASSUME NEW a \in 1..Len(new), NEW j \in 1..Len(new),
             a # j, new[a].key = new[j].key, ~new[j].free
      PROVE  new[a].free /\ a < j
  <2>1. CASE j = i
    BY <1>1, <1>2, <1>4, <2>1
  <2>2. CASE j # i /\ a # i
    BY <1>2, <1>4, <2>2 DEF GoodChain, Ordered
  <2>3. CASE j # i /\ a = i
    BY <1>2, <1>4, <2>3
  <2> QED BY <2>1, <2>2, <2>3
<1>5. ASSUME NEW k, NEW v PROVE Among(new, k, v) <=> Among(chain, k, v) \/ HasEntry(it, k, v)
  BY <1>2 DEF Among, HasEntry
<1>6. GoodChain(new)
  BY <1>2, <1>3, <1>4 DEF GoodChain, Ordered
<1> QED BY <1>2, <1>5, <1>6 DEF new

\* An item is marked free, loses its key with that, or takes another value.
LEMMA RewriteGood ==
  ASSUME NEW chain, GoodChain(chain), NEW i \in 1..Len(chain),
         NEW it \in ItemType, Fits(it), Empty(it), it.free \/ it.free = chain[i].free,
         it.key = NULL \/ it.key = chain[i].key
  PROVE  /\ GoodChain([chain EXCEPT ![i] = it])
         /\ Len([chain EXCEPT ![i] = it]) = Len(chain) /\ [chain EXCEPT ![i] = it][i] = it
         /\ \A j \in 1..Len(chain) : j # i => [chain EXCEPT ![i] = it][j] = chain[j]
         /\ \A k, v : Among([chain EXCEPT ![i] = it], k, v)
                      <=> HasEntry(it, k, v) \/ (Among(chain, k, v) /\ ~HasEntry(chain[i], k, v))
<1> DEFINE new == [chain EXCEPT ![i] = it]
<1>1. chain \in Seq(ItemType) /\ Len(chain) \in Nat
  BY DEF GoodChain
<1>2. /\ new \in Seq(ItemType) /\ Len(new) = Len(chain) /\ new[i] = it
      /\ \A j \in 1..Len(chain) : j # i => new[j] = chain[j]
  BY <1>1
<1> HIDE DEF new
<1>3. ASSUME NEW j \in 1..Len(new) PROVE Fits(new[j]) /\ Empty(new[j])
  BY <1>2 DEF GoodChain
<1>4. ASSUME NEW a \in 1..Len(new), NEW j \in 1..Len(new),
             a # j, new[a].key = new[j].key, ~new[j].free
      PROVE  new[a].free /\ a < j
  <2>1. new[j].key # NULL
    BY <1>3, <1>4 DEF Fits
  <2>2. ~chain[j].free /\ new[j].key = chain[j].key
    BY <1>2, <1>4, <2>1
  <2>3. new[a].key = chain[a].key /\ (new[a].free \/ new[a].free = chain[a].free)
    BY <1>2, <1>4, <2>1
  <2>4. chain[a].free /\ a < j
    BY <1>2, <1>4, <2>2, <2>3 DEF GoodChain, Ordered
  <2> QED BY <2>3, <2>4
<1>5. ASSUME NEW k, NEW v
      PROVE  Among(new, k, v) <=> HasEntry(it, k, v) \/ (Among(chain, k, v) /\ ~HasEntry(chain[i], k, v))
  <2>1. ASSUME NEW j \in 1..Len(chain), j # i, HasEntry(chain[j], k, v) PROVE ~HasEntry(chain[i], k, v)
    <3> SUFFICES ASSUME HasEntry(chain[i], k, v) PROVE FALSE
      OBVIOUS
    <3>1. chain[i].key = chain[j].key /\ ~chain[i].free /\ ~chain[j].free
      BY <2>1 DEF HasEntry
    <3> QED BY <2>1, <3>1 DEF GoodChain, Ordered
  <2>2. Among(new, k, v) <=> HasEntry(it, k, v) \/ \E j \in 1..Len(chain) : j # i /\ HasEntry(chain[j], k, v)
    BY <1>2 DEF Among
  <2>3. Among(chain, k, v)
        <=> HasEntry(chain[i], k, v) \/ \E j \in 1..Len(chain) : j # i /\ HasEntry(chain[j], k, v)
    BY DEF Among
  <2> QED BY <2>1, <2>2, <2>3
<1>6. GoodChain(new)
  BY <1>2, <1>3, <1>4 DEF GoodChain, Ordered
<1> QED BY <1>2, <1>5, <1>6 DEF new

\* An item in use is put in front of a chain that has neither its key nor a free item.
LEMMA ConsGood ==
  ASSUME NEW chain, GoodChain(chain), NEW it \in ItemType, Fits(it), ~it.free,
         \A j \in 1..Len(chain) : ~chain[j].free /\ chain[j].key # it.key
  PROVE  /\ GoodChain(Cons(it, chain))
         /\ Len(Cons(it, chain)) = Len(chain) + 1 /\ Len(chain) \in Nat
         /\ Cons(it, chain)[1] = it
         /\ \A j \in 2..(Len(chain) + 1) : j - 1 \in 1..Len(chain) /\ Cons(it, chain)[j] = chain[j - 1]
         /\ \A k, v : Among(Cons(it, chain), k, v) <=> Among(chain, k, v) \/ HasEntry(it, k, v)
<1> DEFINE new == Cons(it, chain)
<1>1. chain \in Seq(ItemType)
  BY DEF GoodChain
<1>2. /\ new \in Seq(ItemType) /\ Len(new) = Len(chain) + 1 /\ Len(chain) \in Nat /\ new[1] = it
      /\ \A j \in 1..Len(chain) : new[j + 1] = chain[j]
      /\ \A j \in 2..(Len(chain) + 1) : j - 1 \in 1..Len(chain) /\ new[j] = chain[j - 1]
  <2>1. /\ new \in Seq(ItemType) /\ Len(new) = Len(chain) + 1 /\ Len(chain) \in Nat
        /\ new[1] = it
    BY <1>1, ConsIs
  <2>2. \A j \in 1..Len(chain) : new[j + 1] = chain[j]
    BY <1>1, ConsIs
  <2>3. \A j \in 2..(Len(chain) + 1) : j - 1 \in 1..Len(chain) /\ new[j] = chain[j - 1]
    BY <1>1, ConsIs
  <2> QED BY <2>1, <2>2, <2>3
<1> HIDE DEF new
<1>3. ASSUME NEW j \in 1..Len(new) PROVE Fits(new[j]) /\ Empty(new[j])
  <2>1. CASE j = 1
    BY <1>2, <2>1 DEF Empty
  <2>2. CASE j # 1
    <3>1. j \in 2..(Len(chain) + 1)
      BY <1>2, <2>2
    <3> QED BY <1>2, <3>1 DEF GoodChain
  <2> QED BY <2>1, <2>2
<1>4. ASSUME NEW a \in 1..Len(new), NEW j \in 1..Len(new),
             a # j, new[a].key = new[j].key, ~new[j].free
      PROVE  new[a].free /\ a < j
  <2>1. CASE j = 1
    <3>1. a \in 2..(Len(chain) + 1)
      BY <1>2, <1>4, <2>1
    <3> QED BY <1>2, <1>4, <2>1, <3>1
  <2>2. CASE a = 1
    <3>1. j \in 2..(Len(chain) + 1)
      BY <1>2, <1>4, <2>2
    <3> QED BY <1>2, <1>4, <2>2, <3>1
  <2>3. CASE a # 1 /\ j # 1
    <3>1. a \in 2..(Len(chain) + 1) /\ j \in 2..(Len(chain) + 1)
      BY <1>2, <2>3
    <3>2. /\ a - 1 \in 1..Len(chain) /\ j - 1 \in 1..Len(chain) /\ a - 1 # j - 1
          /\ chain[a - 1].key = chain[j - 1].key /\ ~chain[j - 1].free
      BY <1>2, <1>4, <3>1
    <3>3. chain[a - 1].free
      BY <3>2 DEF GoodChain, Ordered
    <3> QED BY <3>2, <3>3
  <2> QED BY <2>1, <2>2, <2>3
<1>5. ASSUME NEW k, NEW v PROVE Among(new, k, v) <=> Among(chain, k, v) \/ HasEntry(it, k, v)
  <2>1. ASSUME Among(new, k, v), ~HasEntry(it, k, v) PROVE Among(chain, k, v)
    <3>1. PICK j \in 1..Len(new) : HasEntry(new[j], k, v)
      BY <2>1 DEF Among
    <3>2. j \in 2..(Len(chain) + 1)
      BY <1>2, <2>1, <3>1
    <3> QED BY <1>2, <3>1, <3>2 DEF Among
  <2>2. ASSUME Among(chain, k, v) PROVE Among(new, k, v)
    <3>1. PICK j \in 1..Len(chain) : HasEntry(chain[j], k, v)
      BY <2>2 DEF Among
    <3>2. j + 1 \in 1..Len(new) /\ new[j + 1] = chain[j]
      BY <1>2
    <3> QED BY <3>1, <3>2 DEF Among
  <2>3. 1 \in 1..Len(new) /\ (HasEntry(it, k, v) => Among(new, k, v))
    BY <1>2 DEF Among
  <2> QED BY <2>1, <2>2, <2>3
<1>6. GoodChain(new)
  BY <1>2, <1>3, <1>4 DEF GoodChain, Ordered
<1> QED BY <1>2, <1>5, <1>6 DEF new

-----------------------------------------------------------------------------
(* One chain of a table is written                                         *)

\* The table t with chain c in bucket b, and other counters.
Written(t, b, c, n, m) == [size |-> t.size, chain |-> [t.chain EXCEPT ![b] = c], count |-> n, freecount |-> m]

IsTable(t)    == t = [size |-> t.size, chain |-> t.chain, count |-> t.count, freecount |-> t.freecount]
IsFunction(u) == u = [x \in DOMAIN u |-> u[x]]

\* How it is recognised.
WrittenAs(t, b, c, n, m, u) ==
  /\ IsTable(t) /\ DOMAIN u = DOMAIN t /\ IsFunction(u)
  /\ u.size = t.size /\ u.chain = [t.chain EXCEPT ![b] = c] /\ u.count = n /\ u.freecount = m

LEMMA WrittenEq ==
  ASSUME NEW t, NEW b, NEW c, NEW n, NEW m, NEW u, WrittenAs(t, b, c, n, m, u)
  PROVE  u = Written(t, b, c, n, m)
<1> DEFINE e == [t.chain EXCEPT ![b] = c]
<1>1. DOMAIN t = {"size", "chain", "count", "freecount"}
  BY DEF IsTable, WrittenAs
<1> HIDE DEF e
<1>2. u = [size |-> t.size, chain |-> e, count |-> n, freecount |-> m]
  BY <1>1 DEF e, IsFunction, WrittenAs
<1> QED BY <1>2 DEF Written, e

\* It is sound, and what it holds is in the chain written or in another one.
LEMMA WrittenIs ==
  ASSUME NEW t, Sound(t), NEW b \in 0..(t.size - 1), NEW c, GoodChain(c),
         \A i \in 1..Len(c) : c[i].key # NULL => Bucket(t, c[i].key) = b,
         NEW n \in Int, NEW m \in Int
  PROVE  /\ Sound(Written(t, b, c, n, m))
         /\ \A k, v : In(Written(t, b, c, n, m), k, v) <=> Among(c, k, v) \/ Elsewhere(t, b, k, v)
         /\ \A k, v : In(t, k, v) <=> Among(t.chain[b], k, v) \/ Elsewhere(t, b, k, v)
<1> DEFINE u == Written(t, b, c, n, m)
<1>1. /\ u.size = t.size /\ u.count = n /\ u.freecount = m
      /\ u.chain = [t.chain EXCEPT ![b] = c]
      /\ u = [size |-> t.size, chain |-> u.chain, count |-> n, freecount |-> m]
  BY DEF Written
<1>2. t.size \in Nat \ {0} /\ t.chain \in [0..(t.size - 1) -> Seq(ItemType)]
  BY DEF Sound, Table
<1>3. c \in Seq(ItemType)
  BY DEF GoodChain
<1>4. /\ u.chain \in [0..(t.size - 1) -> Seq(ItemType)]
      /\ u.chain[b] = c
      /\ \A a \in 0..(t.size - 1) : a # b => u.chain[a] = t.chain[a]
  BY <1>1, <1>2, <1>3
<1> HIDE DEF u
<1>5. u \in Table
  <2>1. u.chain \in UNION {[0..(s - 1) -> Seq(ItemType)] : s \in Nat \ {0}}
    BY <1>2, <1>4
  <2> QED BY <1>1, <1>2, <2>1 DEF Table
<1>6. \A k : Bucket(u, k) = Bucket(t, k)
  BY <1>1 DEF Bucket
<1>7. Sound(u)
  <2> SUFFICES ASSUME NEW a \in 0..(t.size - 1)
               PROVE  /\ GoodChain(u.chain[a])
                      /\ \A i \in 1..Len(u.chain[a]) :
                           u.chain[a][i].key # NULL => Bucket(t, u.chain[a][i].key) = a
    BY <1>1, <1>4, <1>5, <1>6 DEF Sound
  <2>1. CASE a = b
    BY <1>4, <2>1
  <2>2. CASE a # b
    BY <1>4, <2>2 DEF Sound
  <2> QED BY <2>1, <2>2
<1>8. ASSUME NEW k, NEW v
      PROVE  /\ In(u, k, v) <=> Among(c, k, v) \/ Elsewhere(t, b, k, v)
             /\ In(t, k, v) <=> Among(t.chain[b], k, v) \/ Elsewhere(t, b, k, v)
  BY <1>1, <1>4 DEF In, Elsewhere
<1> QED BY <1>7, <1>8 DEF u
-----------------------------------------------------------------------------
(* The operations on a table                                               *)

\* What a table holds is a key with a value.
LEMMA InTyped ==
  ASSUME NEW t, Sound(t), NEW k, NEW v, In(t, k, v)
  PROVE  k \in Keys /\ v \in Stored
<1>0. PICK b \in 0..(t.size - 1) : Among(t.chain[b], k, v)
  BY DEF In
<1>1. PICK i \in 1..Len(t.chain[b]) : HasEntry(t.chain[b][i], k, v)
  BY <1>0 DEF Among
<1>2. t.chain[b][i] \in ItemType /\ (~t.chain[b][i].free => t.chain[b][i].key \in Keys)
  BY ItemIs
<1> QED BY <1>1, <1>2 DEF HasEntry, ItemType

\* A chain in which hget finds nothing.
LEMMA NotFound ==
  ASSUME NEW t, Sound(t), NEW k \in Keys, hget(t, k) = 0
  PROVE  \A j \in 1..Len(t.chain[Bucket(t, k)]) :
           ~t.chain[Bucket(t, k)][j].free => t.chain[Bucket(t, k)][j].key # k
<1> DEFINE b == Bucket(t, k)
<1>1. b \in 0..(t.size - 1) /\ \A v : ~In(t, k, v)
  BY BucketIn, GetIs DEF Sound, Table
<1> HIDE DEF b
<1> SUFFICES ASSUME NEW j \in 1..Len(t.chain[b]), ~t.chain[b][j].free, t.chain[b][j].key = k
             PROVE  FALSE
  BY DEF b
<1>2. In(t, k, t.chain[b][j].val)
  BY <1>1 DEF In, Among, HasEntry
<1> QED BY <1>1, <1>2

\* A new key that fails to find memory leaves the entries as they are; else there is one
\* more, and the table has the same size.
LEMMA InsertIs ==
  ASSUME NEW t, Sound(t), NEW k \in Keys, NEW v \in Stored, NEW site,
         hget(t, k) = 0, ~NullCompared(t, k)
  PROVE  LET r == Insert(t, k, v, site) IN
         /\ Sound(r.tab) /\ r.tab.size = t.size
         /\ site \notin {"item", "key"} => r.res = "HSUCCESS"
         /\ r.res = "HSUCCESS" => /\ r.tab.count - r.tab.freecount = t.count - t.freecount + 1
                                  /\ \A kk, vv : In(r.tab, kk, vv) <=> In(t, kk, vv) \/ (kk = k /\ vv = v)
         /\ r.res # "HSUCCESS" => /\ r.tab.count - r.tab.freecount = t.count - t.freecount
                                  /\ \A kk, vv : In(r.tab, kk, vv) <=> In(t, kk, vv)
<1> DEFINE r == Insert(t, k, v, site)
           b == Bucket(t, k)
           c == t.chain[b]
           R == Recyclable(c)
           i == Recycled(c)
<1>1. /\ t.size \in Nat \ {0} /\ t.count \in Int /\ t.freecount \in Int /\ b \in 0..(t.size - 1)
      /\ t = [size |-> t.size, chain |-> t.chain, count |-> t.count, freecount |-> t.freecount]
      /\ t.chain \in [0..(t.size - 1) -> Seq(ItemType)]
  BY BucketIn DEF Sound, Table
<1>0. IsTable(t)
  BY <1>1 DEF IsTable
<1>2. GoodChain(c) /\ c \in Seq(ItemType) /\ Len(c) \in Nat /\ DOMAIN c = 1..Len(c)
  BY <1>1 DEF Sound, GoodChain
<1>3. \A j \in 1..Len(c) : ~c[j].free => c[j].key # k
  BY NotFound
<1>4. \A j \in 1..Len(c) : c[j].key # NULL /\ Bucket(t, c[j].key) = b
  <2>1. Matches(c, k) = {}
    BY <1>2, <1>3 DEF Matches
  <2> QED BY <1>1, <1>2, <2>1 DEF NullCompared, Sound
<1>5. /\ r = IF R # {}
             THEN IF NeedsKey(c[i], k)
                  THEN IF site = "key"
                       THEN Outcome("HERROR", [t EXCEPT !.chain[b][i] = [@ EXCEPT !.key = NULL, !.cap = 0]])
                       ELSE Outcome("HSUCCESS", [t EXCEPT !.chain[b][i] = Item(k, KeyLen[k] + 1, v),
                                                          !.freecount = @ - 1])
                  ELSE Outcome("HSUCCESS", [t EXCEPT !.chain[b][i] = Item(k, c[i].cap, v),
                                                     !.freecount = @ - 1])
             ELSE IF site \in {"item", "key"}
                  THEN Outcome("HERROR", t)
                  ELSE Outcome("HSUCCESS", [t EXCEPT !.chain[b] = Cons(Item(k, KeyLen[k] + 1, v), @),
                                                     !.count = @ + 1])
  BY DEF Insert
<1>6. R = {j \in 1..Len(c) : c[j].free}
  BY <1>2 DEF Recyclable
<1>7. ASSUME R # {}
      PROVE  i \in 1..Len(c) /\ c[i].free /\ \A j \in 1..Len(c) : c[j].free => j <= i
  BY <1>2, <1>6, <1>7, Greatest DEF Recycled
<1>8. \A cap \in Nat : cap >= KeyLen[k] + 1 =>
        Item(k, cap, v) \in ItemType /\ Fits(Item(k, cap, v)) /\ ~Item(k, cap, v).free
        /\ Item(k, cap, v).key = k
        /\ \A kk, vv : HasEntry(Item(k, cap, v), kk, vv) <=> kk = k /\ vv = v
  BY HashAssumption, NullAssumption DEF Item, ItemType, Fits, HasEntry
<1> DEFINE Goal(res, u) ==
             /\ Sound(u) /\ u.size = t.size
             /\ site \notin {"item", "key"} => res = "HSUCCESS"
             /\ res = "HSUCCESS" => /\ u.count - u.freecount = t.count - t.freecount + 1
                                    /\ \A kk, vv : In(u, kk, vv) <=> In(t, kk, vv) \/ (kk = k /\ vv = v)
             /\ res # "HSUCCESS" => /\ u.count - u.freecount = t.count - t.freecount
                                    /\ \A kk, vv : In(u, kk, vv) <=> In(t, kk, vv)
<1>9. ASSUME NEW res, NEW u, r = Outcome(res, u), Goal(res, u)
      PROVE  Goal(r.res, r.tab)
  <2>1. r.res = res /\ r.tab = u
    BY <1>9 DEF Outcome
  <2> HIDE DEF Goal, r
  <2> QED BY <1>9, <2>1
<1> SUFFICES Goal(r.res, r.tab)
  OBVIOUS
<1> HIDE DEF r, b, c, R, i
<1>10. ASSUME NEW cap \in Nat, cap >= KeyLen[k] + 1, R # {},
              r = Outcome("HSUCCESS", [t EXCEPT !.chain[b][i] = Item(k, cap, v), !.freecount = @ - 1])
       PROVE  Goal(r.res, r.tab)
  <2> DEFINE it == Item(k, cap, v)
             new == [c EXCEPT ![i] = it]
             u == Written(t, b, new, t.count, t.freecount - 1)
  <2>1. it \in ItemType /\ Fits(it) /\ ~it.free /\ it.key = k
        /\ \A kk, vv : HasEntry(it, kk, vv) <=> kk = k /\ vv = v
    BY <1>8, <1>10
  <2>2. [t EXCEPT !.chain[b][i] = it, !.freecount = @ - 1] = u
    <3> HIDE DEF it
    <3> DEFINE w == [t EXCEPT !.chain[b][i] = it, !.freecount = @ - 1]
    <3>1. w.size = t.size /\ w.count = t.count /\ w.freecount = t.freecount - 1
      BY <1>1
    <3>2. w.chain = [t.chain EXCEPT ![b] = [c EXCEPT ![i] = it]]
      BY <1>1 DEF c
    <3>3. DOMAIN w = DOMAIN t /\ IsFunction(w)
      BY <1>1 DEF IsFunction
    <3> HIDE DEF w
    <3>4. WrittenAs(t, b, [c EXCEPT ![i] = it], t.count, t.freecount - 1, w)
      BY <1>0, <3>1, <3>2, <3>3 DEF WrittenAs
    <3>5. w = Written(t, b, [c EXCEPT ![i] = it], t.count, t.freecount - 1)
      BY <3>4, WrittenEq
    <3> QED BY <3>5 DEF w
  <2> HIDE DEF it
  <2>3. /\ GoodChain(new) /\ Len(new) = Len(c) /\ new[i] = it
        /\ \A j \in 1..Len(c) : j # i => new[j] = c[j]
        /\ \A kk, vv : Among(new, kk, vv) <=> Among(c, kk, vv) \/ HasEntry(it, kk, vv)
    <3>1. i \in 1..Len(c) /\ c[i].free /\ (\A j \in 1..Len(c) : c[j].free => j <= i)
          /\ \A j \in 1..Len(c) : ~c[j].free => c[j].key # it.key
      BY <1>3, <1>7, <1>10, <2>1
    <3>2. GoodChain(new) /\ Len(new) = Len(c) /\ new[i] = it
      BY <1>2, <2>1, <3>1, ReuseGood
    <3>3. \A j \in 1..Len(c) : j # i => new[j] = c[j]
      BY <1>2, <2>1, <3>1, ReuseGood
    <3>4. \A kk, vv : Among(new, kk, vv) <=> Among(c, kk, vv) \/ HasEntry(it, kk, vv)
      BY <1>2, <2>1, <3>1, ReuseGood
    <3> QED BY <3>2, <3>3, <3>4
  <2> HIDE DEF new
  <2>4. \A j \in 1..Len(new) : Bucket(t, new[j].key) = b
    BY <1>4, <2>1, <2>3 DEF b
  <2>5. t.freecount - 1 \in Int
    BY <1>1
  <2>6. /\ Sound(u)
        /\ \A kk, vv : In(u, kk, vv) <=> Among(new, kk, vv) \/ Elsewhere(t, b, kk, vv)
        /\ \A kk, vv : In(t, kk, vv) <=> Among(c, kk, vv) \/ Elsewhere(t, b, kk, vv)
    BY <1>1, <2>3, <2>4, <2>5, WrittenIs DEF c
  <2>7. u.size = t.size /\ u.count = t.count /\ u.freecount = t.freecount - 1
    BY DEF Written
  <2> HIDE DEF u
  <2>8. Goal("HSUCCESS", u)
    <3>1. u.count - u.freecount = t.count - t.freecount + 1
      BY <1>1, <2>7
    <3>2. \A kk, vv : In(u, kk, vv) <=> In(t, kk, vv) \/ (kk = k /\ vv = v)
      BY <2>1, <2>3, <2>6
    <3>3. Sound(u) /\ u.size = t.size
      BY <2>6, <2>7
    <3> QED BY <3>1, <3>2, <3>3
  <2> HIDE DEF Goal
  <2> QED BY <1>9, <1>10, <2>2, <2>8 DEF it
<1>11. CASE R # {} /\ NeedsKey(c[i], k) /\ site = "key"
  <2> DEFINE it == [c[i] EXCEPT !.key = NULL, !.cap = 0]
             new == [c EXCEPT ![i] = it]
             u == Written(t, b, new, t.count, t.freecount)
  <2>0. i \in 1..Len(c) /\ c[i].free /\ c[i] \in ItemType /\ Empty(c[i])
    BY <1>2, <1>7, <1>11 DEF GoodChain
  <2>1. it \in ItemType /\ Fits(it) /\ Empty(it) /\ it.free /\ it.key = NULL
    BY <2>0 DEF ItemType, Fits, Empty
  <2>2. [t EXCEPT !.chain[b][i] = [@ EXCEPT !.key = NULL, !.cap = 0]] = u
    <3> DEFINE w == [t EXCEPT !.chain[b][i] = [@ EXCEPT !.key = NULL, !.cap = 0]]
    <3>1. w.size = t.size /\ w.count = t.count /\ w.freecount = t.freecount
      BY <1>1
    <3>2. w.chain = [t.chain EXCEPT ![b] = [c EXCEPT ![i] = [c[i] EXCEPT !.key = NULL, !.cap = 0]]]
      BY <1>1 DEF c
    <3>3. DOMAIN w = DOMAIN t /\ IsFunction(w)
      BY <1>1 DEF IsFunction
    <3> HIDE DEF w
    <3>4. WrittenAs(t, b, [c EXCEPT ![i] = [c[i] EXCEPT !.key = NULL, !.cap = 0]], t.count, t.freecount, w)
      BY <1>0, <3>1, <3>2, <3>3 DEF WrittenAs
    <3>5. w = Written(t, b, [c EXCEPT ![i] = [c[i] EXCEPT !.key = NULL, !.cap = 0]], t.count, t.freecount)
      BY <3>4, WrittenEq
    <3> QED BY <3>5 DEF w
  <2> HIDE DEF it
  <2>3. /\ GoodChain(new) /\ Len(new) = Len(c) /\ new[i] = it
        /\ \A j \in 1..Len(c) : j # i => new[j] = c[j]
        /\ \A kk, vv : Among(new, kk, vv)
                       <=> HasEntry(it, kk, vv) \/ (Among(c, kk, vv) /\ ~HasEntry(c[i], kk, vv))
    <3>0. GoodChain(new)
      BY <1>2, <2>0, <2>1, RewriteGood
    <3>1. Len(new) = Len(c) /\ new[i] = it
      BY <1>2, <2>0
    <3>2. \A j \in 1..Len(c) : j # i => new[j] = c[j]
      BY <1>2, <2>0, <2>1, RewriteGood
    <3>3. \A kk, vv : Among(new, kk, vv)
                      <=> HasEntry(it, kk, vv) \/ (Among(c, kk, vv) /\ ~HasEntry(c[i], kk, vv))
      BY <1>2, <2>0, <2>1, RewriteGood
    <3> QED BY <3>0, <3>1, <3>2, <3>3
  <2> HIDE DEF new
  <2>4. \A j \in 1..Len(new) : new[j].key # NULL => Bucket(t, new[j].key) = b
    BY <1>4, <2>1, <2>3
  <2>6. /\ Sound(u)
        /\ \A kk, vv : In(u, kk, vv) <=> Among(new, kk, vv) \/ Elsewhere(t, b, kk, vv)
        /\ \A kk, vv : In(t, kk, vv) <=> Among(c, kk, vv) \/ Elsewhere(t, b, kk, vv)
    BY <1>1, <2>3, <2>4, WrittenIs DEF c
  <2>7. u.size = t.size /\ u.count = t.count /\ u.freecount = t.freecount
    BY DEF Written
  <2>8. \A kk, vv : ~HasEntry(it, kk, vv) /\ ~HasEntry(c[i], kk, vv)
    BY <2>0, <2>1 DEF HasEntry
  <2> HIDE DEF u
  <2>9. Goal("HERROR", u)
    <3>1. u.count - u.freecount = t.count - t.freecount
      BY <1>1, <2>7
    <3>2. \A kk, vv : In(u, kk, vv) <=> In(t, kk, vv)
      BY <2>3, <2>6, <2>8
    <3>3. Sound(u) /\ u.size = t.size
      BY <2>6, <2>7
    <3> QED BY <1>11, <3>1, <3>2, <3>3
  <2>10. r = Outcome("HERROR", u)
    BY <1>5, <1>11, <2>2
  <2> HIDE DEF Goal
  <2> QED BY <1>9, <2>9, <2>10
<1>12. CASE R # {} /\ NeedsKey(c[i], k) /\ site # "key"
  <2>1. KeyLen[k] + 1 \in Nat /\ KeyLen[k] + 1 >= KeyLen[k] + 1
    BY HashAssumption
  <2>2. r = Outcome("HSUCCESS", [t EXCEPT !.chain[b][i] = Item(k, KeyLen[k] + 1, v), !.freecount = @ - 1])
    BY <1>5, <1>12
  <2> HIDE DEF Goal
  <2> QED BY <1>10, <1>12, <2>1, <2>2
<1>13. CASE R # {} /\ ~NeedsKey(c[i], k)
  <2>1. i \in 1..Len(c) /\ c[i] \in ItemType /\ Fits(c[i]) /\ c[i].key # NULL
    BY <1>2, <1>4, <1>7, <1>13 DEF GoodChain
  <2>2. c[i].cap \in Nat /\ c[i].cap >= KeyLen[k] + 1
    BY <1>13, <2>1, HashAssumption DEF NeedsKey, Fits, ItemType
  <2>3. r = Outcome("HSUCCESS", [t EXCEPT !.chain[b][i] = Item(k, c[i].cap, v), !.freecount = @ - 1])
    BY <1>5, <1>13
  <2> HIDE DEF Goal
  <2> QED BY <1>10, <1>13, <2>2, <2>3
<1>14. CASE R = {} /\ site \in {"item", "key"}
  <2>1. r = Outcome("HERROR", t)
    BY <1>5, <1>14
  <2>2. Goal("HERROR", t)
    BY <1>1, <1>14
  <2> HIDE DEF Goal
  <2> QED BY <1>9, <2>1, <2>2
<1>15. CASE R = {} /\ site \notin {"item", "key"}
  <2> DEFINE it == Item(k, KeyLen[k] + 1, v)
             new == Cons(it, c)
             u == Written(t, b, new, t.count + 1, t.freecount)
  <2>1. it \in ItemType /\ Fits(it) /\ ~it.free /\ it.key = k
        /\ \A kk, vv : HasEntry(it, kk, vv) <=> kk = k /\ vv = v
    BY <1>8, HashAssumption
  <2> HIDE DEF it
  <2>2. [t EXCEPT !.chain[b] = Cons(it, @), !.count = @ + 1] = u
    <3> DEFINE w == [t EXCEPT !.chain[b] = Cons(it, @), !.count = @ + 1]
    <3>1. w.size = t.size /\ w.count = t.count + 1 /\ w.freecount = t.freecount
      BY <1>1
    <3>2. w.chain = [t.chain EXCEPT ![b] = Cons(it, c)]
      BY <1>1 DEF c
    <3>3. DOMAIN w = DOMAIN t /\ IsFunction(w)
      BY <1>1 DEF IsFunction
    <3> HIDE DEF w
    <3>4. WrittenAs(t, b, Cons(it, c), t.count + 1, t.freecount, w)
      BY <1>0, <3>1, <3>2, <3>3 DEF WrittenAs
    <3>5. w = Written(t, b, Cons(it, c), t.count + 1, t.freecount)
      BY <3>4, WrittenEq
    <3> QED BY <3>5 DEF w
  <2>3. \A j \in 1..Len(c) : ~c[j].free /\ c[j].key # it.key
    BY <1>3, <1>6, <1>15, <2>1
  <2>4. /\ GoodChain(new) /\ Len(new) = Len(c) + 1 /\ Len(c) \in Nat /\ new[1] = it
        /\ \A j \in 2..(Len(c) + 1) : j - 1 \in 1..Len(c) /\ new[j] = c[j - 1]
        /\ \A kk, vv : Among(new, kk, vv) <=> Among(c, kk, vv) \/ HasEntry(it, kk, vv)
    BY <1>2, <2>1, <2>3, ConsGood
  <2> HIDE DEF new
  <2>5. ASSUME NEW j \in 1..Len(new) PROVE Bucket(t, new[j].key) = b
    <3>1. CASE j = 1
      BY <2>1, <2>4, <3>1 DEF b
    <3>2. CASE j # 1
      <4>1. j \in 2..(Len(c) + 1)
        BY <2>4, <3>2
      <4> QED BY <1>4, <2>4, <4>1
    <3> QED BY <3>1, <3>2
  <2>6. t.count + 1 \in Int
    BY <1>1
  <2>7. /\ Sound(u)
        /\ \A kk, vv : In(u, kk, vv) <=> Among(new, kk, vv) \/ Elsewhere(t, b, kk, vv)
        /\ \A kk, vv : In(t, kk, vv) <=> Among(c, kk, vv) \/ Elsewhere(t, b, kk, vv)
    BY <1>1, <2>4, <2>5, <2>6, WrittenIs DEF c
  <2>8. u.size = t.size /\ u.count = t.count + 1 /\ u.freecount = t.freecount
    BY DEF Written
  <2> HIDE DEF u
  <2>9. Goal("HSUCCESS", u)
    <3>1. u.count - u.freecount = t.count - t.freecount + 1
      BY <1>1, <2>8
    <3>2. \A kk, vv : In(u, kk, vv) <=> In(t, kk, vv) \/ (kk = k /\ vv = v)
      BY <2>1, <2>4, <2>7
    <3>3. Sound(u) /\ u.size = t.size
      BY <2>7, <2>8
    <3> QED BY <3>1, <3>2, <3>3
  <2>10. r = Outcome("HSUCCESS", u)
    BY <1>5, <1>15, <2>2 DEF it
  <2> HIDE DEF Goal
  <2> QED BY <1>9, <2>9, <2>10
<1> HIDE DEF Goal
<1> QED BY <1>11, <1>12, <1>13, <1>14, <1>15

\* What hget has found is the one item in use with the key.
LEMMA FoundIs ==
  ASSUME NEW t, Sound(t), NEW k \in Keys, hget(t, k) # 0
  PROVE  \A b \in 0..(t.size - 1) : \A i \in 1..Len(t.chain[b]) :
           ~t.chain[b][i].free /\ t.chain[b][i].key = k => b = Bucket(t, k) /\ i = hget(t, k)
<1>1. OnlyItem(t, k, Bucket(t, k), hget(t, k))
  BY GetOnly
<1> QED BY <1>1 DEF OnlyItem

\* The item in use with a key is written, and keeps its key.
LEMMA RewriteIs ==
  ASSUME NEW t, Sound(t), NEW k \in Keys, hget(t, k) # 0,
         NEW it \in ItemType, Fits(it), Empty(it), it.key = k, NEW n \in Int, NEW m \in Int
  PROVE  LET u == Written(t, Bucket(t, k), [t.chain[Bucket(t, k)] EXCEPT ![hget(t, k)] = it], n, m) IN
         /\ Sound(u) /\ u.size = t.size /\ u.count = n /\ u.freecount = m
         /\ \A kk, vv : In(u, kk, vv) <=> HasEntry(it, kk, vv) \/ (kk # k /\ In(t, kk, vv))
<1> DEFINE b == Bucket(t, k)
           c == t.chain[b]
           i == hget(t, k)
           new == [c EXCEPT ![i] = it]
           u == Written(t, b, new, n, m)
<1>1. /\ b \in 0..(t.size - 1) /\ i \in 1..Len(c) /\ ~c[i].free /\ c[i].key = k
      /\ \A a \in 0..(t.size - 1) : \A j \in 1..Len(t.chain[a]) :
           ~t.chain[a][j].free /\ t.chain[a][j].key = k => a = b /\ j = i
  <2>1. b \in 0..(t.size - 1) /\ i \in 1..Len(c)
    BY GetIs
  <2>3. ~c[i].free
    BY GetIs
  <2>4. c[i].key = k
    BY GetIs
  <2>2. \A a \in 0..(t.size - 1) : \A j \in 1..Len(t.chain[a]) :
           ~t.chain[a][j].free /\ t.chain[a][j].key = k => a = b /\ j = i
    BY FoundIs
  <2> QED BY <2>1, <2>2, <2>3, <2>4
<1>2. GoodChain(c) /\ \A j \in 1..Len(c) : c[j].key # NULL => Bucket(t, c[j].key) = b
  BY <1>1 DEF Sound
<1>3. Bucket(t, k) = b
  OBVIOUS
<1>4. u = Written(t, b, new, n, m)
  OBVIOUS
<1> SUFFICES /\ Sound(u) /\ u.size = t.size /\ u.count = n /\ u.freecount = m
             /\ \A kk, vv : In(u, kk, vv) <=> HasEntry(it, kk, vv) \/ (kk # k /\ In(t, kk, vv))
  OBVIOUS
<1> HIDE DEF b, i, u
<1>5. it.free \/ it.free = c[i].free
  <2>1. c[i] \in ItemType
    BY <1>1, <1>2 DEF GoodChain
  <2>2. c[i].free \in BOOLEAN /\ it.free \in BOOLEAN
    BY <2>1 DEF ItemType
  <2> HIDE DEF c
  <2> QED BY <1>1, <2>2
<1> HIDE DEF c
<1>6. GoodChain(new)
  BY <1>1, <1>2, <1>5, RewriteGood
<1>7. /\ Len(new) = Len(c) /\ new[i] = it
      /\ \A j \in 1..Len(c) : j # i => new[j] = c[j]
  BY <1>1, <1>2 DEF GoodChain
<1>8. \A kk, vv : Among(new, kk, vv)
                  <=> HasEntry(it, kk, vv) \/ (Among(c, kk, vv) /\ ~HasEntry(c[i], kk, vv))
  BY <1>1, <1>2, <1>5, RewriteGood
<1> HIDE DEF new
<1>9. \A j \in 1..Len(new) : new[j].key # NULL => Bucket(t, new[j].key) = b
  BY <1>2, <1>3, <1>7
<1>10. /\ Sound(u)
       /\ \A kk, vv : In(u, kk, vv) <=> Among(new, kk, vv) \/ Elsewhere(t, b, kk, vv)
       /\ \A kk, vv : In(t, kk, vv) <=> Among(c, kk, vv) \/ Elsewhere(t, b, kk, vv)
  <2>1. Sound(Written(t, b, new, n, m))
    BY <1>1, <1>6, <1>9, WrittenIs
  <2>2. \A kk, vv : In(Written(t, b, new, n, m), kk, vv) <=> Among(new, kk, vv) \/ Elsewhere(t, b, kk, vv)
    BY <1>1, <1>6, <1>9, WrittenIs
  <2>3. \A kk, vv : In(t, kk, vv) <=> Among(t.chain[b], kk, vv) \/ Elsewhere(t, b, kk, vv)
    BY <1>1, <1>6, <1>9, WrittenIs
  <2> QED BY <1>4, <2>1, <2>2, <2>3 DEF c
<1>11. u.size = t.size /\ u.count = n /\ u.freecount = m
  BY <1>4 DEF Written
<1>12. ASSUME NEW vv PROVE ~Elsewhere(t, b, k, vv) /\ (Among(c, k, vv) => HasEntry(c[i], k, vv))
  BY <1>1 DEF Elsewhere, Among, HasEntry, c
<1>13. ASSUME NEW kk, NEW vv, kk # k PROVE ~HasEntry(c[i], kk, vv)
  BY <1>1, <1>13 DEF HasEntry
<1>14. ASSUME NEW kk, NEW vv
       PROVE  In(u, kk, vv) <=> HasEntry(it, kk, vv) \/ (kk # k /\ In(t, kk, vv))
  <2>1. CASE kk = k
    BY <1>8, <1>10, <1>12, <2>1
  <2>2. CASE kk # k
    BY <1>8, <1>10, <1>13, <2>2
  <2> QED BY <2>1, <2>2
<1> QED BY <1>10, <1>11, <1>14

\* A sound table is a record.
LEMMA SoundIs ==
  ASSUME NEW t, Sound(t)
  PROVE  /\ IsTable(t) /\ t.size \in Nat \ {0} /\ t.count \in Int /\ t.freecount \in Int
         /\ t.chain \in [0..(t.size - 1) -> Seq(ItemType)]
BY DEF Sound, Table, IsTable

\* Marking an item free takes its entry away; marking it used changes nothing.
LEMMA MarkIs ==
  ASSUME NEW t, Sound(t), NEW k \in Keys, hget(t, k) # 0, NEW free \in BOOLEAN,
         free => In(t, k, NULL)
  PROVE  /\ Sound(Mark(t, k, free)) /\ Mark(t, k, free).size = t.size
         /\ \A kk, vv : In(Mark(t, k, free), kk, vv) <=> In(t, kk, vv) /\ ~(free /\ kk = k)
<1> DEFINE b == Bucket(t, k)
           c == t.chain[b]
           i == hget(t, k)
           old == c[i]
           it == [old EXCEPT !.free = free]
           w == [t EXCEPT !.chain[b][i].free = free]
<1>0. /\ IsTable(t) /\ t.size \in Nat \ {0} /\ t.count \in Int /\ t.freecount \in Int
      /\ t.chain \in [0..(t.size - 1) -> Seq(ItemType)]
  BY SoundIs
<1>1. /\ b \in 0..(t.size - 1) /\ i \in 1..Len(c) /\ ~old.free /\ old.key = k
      /\ \A a \in 0..(t.size - 1) : \A j \in 1..Len(t.chain[a]) :
           ~t.chain[a][j].free /\ t.chain[a][j].key = k => a = b /\ j = i
  <2>1. b \in 0..(t.size - 1) /\ i \in 1..Len(c)
    BY GetIs
  <2>2. ~old.free
    BY GetIs
  <2>3. old.key = k
    BY GetIs
  <2>4. \A a \in 0..(t.size - 1) : \A j \in 1..Len(t.chain[a]) :
          ~t.chain[a][j].free /\ t.chain[a][j].key = k => a = b /\ j = i
    BY FoundIs
  <2> QED BY <2>1, <2>2, <2>3, <2>4
<1>2. old \in ItemType /\ Fits(old)
  BY <1>1, ItemIs
<1>3. \A vv : In(t, k, vv) => vv = old.val
  BY <1>1 DEF In, Among, HasEntry
<1>4. In(t, k, old.val)
  BY <1>1 DEF In, Among, HasEntry
<1>5. w = Written(t, b, [c EXCEPT ![i] = it], t.count, t.freecount)
  <2>1. w.size = t.size /\ w.count = t.count /\ w.freecount = t.freecount
    BY <1>0 DEF IsTable
  <2> DEFINE new == [c EXCEPT ![i] = it]
  <2>2. w.chain = [t.chain EXCEPT ![b] = new]
    BY <1>0 DEF IsTable
  <2>3. DOMAIN w = DOMAIN t /\ IsFunction(w)
    BY <1>0 DEF IsFunction, IsTable
  <2>4. IsTable(t)
    BY <1>0
  <2> HIDE DEF w, b, new
  <2>5. WrittenAs(t, b, new, t.count, t.freecount, w)
    BY <2>4, <2>1, <2>2, <2>3 DEF WrittenAs
  <2>6. w = Written(t, b, new, t.count, t.freecount)
    BY <2>5, WrittenEq
  <2> QED BY <2>6 DEF new
<1>6. Mark(t, k, free) = w
  BY DEF Mark
<1> HIDE DEF w, old
<1>7. /\ it \in ItemType /\ Fits(it) /\ Empty(it) /\ it.key = k
      /\ it.free = free /\ it.val = old.val
  BY <1>1, <1>2, <1>3 DEF ItemType, Fits, Empty, Stored
<1> HIDE DEF it, b, c, i
<1>8. /\ Sound(w) /\ w.size = t.size
      /\ \A kk, vv : In(w, kk, vv) <=> HasEntry(it, kk, vv) \/ (kk # k /\ In(t, kk, vv))
  <2>1. t.count \in Int /\ t.freecount \in Int
    BY <1>0
  <2> QED BY <1>5, <1>7, <2>1, RewriteIs DEF b, c, i
<1>9. \A kk, vv : HasEntry(it, kk, vv) <=> ~free /\ kk = k /\ vv = old.val
  BY <1>7 DEF HasEntry
<1> QED BY <1>3, <1>4, <1>6, <1>8, <1>9

\* A new table is empty.
LEMMA CreateIs ==
  ASSUME NEW s \in Nat \ {0}
  PROVE  /\ Sound(htcreate(s)) /\ htcreate(s).size = s
         /\ htcreate(s).count = 0 /\ htcreate(s).freecount = 0
         /\ \A k, v : ~In(htcreate(s), k, v)
<1> DEFINE t == htcreate(s)
<1>1. /\ t.size = s /\ t.count = 0 /\ t.freecount = 0
      /\ t.chain = [b \in 0..(s - 1) |-> <<>>]
  BY DEF htcreate
<1>a. t = [size |-> s, chain |-> [b \in 0..(s - 1) |-> <<>>], count |-> 0, freecount |-> 0]
  BY DEF htcreate
<1> HIDE DEF t
<1>2. <<>> \in Seq(ItemType) /\ Len(<<>>) = 0
  OBVIOUS
<1>3. t.chain \in [0..(s - 1) -> Seq(ItemType)]
  BY <1>1, <1>2
<1>4. \A b \in 0..(s - 1) : t.chain[b] = <<>>
  BY <1>1
<1>5. GoodChain(<<>>)
  BY <1>2 DEF GoodChain, Ordered
<1>6. t \in Table
  <2> DEFINE ch == [b \in 0..(s - 1) |-> <<>>]
  <2>1. ch \in UNION {[0..(n - 1) -> Seq(ItemType)] : n \in Nat \ {0}}
    BY <1>1, <1>3
  <2>2. t = [size |-> s, chain |-> ch, count |-> 0, freecount |-> 0]
    BY <1>a
  <2> HIDE DEF ch
  <2> QED BY <2>1, <2>2 DEF Table
<1>7. Sound(t)
  BY <1>1, <1>2, <1>3, <1>4, <1>5, <1>6 DEF Sound
<1>8. \A k, v : ~In(t, k, v)
  BY <1>1, <1>2, <1>4 DEF In, Among
<1> QED BY <1>1, <1>7, <1>8 DEF t

\* The table after growth has the chains of the new one and the counters of the old one.
LEMMA KeepsIs ==
  ASSUME NEW t, Sound(t), NEW g, Sound(g)
  PROVE  /\ Sound(Keeps(t, g)) /\ Keeps(t, g).size = g.size
         /\ Keeps(t, g).count = t.count /\ Keeps(t, g).freecount = t.freecount
         /\ \A k, v : In(Keeps(t, g), k, v) <=> In(g, k, v)
<1> DEFINE u == Keeps(t, g)
<1>0. IsTable(g)
  BY SoundIs
<1>1. /\ u.size = g.size /\ u.chain = g.chain /\ u.count = t.count /\ u.freecount = t.freecount
  BY <1>0 DEF Keeps, IsTable
<1>a. u = [size |-> g.size, chain |-> g.chain, count |-> t.count, freecount |-> t.freecount]
  <2>1. DOMAIN u = DOMAIN g /\ IsFunction(u)
    BY <1>0 DEF Keeps, IsTable, IsFunction
  <2>2. DOMAIN g = {"size", "chain", "count", "freecount"}
    BY <1>0 DEF IsTable
  <2> HIDE DEF u
  <2> QED BY <1>1, <2>1, <2>2 DEF IsFunction
<1> HIDE DEF u
<1>2. t.count \in Int /\ t.freecount \in Int
  BY SoundIs
<1>3. u \in Table
  BY <1>a, <1>2 DEF Sound, Table
<1>4. \A k : Bucket(u, k) = Bucket(g, k)
  BY <1>1 DEF Bucket
<1>5. Sound(u)
  BY <1>1, <1>3, <1>4 DEF Sound
<1>6. \A k, v : In(u, k, v) <=> In(g, k, v)
  BY <1>1 DEF In
<1> QED BY <1>1, <1>5, <1>6 DEF u
-----------------------------------------------------------------------------
(* Growth                                                                  *)

\* A call of _hgrow begins with nothing moved.
LEMMA GrowIs ==
  ASSUME NEW t, Sound(t)
  PROVE  Growth(_hgrow(t)) /\ _hgrow(t).from = t
<1> DEFINE f == _hgrow(t)
           none == [b \in DOMAIN t.chain |-> 0]
           new == htcreate(2 * t.size)
<1>1. /\ t.size \in Nat \ {0} /\ t.chain \in [0..(t.size - 1) -> Seq(ItemType)]
      /\ t \in Table
  BY SoundIs DEF Sound
<1>2. 2 * t.size \in Nat \ {0}
  BY <1>1
<1>3. /\ Sound(new) /\ new.size = 2 * t.size
      /\ \A k, v : ~In(new, k, v)
  BY <1>2, CreateIs
<1>4. none \in [0..(t.size - 1) -> Nat] /\ \A b \in 0..(t.size - 1) : none[b] = 0
  BY <1>1
<1> HIDE DEF new, none
<1>5. f = [from |-> t, done |-> none, to |-> new]
  BY DEF _hgrow, new, none
<1>6. f.from = t /\ f.done = none /\ f.to = new
  BY <1>5
<1>7. f \in Frame
  <2>1. none \in UNION {[0..(n - 1) -> Nat] : n \in Nat \ {0}}
    BY <1>1, <1>4
  <2>2. new \in Table
    BY <1>3 DEF Sound
  <2> QED BY <1>1, <1>5, <2>1, <2>2 DEF Frame
<1> HIDE DEF f
<1>8. \A b \in 0..(t.size - 1) : Len(t.chain[b]) \in Nat
  BY <1>1
<1>9. \A k, v : ~HasMoved(f, k, v)
  BY <1>4, <1>6 DEF HasMoved
<1>10. new.size >= 2 * t.size
  BY <1>1, <1>3
<1>11. Growth(f)
  BY <1>1, <1>3, <1>4, <1>6, <1>7, <1>8, <1>9, <1>10 DEF Growth
<1> QED BY <1>6, <1>11 DEF f

\* The next item is the one after those that have been moved.
LEMMA PendingIs ==
  ASSUME NEW f, Growth(f), Left(f) # {}
  PROVE  /\ Min(Left(f)) \in 0..(f.from.size - 1)
         /\ f.done[Min(Left(f))] \in Nat
         /\ f.done[Min(Left(f))] + 1 \in 1..Len(f.from.chain[Min(Left(f))])
         /\ Pending(f) = f.from.chain[Min(Left(f))][f.done[Min(Left(f))] + 1]
         /\ Pending(f) \in ItemType /\ Fits(Pending(f)) /\ Empty(Pending(f))
         /\ Pending(f).key # NULL =>
              Pending(f).key \in Keys /\ Bucket(f.from, Pending(f).key) = Min(Left(f))
<1> DEFINE L == Left(f)
           b == Min(L)
           i == f.done[b] + 1
           p == f.from.chain[b][i]
<1>1. /\ Sound(f.from) /\ f.done \in [0..(f.from.size - 1) -> Nat]
      /\ f.from.size \in Nat \ {0}
      /\ f.from.chain \in [0..(f.from.size - 1) -> Seq(ItemType)]
  BY SoundIs DEF Growth
<1>2. L = {a \in 0..(f.from.size - 1) : f.done[a] < Len(f.from.chain[a])}
  BY <1>1 DEF Left
<1>3. b \in L
  <2>1. L \in SUBSET Nat
    BY <1>1, <1>2
  <2>2. L # {}
    OBVIOUS
  <2> HIDE DEF L
  <2> QED BY <2>1, <2>2, Least
<1>4. b \in 0..(f.from.size - 1) /\ f.done[b] < Len(f.from.chain[b])
  BY <1>2, <1>3
<1> HIDE DEF L, b
<1>5. f.done[b] \in Nat /\ Len(f.from.chain[b]) \in Nat
  BY <1>1, <1>4
<1>6. i \in 1..Len(f.from.chain[b])
  BY <1>4, <1>5
<1> HIDE DEF i
<1>7. /\ p \in ItemType /\ Fits(p) /\ Empty(p)
      /\ p.key # NULL => Bucket(f.from, p.key) = b
  BY <1>1, <1>4, <1>6, ItemIs
<1>8. p.key # NULL => p.key \in Keys
  BY <1>7 DEF ItemType
<1>9. Pending(f) = p
  BY DEF Pending, b, L, i
<1> QED BY <1>4, <1>5, <1>6, <1>7, <1>8, <1>9 DEF b, L, i

\* Its key has not been moved yet: an item that has been moved and is in use comes before it
\* in its chain, where the item in use with a key is the last one.
LEMMA NoClash ==
  ASSUME NEW f, Growth(f)
  PROVE  ~Clash(f)
<1> SUFFICES ASSUME Left(f) # {}, Pending(f).key # NULL
             PROVE  hget(f.to, Pending(f).key) = 0
  BY DEF Clash
<1> DEFINE b == Min(Left(f))
           i == f.done[b] + 1
           c == f.from.chain[b]
           k == Pending(f).key
<1>1. /\ b \in 0..(f.from.size - 1) /\ f.done[b] \in Nat /\ i \in 1..Len(c)
      /\ Pending(f) = c[i] /\ k \in Keys /\ Bucket(f.from, k) = b
  BY PendingIs
<1>2. /\ Sound(f.from) /\ Sound(f.to)
      /\ \A a \in 0..(f.from.size - 1) : f.done[a] \in Nat /\ f.done[a] <= Len(f.from.chain[a])
      /\ \A kk \in Keys, v \in Stored : In(f.to, kk, v) <=> HasMoved(f, kk, v)
  BY DEF Growth
<1>3. GoodChain(c)
  BY <1>1, <1>2 DEF Sound
<1> HIDE DEF b
<1>4. ASSUME NEW v \in Stored, HasMoved(f, k, v) PROVE FALSE
  <2>1. PICK a \in 0..(f.from.size - 1) : \E j \in 1..f.done[a] : HasEntry(f.from.chain[a][j], k, v)
    BY <1>4 DEF HasMoved
  <2>2. PICK j \in 1..f.done[a] : HasEntry(f.from.chain[a][j], k, v)
    BY <2>1
  <2>3. Len(f.from.chain[a]) \in Nat
    BY <1>2, SoundIs
  <2>4. j \in 1..Len(f.from.chain[a])
    BY <1>2, <2>3
  <2>5. f.from.chain[a][j].key = k /\ ~f.from.chain[a][j].free
    BY <2>2 DEF HasEntry
  <2>6. a = b
    <3>1. f.from.chain[a][j].key # NULL
      BY <1>1, <2>5, NullAssumption
    <3>2. Bucket(f.from, f.from.chain[a][j].key) = a
      BY <1>2, <2>4, <3>1, ItemIs
    <3> QED BY <1>1, <2>5, <3>2
  <2>7. j \in 1..Len(c) /\ j < i /\ j # i /\ c[i].key = c[j].key /\ ~c[j].free
    BY <1>1, <2>4, <2>5, <2>6
  <2>8. i < j
    BY <1>1, <1>3, <2>7 DEF GoodChain, Ordered
  <2> QED BY <1>1, <2>7, <2>8
<1>5. ASSUME hget(f.to, k) # 0 PROVE \E v \in Stored : In(f.to, k, v)
  <2> DEFINE d == Bucket(f.to, k)
             it == f.to.chain[d][hget(f.to, k)]
  <2>1. d \in 0..(f.to.size - 1) /\ hget(f.to, k) \in 1..Len(f.to.chain[d]) /\ ~it.free /\ it.key = k
    BY <1>1, <1>2, <1>5, GetIs
  <2>2. it \in ItemType
    BY <1>2, <2>1, ItemIs
  <2>3. In(f.to, k, it.val)
    BY <2>1 DEF In, Among, HasEntry
  <2>4. it.val \in Stored
    BY <2>2 DEF ItemType
  <2> QED BY <2>3, <2>4
<1> QED BY <1>1, <1>2, <1>4, <1>5

\* The pending item is in the new table, and is marked as it was: one more has been moved.
LEMMA MovedIs ==
  ASSUME NEW f, Growth(f), Left(f) # {}, Pending(f).key # NULL,
         NEW t, Sound(t), t.size >= 2 * f.from.size,
         Adds(f.to, t, Pending(f).key, Pending(f).val)
  PROVE  /\ Growth(Moved(f, t)) /\ Moved(f, t).from = f.from
<1> DEFINE b == Min(Left(f))
           p == Pending(f)
           k == p.key
           g == Moved(f, t)
           to == Mark(t, k, p.free)
           done == [f.done EXCEPT ![b] = @ + 1]
<1>1. /\ b \in 0..(f.from.size - 1) /\ f.done[b] \in Nat
      /\ f.done[b] + 1 \in 1..Len(f.from.chain[b]) /\ p = f.from.chain[b][f.done[b] + 1]
      /\ p \in ItemType /\ Empty(p) /\ k \in Keys
  BY PendingIs
<1>2. /\ f \in Frame /\ Sound(f.from) /\ Sound(f.to) /\ f.done \in [0..(f.from.size - 1) -> Nat]
      /\ \A a \in 0..(f.from.size - 1) : f.done[a] <= Len(f.from.chain[a])
      /\ \A kk \in Keys, v \in Stored : In(f.to, kk, v) <=> HasMoved(f, kk, v)
  BY DEF Growth
<1>3. \A v : ~In(f.to, k, v)
  BY <1>1, <1>2, NoClash, GetIs DEF Clash
<1>4. p.free \in BOOLEAN /\ p.val \in Stored
  BY <1>1 DEF ItemType
<1>5. \A kk \in Keys, v \in Stored : In(t, kk, v) <=> In(f.to, kk, v) \/ (kk = k /\ v = p.val)
  BY DEF Adds
<1>6. In(t, k, p.val)
  BY <1>1, <1>4, <1>5
<1>7. hget(t, k) # 0
  BY <1>1, <1>6, GetIs
<1>8. p.free => In(t, k, NULL)
  BY <1>1, <1>6 DEF Empty
<1>9. /\ Sound(to) /\ to.size = t.size
      /\ \A kk, v : In(to, kk, v) <=> In(t, kk, v) /\ ~(p.free /\ kk = k)
  BY <1>1, <1>4, <1>7, <1>8, MarkIs
<1>10. /\ done \in [0..(f.from.size - 1) -> Nat] /\ done[b] = f.done[b] + 1
       /\ \A a \in 0..(f.from.size - 1) : a # b => done[a] = f.done[a]
  <2> HIDE DEF b, p
  <2>1. f.done[b] + 1 \in Nat
    BY <1>1
  <2> QED BY <1>1, <1>2, <2>1
<1>11. g = [f EXCEPT !.to = to, !.done[b] = @ + 1]
  BY DEF Moved
<1>12. f = [from |-> f.from, done |-> f.done, to |-> f.to]
  BY <1>2 DEF Frame
<1> HIDE DEF to, b, g, p
<1>13. g.from = f.from /\ g.to = to /\ g.done = done
  BY <1>11, <1>12
<1>14. g = [from |-> f.from, done |-> done, to |-> to]
  <2>1. DOMAIN g = DOMAIN f /\ IsFunction(g)
    BY <1>11, <1>12 DEF IsFunction
  <2>2. DOMAIN f = {"from", "done", "to"}
    BY <1>12
  <2> HIDE DEF done
  <2> QED BY <1>13, <2>1, <2>2 DEF IsFunction
<1> HIDE DEF done
<1>15. g \in Frame
  <2>1. f.from.size \in Nat \ {0} /\ f.from \in Table
    BY <1>2, SoundIs DEF Sound
  <2>2. done \in UNION {[0..(n - 1) -> Nat] : n \in Nat \ {0}}
    BY <1>10, <2>1
  <2>3. to \in Table
    BY <1>9 DEF Sound
  <2> QED BY <1>14, <2>1, <2>2, <2>3 DEF Frame
<1>16. ASSUME NEW a \in 0..(f.from.size - 1)
       PROVE  done[a] <= Len(f.from.chain[a]) /\ 1..f.done[a] \subseteq 1..done[a]
  <2>1. f.done[a] \in Nat /\ done[a] \in Nat /\ f.done[a] <= Len(f.from.chain[a])
    BY <1>2, <1>10
  <2>2. CASE a = b
    <3>1. f.done[b] + 1 <= Len(f.from.chain[b])
      BY <1>1
    <3> QED BY <1>10, <2>1, <2>2, <3>1
  <2>3. CASE a # b
    <3>1. done[a] = f.done[a]
      BY <1>10, <2>3
    <3> QED BY <2>1, <3>1
  <2> QED BY <2>2, <2>3
<1>17. ASSUME NEW kk, NEW v
       PROVE  HasMoved(g, kk, v) <=> HasMoved(f, kk, v) \/ HasEntry(p, kk, v)
  <2>1. ASSUME HasMoved(f, kk, v) PROVE HasMoved(g, kk, v)
    <3>1. PICK a \in 0..(f.from.size - 1) : \E i \in 1..f.done[a] : HasEntry(f.from.chain[a][i], kk, v)
      BY <2>1 DEF HasMoved
    <3> QED BY <1>13, <1>16, <3>1 DEF HasMoved
  <2>2. ASSUME HasEntry(p, kk, v) PROVE HasMoved(g, kk, v)
    <3>1. f.done[b] + 1 \in 1..done[b]
      <4>1. f.done[b] \in Nat /\ done[b] = f.done[b] + 1
        BY <1>1, <1>10
      <4> QED BY <4>1
    <3> QED BY <1>1, <1>13, <2>2, <3>1 DEF HasMoved
  <2>3. ASSUME HasMoved(g, kk, v), ~HasEntry(p, kk, v) PROVE HasMoved(f, kk, v)
    <3>1. PICK a \in 0..(f.from.size - 1) : \E i \in 1..done[a] : HasEntry(f.from.chain[a][i], kk, v)
      BY <1>13, <2>3 DEF HasMoved
    <3>2. PICK i \in 1..done[a] : HasEntry(f.from.chain[a][i], kk, v)
      BY <3>1
    <3>3. i \in 1..f.done[a]
      <4>1. CASE a = b
        <5>1. i # f.done[b] + 1
          BY <1>1, <2>3, <3>2, <4>1
        <5>2. f.done[b] \in Nat /\ i \in 1..(f.done[b] + 1)
          BY <1>1, <1>10, <4>1
        <5> QED BY <4>1, <5>1, <5>2
      <4>2. CASE a # b
        BY <1>10, <4>2
      <4> QED BY <4>1, <4>2
    <3> QED BY <3>2, <3>3 DEF HasMoved
  <2> QED BY <2>1, <2>2, <2>3
<1>18. \A kk, v : HasEntry(p, kk, v) <=> ~p.free /\ kk = k /\ v = p.val
  BY DEF HasEntry
<1>19. \A kk \in Keys, v \in Stored : In(to, kk, v) <=> HasMoved(g, kk, v)
  <2> SUFFICES ASSUME NEW kk \in Keys, NEW v \in Stored PROVE In(to, kk, v) <=> HasMoved(g, kk, v)
    OBVIOUS
  <2>1. In(to, kk, v) <=> (In(f.to, kk, v) \/ (kk = k /\ v = p.val)) /\ ~(p.free /\ kk = k)
    BY <1>5, <1>9
  <2>2. HasMoved(g, kk, v) <=> In(f.to, kk, v) \/ (~p.free /\ kk = k /\ v = p.val)
    BY <1>2, <1>17, <1>18
  <2>3. kk = k => ~In(f.to, kk, v)
    BY <1>3
  <2> QED BY <2>1, <2>2, <2>3
<1>20. to.size >= 2 * f.from.size
  BY <1>9
<1>21. Growth(g)
  BY <1>2, <1>9, <1>10, <1>13, <1>15, <1>16, <1>19, <1>20 DEF Growth
<1> QED BY <1>13, <1>21 DEF g
-----------------------------------------------------------------------------
(* Keys in use, counted                                                    *)

\* One key more.
LEMMA CountsMore ==
  ASSUME NEW t, CountsKeys(t), NEW k \in Keys, NEW v \in Stored, \A vv : ~In(t, k, vv),
         NEW u, Adds(t, u, k, v), u.count - u.freecount = t.count - t.freecount + 1
  PROVE  CountsKeys(u)
<1>1. LiveKeys(u) = LiveKeys(t) \cup {k} /\ k \notin LiveKeys(t)
  BY DEF LiveKeys, Adds
<1>2. IsFiniteSet(LiveKeys(t)) /\ Cardinality(LiveKeys(t)) = t.count - t.freecount
  BY DEF CountsKeys
<1>3. IsFiniteSet(LiveKeys(u)) /\ Cardinality(LiveKeys(u)) = Cardinality(LiveKeys(t)) + 1
  BY <1>1, <1>2, FS_AddElement
<1> QED BY <1>2, <1>3 DEF CountsKeys

\* The same keys.
LEMMA CountsSame ==
  ASSUME NEW t, CountsKeys(t), NEW u, u.count - u.freecount = t.count - t.freecount,
         \A k \in Keys : (\E v \in Stored : In(u, k, v)) <=> (\E v \in Stored : In(t, k, v))
  PROVE  CountsKeys(u)
<1>1. LiveKeys(u) = LiveKeys(t)
  BY DEF LiveKeys
<1> QED BY <1>1 DEF CountsKeys

\* One key less.
LEMMA CountsLess ==
  ASSUME NEW t, CountsKeys(t), NEW k \in Keys, NEW v \in Stored, In(t, k, v),
         NEW u, u.count - u.freecount = t.count - t.freecount - 1,
         \A kk \in Keys, vv \in Stored : In(u, kk, vv) <=> kk # k /\ In(t, kk, vv)
  PROVE  CountsKeys(u)
<1>1. LiveKeys(u) = LiveKeys(t) \ {k} /\ k \in LiveKeys(t)
  BY DEF LiveKeys
<1>2. IsFiniteSet(LiveKeys(t)) /\ Cardinality(LiveKeys(t)) = t.count - t.freecount
  BY DEF CountsKeys
<1>3. IsFiniteSet(LiveKeys(u)) /\ Cardinality(LiveKeys(u)) = Cardinality(LiveKeys(t)) - 1
  BY <1>1, <1>2, FS_RemoveElement
<1> QED BY <1>2, <1>3 DEF CountsKeys

\* No key at all.
LEMMA CountsNone ==
  ASSUME NEW t, t.count - t.freecount = 0, \A k \in Keys, v \in Stored : ~In(t, k, v)
  PROVE  CountsKeys(t)
<1>1. LiveKeys(t) = {}
  BY DEF LiveKeys
<1> QED BY <1>1, FS_EmptySet DEF CountsKeys

\* The number of items in use is that of the keys: hget is a bijection.
LEMMA LiveCount ==
  ASSUME NEW t, Sound(t), CountsKeys(t)
  PROVE  IsFiniteSet(Live(t)) /\ Cardinality(Live(t)) = t.count - t.freecount
<1> DEFINE K == LiveKeys(t)
           at == [k \in K |-> <<Bucket(t, k), hget(t, k)>>]
<1>0. /\ t.size \in Nat \ {0} /\ t.chain \in [0..(t.size - 1) -> Seq(ItemType)]
  BY SoundIs
<1>1. Live(t) = UNION {{<<b, i>> : i \in {i \in DOMAIN t.chain[b] : ~t.chain[b][i].free}} :
                       b \in 0..(t.size - 1)}
  BY <1>0 DEF Live
<1>2. ASSUME NEW b \in 0..(t.size - 1), NEW i \in 1..Len(t.chain[b]), ~t.chain[b][i].free
      PROVE  <<b, i>> \in Live(t)
  <2>1. i \in {j \in DOMAIN t.chain[b] : ~t.chain[b][j].free}
    BY <1>0, <1>2
  <2>2. <<b, i>> \in {<<b, j>> : j \in {j \in DOMAIN t.chain[b] : ~t.chain[b][j].free}}
    BY <2>1
  <2> QED BY <1>1, <2>2
<1>3. ASSUME NEW x \in Live(t)
      PROVE  \E b \in 0..(t.size - 1) : \E i \in 1..Len(t.chain[b]) : x = <<b, i>> /\ ~t.chain[b][i].free
  <2>1. PICK b \in 0..(t.size - 1) : x \in {<<b, j>> : j \in {j \in DOMAIN t.chain[b] : ~t.chain[b][j].free}}
    BY <1>1
  <2>2. DOMAIN t.chain[b] = 1..Len(t.chain[b])
    BY <1>0
  <2> QED BY <2>1, <2>2
<1>4. ASSUME NEW k \in K
      PROVE  /\ k \in Keys /\ hget(t, k) # 0 /\ Bucket(t, k) \in 0..(t.size - 1)
             /\ hget(t, k) \in 1..Len(t.chain[Bucket(t, k)])
             /\ ~t.chain[Bucket(t, k)][hget(t, k)].free
             /\ t.chain[Bucket(t, k)][hget(t, k)].key = k
  <2>1. k \in Keys /\ \E v : In(t, k, v)
    BY DEF LiveKeys
  <2>2. hget(t, k) # 0
    BY <2>1, GetIs
  <2> QED BY <2>1, <2>2, GetIs
<1>5. \A k \in K : at[k] \in Live(t)
  BY <1>2, <1>4
<1>6. \A k, l \in K : at[k] = at[l] => k = l
  <2> SUFFICES ASSUME NEW k \in K, NEW l \in K, at[k] = at[l] PROVE k = l
    OBVIOUS
  <2>1. Bucket(t, k) = Bucket(t, l) /\ hget(t, k) = hget(t, l)
    OBVIOUS
  <2>2. /\ t.chain[Bucket(t, k)][hget(t, k)].key = k
        /\ t.chain[Bucket(t, l)][hget(t, l)].key = l
    BY <1>4
  <2> QED BY <2>1, <2>2
<1>7. ASSUME NEW x \in Live(t) PROVE \E k \in K : at[k] = x
  <2>1. PICK b \in 0..(t.size - 1) : \E i \in 1..Len(t.chain[b]) : x = <<b, i>> /\ ~t.chain[b][i].free
    BY <1>3
  <2>2. PICK i \in 1..Len(t.chain[b]) : x = <<b, i>> /\ ~t.chain[b][i].free
    BY <2>1
  <2> DEFINE k == t.chain[b][i].key
             v == t.chain[b][i].val
  <2>3. k \in Keys /\ t.chain[b][i] \in ItemType
    BY <2>2, ItemIs
  <2>4. v \in Stored
    BY <2>3 DEF ItemType
  <2>5. In(t, k, v)
    BY <2>2 DEF In, Among, HasEntry
  <2>6. k \in K
    BY <2>3, <2>4, <2>5 DEF LiveKeys
  <2>7. hget(t, k) # 0
    BY <2>3, <2>5, GetIs
  <2>8. b = Bucket(t, k) /\ i = hget(t, k)
    BY <2>2, <2>3, <2>7, FoundIs
  <2> HIDE DEF k
  <2> QED BY <2>2, <2>6, <2>8
<1>8. ExistsBijection(K, Live(t))
  <2>1. at \in [K -> Live(t)]
    BY <1>5
  <2>2. at \in Bijection(K, Live(t))
    <3> HIDE DEF at, K
    <3> QED BY <1>6, <1>7, <2>1, Fun_IsBij
  <2> QED BY <2>2 DEF ExistsBijection
<1>9. IsFiniteSet(K) /\ Cardinality(K) = t.count - t.freecount
  BY DEF CountsKeys
<1> HIDE DEF K
<1> QED BY <1>8, <1>9, FS_Bijection
-----------------------------------------------------------------------------
(* The calls under way                                                     *)

\* No call is under way.
LEMMA StackEmpty ==
  ASSUME NEW t PROVE StackOK(t, <<>>)
BY DEF StackOK

\* A SET has made the table grow.
LEMMA StackOne ==
  ASSUME NEW t, NEW g, Growth(g), Started(t, g.from)
  PROVE  StackOK(t, <<g>>)
<1> DEFINE s == <<g>>
<1>1. g \in Frame
  BY DEF Growth
<1>2. s \in Seq(Frame) /\ Len(s) = 1 /\ s[1] = g
  BY <1>1
<1> HIDE DEF s
<1> QED BY <1>2 DEF StackOK, s

\* The innermost call has moved an item.
LEMMA StackTop ==
  ASSUME NEW t, NEW s, StackOK(t, s), s # <<>>,
         NEW g, Growth(g), g.from = s[Len(s)].from
  PROVE  StackOK(t, [s EXCEPT ![Len(s)] = g])
<1> DEFINE n == Len(s)
           u == [s EXCEPT ![n] = g]
<1>1. s \in Seq(Frame) /\ g \in Frame
  BY DEF StackOK, Growth
<1>2. n \in Nat \ {0}
  BY <1>1
<1>3. u \in Seq(Frame) /\ Len(u) = n /\ u[n] = g /\ \A m \in 1..n : m # n => u[m] = s[m]
  BY <1>1, <1>2
<1>4. /\ \A m \in 1..n : Growth(s[m])
      /\ \A m \in 2..n : Within(s[m - 1], s[m])
      /\ Started(t, s[1].from)
  BY DEF StackOK
<1> HIDE DEF u, n
<1>5. \A m \in 1..n : Growth(u[m])
  BY <1>3, <1>4
<1>6. ASSUME NEW m \in 2..n PROVE Within(u[m - 1], u[m])
  <2>1. u[m - 1] = s[m - 1] /\ m \in 1..n
    BY <1>2, <1>3
  <2>2. u[m].from = s[m].from
    BY <1>3, <2>1 DEF n
  <2> QED BY <1>4, <2>1, <2>2 DEF Within
<1>7. u[1].from = s[1].from
  BY <1>2, <1>3 DEF n
<1>8. StackOK(t, u)
  BY <1>3, <1>4, <1>5, <1>6, <1>7 DEF StackOK
<1> QED BY <1>8 DEF u, n

\* The new table of the innermost call has to grow.
LEMMA StackPush ==
  ASSUME NEW t, NEW s, StackOK(t, s), s # <<>>, NEW g, Growth(g), Within(s[Len(s)], g)
  PROVE  StackOK(t, Append(s, g))
<1> DEFINE n == Len(s)
           u == Append(s, g)
<1>1. s \in Seq(Frame) /\ g \in Frame
  BY DEF StackOK, Growth
<1>2. n \in Nat \ {0}
  BY <1>1
<1>3. u \in Seq(Frame) /\ Len(u) = n + 1 /\ u[n + 1] = g /\ \A m \in 1..n : u[m] = s[m]
  BY <1>1, <1>2
<1>4. /\ \A m \in 1..n : Growth(s[m])
      /\ \A m \in 2..n : Within(s[m - 1], s[m])
      /\ Started(t, s[1].from)
  BY DEF StackOK
<1>a. Within(s[n], g)
  OBVIOUS
<1> HIDE DEF u, n
<1>5. \A m \in 1..(n + 1) : Growth(u[m])
  <2> SUFFICES ASSUME NEW m \in 1..(n + 1) PROVE Growth(u[m])
    OBVIOUS
  <2>1. m \in 1..n \/ m = n + 1
    BY <1>2
  <2> QED BY <1>3, <1>4, <2>1
<1>6. ASSUME NEW m \in 2..(n + 1) PROVE Within(u[m - 1], u[m])
  <2>1. CASE m = n + 1
    <3>1. u[m - 1] = s[n] /\ u[m] = g
      BY <1>2, <1>3, <2>1
    <3> QED BY <1>a, <3>1
  <2>2. CASE m # n + 1
    <3>1. m \in 2..n /\ u[m - 1] = s[m - 1] /\ u[m] = s[m]
      BY <1>2, <1>3, <2>2
    <3> QED BY <1>4, <3>1
  <2> QED BY <2>1, <2>2
<1>7. u[1] = s[1]
  BY <1>2, <1>3
<1>8. StackOK(t, u)
  BY <1>3, <1>4, <1>5, <1>6, <1>7 DEF StackOK
<1> QED BY <1>8 DEF u, n

\* A call within another one has returned.
LEMMA StackPop ==
  ASSUME NEW t, NEW s, StackOK(t, s), Len(s) > 1,
         NEW g, Growth(g), g.from = s[Len(s) - 1].from
  PROVE  StackOK(t, [i \in 1..(Len(s) - 1) |-> IF i = Len(s) - 1 THEN g ELSE s[i]])
<1> DEFINE n == Len(s) - 1
           u == [i \in 1..n |-> IF i = n THEN g ELSE s[i]]
<1>1. s \in Seq(Frame) /\ g \in Frame
  BY DEF StackOK, Growth
<1>2. n \in Nat \ {0} /\ Len(s) = n + 1
  <2> DEFINE l == Len(s)
  <2>1. l \in Nat /\ l > 1
    BY <1>1
  <2> HIDE DEF l
  <2>2. l - 1 \in Nat \ {0} /\ l = (l - 1) + 1
    BY <2>1
  <2> QED BY <2>2 DEF l
<1>3. u \in Seq(Frame) /\ Len(u) = n /\ u[n] = g /\ \A m \in 1..n : m # n => u[m] = s[m]
  <2>1. \A m \in 1..n : s[m] \in Frame
    BY <1>1, <1>2
  <2> HIDE DEF n
  <2>2. u \in [1..n -> Frame]
    BY <1>1, <2>1
  <2>3. u \in Seq(Frame) /\ Len(u) = n
    BY <1>2, <2>2
  <2> QED BY <1>2, <2>3
<1>4. /\ \A m \in 1..(n + 1) : Growth(s[m])
      /\ \A m \in 2..(n + 1) : Within(s[m - 1], s[m])
      /\ Started(t, s[1].from)
  BY <1>2 DEF StackOK
<1>a. g.from = s[n].from
  OBVIOUS
<1> HIDE DEF u, n
<1>5. \A m \in 1..n : Growth(u[m])
  BY <1>2, <1>3, <1>4
<1>6. ASSUME NEW m \in 2..n PROVE Within(u[m - 1], u[m])
  <2>1. u[m - 1] = s[m - 1] /\ m \in 1..n /\ m \in 2..(n + 1)
    BY <1>2, <1>3
  <2>2. u[m].from = s[m].from
    BY <1>3, <1>a, <2>1
  <2> QED BY <1>4, <2>1, <2>2 DEF Within
<1>7. u[1].from = s[1].from
  BY <1>2, <1>3, <1>a
<1>8. StackOK(t, u)
  BY <1>3, <1>4, <1>5, <1>6, <1>7 DEF StackOK
<1> QED BY <1>8 DEF u, n
-----------------------------------------------------------------------------
(* The operations, on a table between two commands                         *)

\* The value hget comes to is the one the table holds for the key.
LEMMA ValueIs ==
  ASSUME NEW t, Sound(t), NEW k \in Keys, hget(t, k) # 0
  PROVE  LET it == t.chain[Bucket(t, k)][hget(t, k)] IN
         /\ it \in ItemType /\ Fits(it) /\ Empty(it) /\ ~it.free /\ it.key = k
         /\ In(t, k, it.val) /\ \A v : In(t, k, v) => v = it.val
<1> DEFINE b == Bucket(t, k)
           i == hget(t, k)
           it == t.chain[b][i]
<1>1. /\ b \in 0..(t.size - 1) /\ i \in 1..Len(t.chain[b]) /\ ~it.free /\ it.key = k
      /\ \A a \in 0..(t.size - 1) : \A j \in 1..Len(t.chain[a]) :
           ~t.chain[a][j].free /\ t.chain[a][j].key = k => a = b /\ j = i
  <2>1. b \in 0..(t.size - 1) /\ i \in 1..Len(t.chain[b])
    BY GetIs
  <2>2. ~it.free
    BY GetIs
  <2>3. it.key = k
    BY GetIs
  <2>4. \A a \in 0..(t.size - 1) : \A j \in 1..Len(t.chain[a]) :
          ~t.chain[a][j].free /\ t.chain[a][j].key = k => a = b /\ j = i
    BY FoundIs
  <2> QED BY <2>1, <2>2, <2>3, <2>4
<1>2. it \in ItemType /\ Fits(it) /\ Empty(it)
  BY <1>1, ItemIs
<1>3. \A v : In(t, k, v) => v = it.val
  BY <1>1 DEF In, Among, HasEntry
<1>4. In(t, k, it.val)
  BY <1>1 DEF In, Among, HasEntry
<1> QED BY <1>1, <1>2, <1>3, <1>4

\* The table at the start.
LEMMA InitOK == TableOK(htcreate(2^logsize))
<1> DEFINE s == 2^logsize
           t == htcreate(s)
<1>1. s \in Nat \ {0}
  BY SizeAssumption
<1> HIDE DEF s
<1>2. /\ Sound(t) /\ t.size = s /\ t.count = 0 /\ t.freecount = 0
      /\ \A k, v : ~In(t, k, v)
  BY <1>1, CreateIs
<1> HIDE DEF t
<1>3. CountsKeys(t)
  BY <1>2, CountsNone
<1>4. ~Overloaded(t)
  BY <1>1, <1>2 DEF Overloaded
<1>5. TableOK(t)
  BY <1>2, <1>3, <1>4 DEF TableOK
<1> QED BY <1>5 DEF t, s

\* A key that is there gets another value.
LEMMA ReplaceIs ==
  ASSUME NEW t, TableOK(t), NEW k \in Keys, NEW v \in Vals, hget(t, k) # 0
  PROVE  LET u == [t EXCEPT !.chain[Bucket(t, k)][hget(t, k)].val = v] IN
         TableOK(u) /\ \A kk, vv : In(u, kk, vv) <=> (kk = k /\ vv = v) \/ (kk # k /\ In(t, kk, vv))
<1> DEFINE b == Bucket(t, k)
           c == t.chain[b]
           i == hget(t, k)
           old == c[i]
           it == [old EXCEPT !.val = v]
           w == [t EXCEPT !.chain[b][i].val = v]
<1>a. Sound(t) /\ CountsKeys(t)
  BY DEF TableOK
<1>b. \A kk \in Keys, vv \in Stored : In(t, kk, vv) => vv \in Vals
  BY DEF TableOK
<1>0. /\ IsTable(t) /\ t.size \in Nat \ {0} /\ t.count \in Int /\ t.freecount \in Int
      /\ t.chain \in [0..(t.size - 1) -> Seq(ItemType)]
  BY <1>a, SoundIs
<1>1. b \in 0..(t.size - 1) /\ i \in 1..Len(c)
  BY <1>a, GetIs
<1>2. old \in ItemType /\ Fits(old) /\ ~old.free /\ old.key = k /\ In(t, k, old.val) /\ old.val \in Stored
  BY <1>a, ValueIs DEF ItemType
<1>5. w = Written(t, b, [c EXCEPT ![i] = it], t.count, t.freecount)
  <2>1. w.size = t.size /\ w.count = t.count /\ w.freecount = t.freecount
    BY <1>0 DEF IsTable
  <2>2. w.chain = [t.chain EXCEPT ![b] = [c EXCEPT ![i] = it]]
    BY <1>0 DEF IsTable
  <2>3. DOMAIN w = DOMAIN t /\ IsFunction(w)
    BY <1>0 DEF IsFunction, IsTable
  <2>4. IsTable(t)
    BY <1>0
  <2> DEFINE new == [c EXCEPT ![i] = it]
  <2> HIDE DEF w, it, c, b, i, old
  <2>5. w.chain = [t.chain EXCEPT ![b] = new]
    BY <2>2
  <2> HIDE DEF new
  <2>6. WrittenAs(t, b, new, t.count, t.freecount, w)
    BY <2>1, <2>3, <2>4, <2>5 DEF WrittenAs
  <2>7. w = Written(t, b, new, t.count, t.freecount)
    BY <2>6, WrittenEq
  <2> QED BY <2>7 DEF new
<1> HIDE DEF w, old
<1>7. it \in ItemType /\ Fits(it) /\ Empty(it) /\ it.key = k /\ ~it.free /\ it.val = v
  BY <1>2 DEF ItemType, Fits, Empty, Stored
<1> HIDE DEF it, b, c, i
<1>8. /\ Sound(w) /\ w.size = t.size /\ w.count = t.count /\ w.freecount = t.freecount
      /\ \A kk, vv : In(w, kk, vv) <=> HasEntry(it, kk, vv) \/ (kk # k /\ In(t, kk, vv))
  <2>1. t.count \in Int /\ t.freecount \in Int
    BY <1>0
  <2> QED BY <1>a, <1>5, <1>7, <2>1, RewriteIs DEF b, c, i
<1>9. \A kk, vv : In(w, kk, vv) <=> (kk = k /\ vv = v) \/ (kk # k /\ In(t, kk, vv))
  BY <1>7, <1>8 DEF HasEntry
<1>10. CountsKeys(w)
  <2>1. \A kk \in Keys : (\E vv \in Stored : In(w, kk, vv)) <=> (\E vv \in Stored : In(t, kk, vv))
    BY <1>2, <1>9 DEF Stored
  <2>2. w.count - w.freecount = t.count - t.freecount
    BY <1>8
  <2> QED BY <1>a, <2>1, <2>2, CountsSame
<1>11. "create" \notin Sites => ~Overloaded(w)
  BY <1>8 DEF TableOK, Overloaded
<1>12. \A kk \in Keys, vv \in Stored : In(w, kk, vv) => vv \in Vals
  BY <1>b, <1>9
<1>13. TableOK(w)
  BY <1>8, <1>10, <1>11, <1>12 DEF TableOK
<1> QED BY <1>9, <1>13 DEF w, b, i

\* The item of a key is marked free, and counted.
LEMMA DeleteIs ==
  ASSUME NEW t, TableOK(t), NEW k \in Keys, hget(t, k) # 0
  PROVE  LET u == [t EXCEPT !.chain[Bucket(t, k)][hget(t, k)] = Emptied(@), !.freecount = hfree(t, 1)] IN
         TableOK(u) /\ \A kk, vv : In(u, kk, vv) <=> kk # k /\ In(t, kk, vv)
<1> DEFINE b == Bucket(t, k)
           c == t.chain[b]
           i == hget(t, k)
           old == c[i]
           it == Emptied(old)
           w == [t EXCEPT !.chain[b][i] = Emptied(@), !.freecount = hfree(t, 1)]
<1>a. Sound(t) /\ CountsKeys(t)
  BY DEF TableOK
<1>b. \A kk \in Keys, vv \in Stored : In(t, kk, vv) => vv \in Vals
  BY DEF TableOK
<1>0. /\ IsTable(t) /\ t.size \in Nat \ {0} /\ t.count \in Int /\ t.freecount \in Int
      /\ t.chain \in [0..(t.size - 1) -> Seq(ItemType)]
  BY <1>a, SoundIs
<1>1. b \in 0..(t.size - 1) /\ i \in 1..Len(c)
  BY <1>a, GetIs
<1>2. old \in ItemType /\ Fits(old) /\ ~old.free /\ old.key = k /\ In(t, k, old.val) /\ old.val \in Stored
  BY <1>a, ValueIs DEF ItemType
<1>5. w = Written(t, b, [c EXCEPT ![i] = it], t.count, t.freecount + 1)
  <2>1. w.size = t.size /\ w.count = t.count /\ w.freecount = t.freecount + 1
    BY <1>0 DEF IsTable, hfree
  <2> DEFINE new == [c EXCEPT ![i] = it]
  <2>2. w.chain = [t.chain EXCEPT ![b] = new]
    BY <1>0 DEF IsTable
  <2>3. DOMAIN w = DOMAIN t /\ IsFunction(w)
    BY <1>0 DEF IsFunction, IsTable
  <2>4. IsTable(t)
    BY <1>0
  <2> HIDE DEF w, b, new
  <2>5. WrittenAs(t, b, new, t.count, t.freecount + 1, w)
    BY <2>4, <2>1, <2>2, <2>3 DEF WrittenAs
  <2>6. w = Written(t, b, new, t.count, t.freecount + 1)
    BY <2>5, WrittenEq
  <2> QED BY <2>6 DEF new
<1> HIDE DEF w, old
<1>7. it \in ItemType /\ Fits(it) /\ Empty(it) /\ it.key = k /\ it.free
  BY <1>2 DEF Emptied, ItemType, Fits, Empty, Stored
<1> HIDE DEF it, b, c, i
<1>c. t.freecount + 1 \in Int
  BY <1>0
<1>8. /\ Sound(w) /\ w.size = t.size /\ w.count = t.count /\ w.freecount = t.freecount + 1
      /\ \A kk, vv : In(w, kk, vv) <=> HasEntry(it, kk, vv) \/ (kk # k /\ In(t, kk, vv))
  <2>1. t.count \in Int
    BY <1>0
  <2> QED BY <1>a, <1>c, <1>5, <1>7, <2>1, RewriteIs DEF b, c, i
<1>9. \A kk, vv : In(w, kk, vv) <=> kk # k /\ In(t, kk, vv)
  BY <1>7, <1>8 DEF HasEntry
<1>10. CountsKeys(w)
  <2>1. w.count - w.freecount = t.count - t.freecount - 1
    BY <1>0, <1>8
  <2> QED BY <1>a, <1>2, <1>9, <2>1, CountsLess
<1>11. "create" \notin Sites => ~Overloaded(w)
  <2>1. "create" \notin Sites => ~Overloaded(t)
    BY DEF TableOK
  <2>2. ~Overloaded(t) => ~Overloaded(w)
    BY <1>0, <1>8 DEF Overloaded
  <2> QED BY <2>1, <2>2
<1>12. \A kk \in Keys, vv \in Stored : In(w, kk, vv) => vv \in Vals
  BY <1>b, <1>9
<1>13. TableOK(w)
  BY <1>8, <1>10, <1>11, <1>12 DEF TableOK
<1> QED BY <1>9, <1>13 DEF w, b, i

\* A new key: an error leaves the entries as they are, else there is one more.
LEMMA AddIs ==
  ASSUME NEW t, TableOK(t), NEW k \in Keys, NEW v \in Vals, NEW site,
         hget(t, k) = 0, ~NullCompared(t, k)
  PROVE  LET r == Insert(t, k, v, site) IN
         /\ r.res # "HSUCCESS" => TableOK(r.tab) /\ \A kk, vv : In(r.tab, kk, vv) <=> In(t, kk, vv)
         /\ r.res = "HSUCCESS" =>
              /\ Sound(r.tab) /\ Started(t, r.tab) /\ (~Overloaded(r.tab) => TableOK(r.tab))
              /\ \A kk, vv : In(r.tab, kk, vv) <=> In(t, kk, vv) \/ (kk = k /\ vv = v)
<1> DEFINE r == Insert(t, k, v, site)
           u == r.tab
<1>1. Sound(t) /\ CountsKeys(t) /\ v \in Stored
  BY DEF TableOK, Stored
<1>2. \A kk \in Keys, vv \in Stored : In(t, kk, vv) => vv \in Vals
  BY DEF TableOK
<1>3. /\ Sound(u) /\ u.size = t.size
      /\ r.res = "HSUCCESS" => /\ u.count - u.freecount = t.count - t.freecount + 1
                               /\ \A kk, vv : In(u, kk, vv) <=> In(t, kk, vv) \/ (kk = k /\ vv = v)
      /\ r.res # "HSUCCESS" => /\ u.count - u.freecount = t.count - t.freecount
                               /\ \A kk, vv : In(u, kk, vv) <=> In(t, kk, vv)
  BY <1>1, InsertIs
<1> HIDE DEF r
<1>4. CASE r.res # "HSUCCESS"
  <2>1. \A kk, vv : In(u, kk, vv) <=> In(t, kk, vv)
    BY <1>3, <1>4
  <2>2. CountsKeys(u)
    BY <1>1, <1>3, <1>4, <2>1, CountsSame
  <2>3. "create" \notin Sites => ~Overloaded(u)
    BY <1>3, <1>4 DEF TableOK, Overloaded
  <2>4. TableOK(u)
    BY <1>2, <1>3, <2>1, <2>2, <2>3 DEF TableOK
  <2> QED BY <1>4, <2>1, <2>4 DEF r
<1>5. CASE r.res = "HSUCCESS"
  <2>1. \A kk, vv : In(u, kk, vv) <=> In(t, kk, vv) \/ (kk = k /\ vv = v)
    BY <1>3, <1>5
  <2>2. Adds(t, u, k, v)
    BY <2>1 DEF Adds
  <2>3. \A vv : ~In(t, k, vv)
    BY <1>1, GetIs
  <2>4. u.count - u.freecount = t.count - t.freecount + 1
    BY <1>3, <1>5
  <2>5. CountsKeys(u)
    BY <1>1, <2>2, <2>3, <2>4, CountsMore
  <2>6. Started(t, u)
    BY <1>3, <2>2, <2>4, <2>5 DEF Started
  <2>7. \A kk \in Keys, vv \in Stored : In(u, kk, vv) => vv \in Vals
    BY <1>2, <2>1
  <2>8. ~Overloaded(u) => TableOK(u)
    BY <1>3, <2>5, <2>7 DEF TableOK
  <2> QED BY <1>3, <1>5, <2>1, <2>6, <2>8 DEF r
<1> QED BY <1>4, <1>5

\* A call that has nothing left has moved every entry.
LEMMA LeftNone ==
  ASSUME NEW f, Growth(f), Left(f) = {}
  PROVE  /\ Sound(Keeps(f.from, f.to)) /\ Keeps(f.from, f.to).size = f.to.size
         /\ Keeps(f.from, f.to).count = f.from.count /\ Keeps(f.from, f.to).freecount = f.from.freecount
         /\ \A k \in Keys, v \in Stored : In(Keeps(f.from, f.to), k, v) <=> In(f.from, k, v)
<1> DEFINE t == f.from
           g == f.to
           u == Keeps(t, g)
<1>1. /\ Sound(t) /\ Sound(g) /\ f.done \in [0..(t.size - 1) -> Nat]
      /\ \A b \in 0..(t.size - 1) : f.done[b] <= Len(t.chain[b])
      /\ \A k \in Keys, v \in Stored : In(g, k, v) <=> HasMoved(f, k, v)
  BY DEF Growth
<1>2. t.chain \in [0..(t.size - 1) -> Seq(ItemType)]
  BY <1>1, SoundIs
<1>3. \A b \in 0..(t.size - 1) : ~(f.done[b] < Len(t.chain[b]))
  BY <1>2 DEF Left
<1>4. \A b \in 0..(t.size - 1) : f.done[b] = Len(t.chain[b])
  <2> SUFFICES ASSUME NEW b \in 0..(t.size - 1) PROVE f.done[b] = Len(t.chain[b])
    OBVIOUS
  <2> DEFINE d == f.done[b]
             l == Len(t.chain[b])
  <2>1. d \in Nat /\ d <= l
    BY <1>1
  <2>2. l \in Nat
    BY <1>2
  <2>3. ~(d < l)
    BY <1>3
  <2> HIDE DEF d, l
  <2>4. d = l
    BY <2>1, <2>2, <2>3
  <2> QED BY <2>4 DEF d, l
<1>5. /\ Sound(u) /\ u.size = g.size /\ u.count = t.count /\ u.freecount = t.freecount
      /\ \A k, v : In(u, k, v) <=> In(g, k, v)
  BY <1>1, KeepsIs
<1>6. \A k, v : HasMoved(f, k, v) <=> In(t, k, v)
  BY <1>4 DEF HasMoved, In, Among
<1> HIDE DEF u
<1>7. \A k \in Keys, v \in Stored : In(u, k, v) <=> In(t, k, v)
  BY <1>1, <1>5, <1>6
<1> QED BY <1>5, <1>7 DEF u

\* The table that has grown holds what the SET has put into it, and is not overloaded.
LEMMA GrownIs ==
  ASSUME NEW t, TableOK(t), NEW f, Growth(f), Started(t, f.from), Left(f) = {}
  PROVE  TableOK(Keeps(f.from, f.to))
<1> DEFINE o == f.from
           u == Keeps(o, f.to)
<1>1. /\ Sound(u) /\ u.size = f.to.size /\ u.count = o.count /\ u.freecount = o.freecount
      /\ \A k \in Keys, v \in Stored : In(u, k, v) <=> In(o, k, v)
  BY LeftNone
<1> HIDE DEF u
<1>2. CountsKeys(o) /\ o.size = t.size /\ o.count - o.freecount = t.count - t.freecount + 1
  BY DEF Started
<1>3. CountsKeys(u)
  <2>1. u.count - u.freecount = o.count - o.freecount
    BY <1>1
  <2>2. \A k \in Keys : (\E v \in Stored : In(u, k, v)) <=> (\E v \in Stored : In(o, k, v))
    BY <1>1
  <2> QED BY <1>2, <2>1, <2>2, CountsSame
<1>4. \A k \in Keys, v \in Stored : In(u, k, v) => v \in Vals
  <2>1. PICK kk \in Keys, vv \in Vals : Adds(t, o, kk, vv)
    BY DEF Started
  <2>2. \A k \in Keys, v \in Stored : In(t, k, v) => v \in Vals
    BY DEF TableOK
  <2> QED BY <1>1, <2>1, <2>2 DEF Adds
<1>5. ASSUME "create" \notin Sites PROVE ~Overloaded(u)
  <2>1. ~Overloaded(t) /\ Sound(t)
    BY <1>5 DEF TableOK
  <2>2. t.size \in Nat \ {0} /\ t.count \in Int /\ t.freecount \in Int
    BY <2>1, SoundIs
  <2>3. f.to.size >= 2 * t.size /\ f.to.size \in Nat
    BY <1>2, SoundIs DEF Growth
  <2>4. ~(4 * (t.count - t.freecount) >= 3 * t.size)
    BY <2>1 DEF Overloaded
  <2>5. u.count - u.freecount = t.count - t.freecount + 1
    BY <1>1, <1>2
  <2>6. ~(4 * (u.count - u.freecount) >= 3 * f.to.size)
    <3> DEFINE n == t.count - t.freecount
               m == u.count - u.freecount
               s == t.size
               z == f.to.size
    <3>1. n \in Int /\ s \in Nat \ {0} /\ z \in Nat /\ z >= 2 * s /\ ~(4 * n >= 3 * s) /\ m = n + 1
      BY <2>2, <2>3, <2>4, <2>5
    <3> HIDE DEF n, m, s, z
    <3>2. ~(4 * m >= 3 * z)
      BY <3>1
    <3> QED BY <3>2 DEF m, z
  <2> QED BY <1>1, <2>6 DEF Overloaded
<1>6. TableOK(u)
  BY <1>1, <1>3, <1>4, <1>5 DEF TableOK
<1> QED BY <1>6 DEF u

\* FLUSH_ALL leaves no entry, and counts every item as free.
LEMMA FlushIs ==
  ASSUME NEW t, TableOK(t)
  PROVE  LET u == [t EXCEPT
               !.chain = [b \in DOMAIN t.chain |-> [i \in DOMAIN t.chain[b] |-> Emptied(t.chain[b][i])]],
               !.freecount = hfree(t, Cardinality(Live(t)))]
         IN  TableOK(u) /\ \A kk, vv : ~In(u, kk, vv)
<1> DEFINE c == [b \in DOMAIN t.chain |-> [i \in DOMAIN t.chain[b] |-> Emptied(t.chain[b][i])]]
           n == hfree(t, Cardinality(Live(t)))
           u == [t EXCEPT !.chain = c, !.freecount = n]
<1>1. Sound(t) /\ CountsKeys(t)
  BY DEF TableOK
<1>2. /\ IsTable(t) /\ t.size \in Nat \ {0} /\ t.count \in Int /\ t.freecount \in Int
      /\ t.chain \in [0..(t.size - 1) -> Seq(ItemType)]
  BY <1>1, SoundIs
<1>3. n = t.count
  <2>1. Cardinality(Live(t)) = t.count - t.freecount
    BY <1>1, LiveCount
  <2> QED BY <1>2, <2>1 DEF hfree
<1>4. /\ DOMAIN c = 0..(t.size - 1)
      /\ \A b \in 0..(t.size - 1) : c[b] = [i \in 1..Len(t.chain[b]) |-> Emptied(t.chain[b][i])]
  <2>1. DOMAIN t.chain = 0..(t.size - 1) /\ DOMAIN c = DOMAIN t.chain
    BY <1>2
  <2>2. \A b \in 0..(t.size - 1) : DOMAIN t.chain[b] = 1..Len(t.chain[b])
    BY <1>2
  <2>3. \A b \in DOMAIN t.chain : c[b] = [i \in DOMAIN t.chain[b] |-> Emptied(t.chain[b][i])]
    OBVIOUS
  <2> HIDE DEF c
  <2> QED BY <2>1, <2>2, <2>3
<1> HIDE DEF c, n
<1>5. ASSUME NEW b \in 0..(t.size - 1)
      PROVE  /\ c[b] \in Seq(ItemType) /\ GoodChain(c[b])
             /\ \A i \in 1..Len(c[b]) :
                  c[b][i].free /\ (c[b][i].key # NULL => Bucket(t, c[b][i].key) = b)
  <2> DEFINE l == Len(t.chain[b])
  <2>1. l \in Nat
    BY <1>2
  <2>2. ASSUME NEW i \in 1..l
        PROVE  /\ Emptied(t.chain[b][i]) \in ItemType /\ Emptied(t.chain[b][i]).free
               /\ Fits(Emptied(t.chain[b][i])) /\ Empty(Emptied(t.chain[b][i]))
               /\ Emptied(t.chain[b][i]).key = t.chain[b][i].key
               /\ t.chain[b][i].key # NULL => Bucket(t, t.chain[b][i].key) = b
    <3> DEFINE old == t.chain[b][i]
    <3>1. old \in ItemType /\ Fits(old) /\ (old.key # NULL => Bucket(t, old.key) = b)
      BY <1>1, ItemIs
    <3> HIDE DEF old
    <3>2. /\ Emptied(old) \in ItemType /\ Emptied(old).free /\ Fits(Emptied(old))
          /\ Empty(Emptied(old)) /\ Emptied(old).key = old.key
      BY <3>1 DEF Emptied, ItemType, Stored, Fits, Empty
    <3> QED BY <3>1, <3>2 DEF old
  <2> HIDE DEF l
  <2>3. c[b] = [i \in 1..l |-> Emptied(t.chain[b][i])]
    BY <1>4 DEF l
  <2>4. c[b] \in [1..l -> ItemType]
    BY <2>2, <2>3
  <2>5. c[b] \in Seq(ItemType) /\ Len(c[b]) = l
    BY <2>1, <2>4
  <2>6. \A i \in 1..l : c[b][i].free /\ Fits(c[b][i]) /\ Empty(c[b][i])
                        /\ (c[b][i].key # NULL => Bucket(t, c[b][i].key) = b)
    BY <2>2, <2>3
  <2>7. GoodChain(c[b])
    BY <2>5, <2>6 DEF GoodChain, Ordered
  <2> QED BY <2>5, <2>6, <2>7
<1>6. u = [size |-> t.size, chain |-> c, count |-> t.count, freecount |-> n]
  <2>1. DOMAIN u = DOMAIN t /\ IsFunction(u)
    BY <1>2 DEF IsFunction, IsTable
  <2>2. u.size = t.size /\ u.chain = c /\ u.count = t.count /\ u.freecount = n
    BY <1>2 DEF IsTable
  <2>3. DOMAIN t = {"size", "chain", "count", "freecount"}
    BY <1>2 DEF IsTable
  <2> HIDE DEF u
  <2> QED BY <2>1, <2>2, <2>3 DEF IsFunction
<1>7. u.size = t.size /\ u.chain = c /\ u.count = t.count /\ u.freecount = t.count
  BY <1>3, <1>6
<1>8. c \in [0..(t.size - 1) -> Seq(ItemType)]
  <2>1. c = [b \in DOMAIN c |-> c[b]]
    BY DEF c
  <2> QED BY <1>4, <1>5, <2>1
<1>9. u \in Table
  BY <1>2, <1>3, <1>6, <1>8 DEF Table
<1> HIDE DEF u
<1>10. \A k : Bucket(u, k) = Bucket(t, k)
  BY <1>7 DEF Bucket
<1>11. Sound(u)
  BY <1>5, <1>7, <1>8, <1>9, <1>10 DEF Sound
<1>12. \A k, v : ~In(u, k, v)
  BY <1>5, <1>7 DEF In, Among, HasEntry
<1>13. CountsKeys(u)
  BY <1>2, <1>7, <1>12, CountsNone
<1>14. ~Overloaded(u)
  BY <1>2, <1>7 DEF Overloaded
<1>15. TableOK(u)
  BY <1>11, <1>12, <1>13, <1>14 DEF TableOK
<1> QED BY <1>12, <1>15 DEF u, c, n
-----------------------------------------------------------------------------
(* The invariant                                                           *)

\* It holds at the start.
LEMMA HInvInit == Init => HInv
BY InitOK, StackEmpty DEF Init, HInv

\* A command on an idle table that leaves it idle, and the table in order.
LEMMA HInvIdle ==
  ASSUME HInv, stack = <<>>, stack' = <<>>, TableOK(ht'), answer' \in {"ok", "error"}, status' = status
  PROVE  HInv'
<1>1. StackOK(ht', stack')
  BY StackEmpty
<1> QED BY <1>1 DEF HInv

\* A SET.
LEMMA HInvSet ==
  ASSUME HInv, NEW k \in Keys, NEW v \in Vals, Set(k, v)
  PROVE  HInv'
<1>1. stack = <<>> /\ TableOK(ht) /\ status \in {"running", "segv", "dangling"}
  BY DEF HInv, Set, Idle
<1>2. CASE NullCompared(ht, k)
  <2>1. status' = "segv" /\ UNCHANGED <<ht, stack, answer>>
    BY <1>2 DEF Set
  <2> QED BY <2>1 DEF HInv
<1>3. CASE ~NullCompared(ht, k) /\ Replace(k, v)
  <2>1. TableOK(ht')
    BY <1>1, <1>3, ReplaceIs DEF Replace
  <2>2. stack' = <<>> /\ answer' = "ok" /\ status' = status
    BY <1>1, <1>3 DEF Replace
  <2> QED BY <1>1, <2>1, <2>2, HInvIdle
<1>4. CASE ~NullCompared(ht, k) /\ Add(k, v)
  <2> DEFINE new(site) == Insert(ht, k, v, site)
  <2>1. PICK site \in (Sites \cap {"item", "key"}) \cup {"none"} :
          IF new(site).res = "HSUCCESS" /\ Overloaded(new(site).tab)
          THEN stack' = <<_hgrow(new(site).tab)>> /\ UNCHANGED <<ht, answer>>
          ELSE /\ ht' = new(site).tab
               /\ answer' = (IF new(site).res = "HSUCCESS" THEN "ok" ELSE "error")
               /\ UNCHANGED stack
    BY <1>4 DEF Add
  <2>2. hget(ht, k) = 0 /\ status' = status
    BY <1>4 DEF Add
  <2> DEFINE r == new(site)
  <2>3. /\ r.res # "HSUCCESS" => TableOK(r.tab)
        /\ r.res = "HSUCCESS" =>
             Sound(r.tab) /\ Started(ht, r.tab) /\ (~Overloaded(r.tab) => TableOK(r.tab))
    BY <1>1, <1>4, <2>2, AddIs
  <2> HIDE DEF new
  <2>4. CASE r.res = "HSUCCESS" /\ Overloaded(r.tab)
    <3>1. stack' = <<_hgrow(r.tab)>> /\ ht' = ht /\ answer' = answer
      BY <2>1, <2>4
    <3>2. Growth(_hgrow(r.tab)) /\ _hgrow(r.tab).from = r.tab
      BY <2>3, <2>4, GrowIs
    <3>3. StackOK(ht', stack')
      BY <2>3, <2>4, <3>1, <3>2, StackOne
    <3> QED BY <2>2, <3>1, <3>3 DEF HInv
  <2>5. CASE ~(r.res = "HSUCCESS" /\ Overloaded(r.tab))
    <3>1. ht' = r.tab /\ answer' \in {"ok", "error"} /\ stack' = stack
      BY <2>1, <2>5
    <3>2. TableOK(ht')
      BY <2>3, <2>5, <3>1
    <3> QED BY <1>1, <2>2, <3>1, <3>2, HInvIdle
  <2> QED BY <2>4, <2>5
<1> QED BY <1>2, <1>3, <1>4 DEF Set

\* A DELETE.
LEMMA HInvDelete ==
  ASSUME HInv, NEW k \in Keys, Delete(k)
  PROVE  HInv'
<1>1. stack = <<>> /\ TableOK(ht)
  BY DEF HInv, Delete, Idle
<1>2. TableOK(ht')
  BY <1>1, DeleteIs DEF Delete
<1>3. stack' = <<>> /\ answer' = "ok" /\ status' = status
  BY <1>1 DEF Delete
<1> QED BY <1>1, <1>2, <1>3, HInvIdle

\* A FLUSH_ALL.
LEMMA HInvFlush ==
  ASSUME HInv, FlushAll
  PROVE  HInv'
<1>1. stack = <<>> /\ TableOK(ht)
  BY DEF HInv, FlushAll, Idle
<1>2. TableOK(ht')
  BY <1>1, FlushIs DEF FlushAll
<1>3. stack' = <<>> /\ answer' = "ok" /\ status' = status
  BY <1>1 DEF FlushAll
<1> QED BY <1>1, <1>2, <1>3, HInvIdle

\* The innermost call is sound.
LEMMA TopIs ==
  ASSUME HInv, stack # <<>>
  PROVE  Len(stack) \in Nat /\ Len(stack) \in 1..Len(stack) /\ Growth(Top)
<1>1. stack \in Seq(Frame) /\ \A n \in 1..Len(stack) : Growth(stack[n])
  BY DEF HInv, StackOK
<1>2. Len(stack) \in Nat /\ Len(stack) \in 1..Len(stack)
  BY <1>1
<1> QED BY <1>1, <1>2 DEF Top

\* An item is moved, or its move makes the new table grow.
LEMMA HInvMove ==
  ASSUME HInv, MoveItem
  PROVE  HInv'
<1> DEFINE f == Top
           p == Pending(f)
           new == Insert(f.to, p.key, p.val, "none").tab
<1>1. stack # <<>> /\ Left(f) # {} /\ ht' = ht /\ answer' = answer
  BY DEF MoveItem, Growing
<1>2. CASE p.key = NULL \/ NullCompared(f.to, p.key)
  <2>1. status' = "segv" /\ stack' = stack
    BY <1>2 DEF MoveItem
  <2> QED BY <1>1, <2>1 DEF HInv
<1>3. CASE ~(p.key = NULL \/ NullCompared(f.to, p.key))
  <2>1. /\ stack' = IF Overloaded(new) THEN Append(stack, _hgrow(new))
                    ELSE [stack EXCEPT ![Len(stack)] = Moved(f, new)]
        /\ status' = status
    BY <1>3 DEF MoveItem, Top
  <2>2. Growth(f) /\ ~Clash(f) /\ StackOK(ht, stack)
    BY <1>1, TopIs, NoClash DEF HInv
  <2>3. p.key \in Keys /\ p.val \in Stored /\ hget(f.to, p.key) = 0
    BY <1>1, <1>3, <2>2, PendingIs DEF ItemType, Clash
  <2>4. Sound(f.to) /\ f.to.size >= 2 * f.from.size
    BY <2>2 DEF Growth
  <2>5. /\ Sound(new) /\ new.size = f.to.size
        /\ \A kk, vv : In(new, kk, vv) <=> In(f.to, kk, vv) \/ (kk = p.key /\ vv = p.val)
    BY <1>3, <2>3, <2>4, InsertIs
  <2> HIDE DEF new
  <2>6. Adds(f.to, new, p.key, p.val)
    BY <2>5 DEF Adds
  <2>7. f = stack[Len(stack)]
    BY DEF Top
  <2> HIDE DEF p
  <2>8. CASE Overloaded(new)
    <3>1. Growth(_hgrow(new)) /\ _hgrow(new).from = new
      BY <2>5, GrowIs
    <3>2. Within(f, _hgrow(new))
      BY <1>1, <1>3, <2>2, <2>5, <2>6, <3>1 DEF Within, p
    <3>3. StackOK(ht, Append(stack, _hgrow(new)))
      BY <1>1, <2>2, <2>7, <3>1, <3>2, StackPush
    <3> QED BY <1>1, <2>1, <2>8, <3>3 DEF HInv
  <2>9. CASE ~Overloaded(new)
    <3>1. Growth(Moved(f, new)) /\ Moved(f, new).from = f.from
      BY <1>1, <1>3, <2>2, <2>4, <2>5, <2>6, MovedIs DEF p
    <3>2. StackOK(ht, [stack EXCEPT ![Len(stack)] = Moved(f, new)])
      BY <1>1, <2>2, <2>7, <3>1, StackTop
    <3> QED BY <1>1, <2>1, <2>9, <3>2 DEF HInv
  <2> QED BY <2>8, <2>9
<1> QED BY <1>2, <1>3

\* A call returns.
LEMMA HInvGrown ==
  ASSUME HInv, Grown
  PROVE  HInv'
<1> DEFINE n == Len(stack)
           g == Top
           t == Keeps(g.from, g.to)
<1>1. stack # <<>> /\ Left(g) = {} /\ status' = status
  BY DEF Grown, Growing
<1>2. Growth(g) /\ n \in Nat /\ n \in 1..n /\ StackOK(ht, stack) /\ TableOK(ht)
  BY <1>1, TopIs DEF HInv
<1>3. CASE n = 1
  <2>1. ht' = t /\ answer' = "ok" /\ stack' = <<>>
    BY <1>3 DEF Grown
  <2>2. Started(ht, g.from)
    BY <1>1, <1>2, <1>3 DEF StackOK, Top
  <2>3. TableOK(t)
    BY <1>1, <1>2, <2>2, GrownIs
  <2>4. StackOK(ht', stack')
    BY <2>1, StackEmpty
  <2> HIDE DEF t
  <2> QED BY <1>1, <2>1, <2>3, <2>4 DEF HInv
<1>4. CASE n # 1
  <2> DEFINE f == stack[n - 1]
  <2>1. /\ stack' = [i \in 1..(n - 1) |-> IF i = n - 1 THEN Moved(stack[i], t) ELSE stack[i]]
        /\ ht' = ht /\ answer' = answer
    BY <1>4 DEF Grown
  <2>2. n \in Nat /\ n > 1 /\ n - 1 \in 1..n /\ n \in 2..n
    <3> HIDE DEF n
    <3> QED BY <1>2, <1>4
  <2>3. Growth(f) /\ Within(f, g)
    BY <1>2, <2>2 DEF StackOK, Top
  <2>4. /\ Sound(t) /\ t.size = g.to.size
        /\ \A k \in Keys, v \in Stored : In(t, k, v) <=> In(g.from, k, v)
    BY <1>1, <1>2, LeftNone
  <2> HIDE DEF t
  <2>5. /\ Left(f) # {} /\ Pending(f).key # NULL /\ g.from.size = f.to.size
        /\ Adds(f.to, g.from, Pending(f).key, Pending(f).val)
    BY <2>3 DEF Within
  <2>6. Adds(f.to, t, Pending(f).key, Pending(f).val)
    BY <2>4, <2>5 DEF Adds
  <2>7. t.size >= 2 * f.from.size
    <3>1. g.to.size >= 2 * g.from.size /\ f.to.size >= 2 * f.from.size
      BY <1>2, <2>3 DEF Growth
    <3>2. g.to.size \in Nat /\ g.from.size \in Nat /\ f.from.size \in Nat
      BY <1>2, <2>3, SoundIs DEF Growth
    <3> HIDE DEF f, g
    <3> QED BY <2>4, <2>5, <3>1, <3>2
  <2>8. Growth(Moved(f, t)) /\ Moved(f, t).from = f.from
    BY <2>3, <2>4, <2>5, <2>6, <2>7, MovedIs
  <2>9. stack' = [i \in 1..(n - 1) |-> IF i = n - 1 THEN Moved(f, t) ELSE stack[i]]
    BY <2>1
  <2>10. StackOK(ht, stack')
    BY <1>2, <2>2, <2>8, <2>9, StackPop
  <2> QED BY <1>1, <2>1, <2>10 DEF HInv
<1> QED BY <1>3, <1>4

\* The table as a SET has made it, before growth, when the new one cannot be allocated.
LEMMA HInvFails ==
  ASSUME HInv, GrowthFails
  PROVE  HInv'
<1>1. stack # <<>> /\ TableOK(ht) /\ StackOK(ht, stack)
  BY DEF GrowthFails, Growing, HInv
<1>2. CASE stack[1].to.count = 0
  <2> DEFINE o == stack[1].from
  <2>1. "create" \in Sites /\ ht' = o /\ answer' = "error" /\ stack' = <<>> /\ status' = status
    BY <1>2 DEF GrowthFails
  <2>2. Sound(o) /\ Started(ht, o)
    <3>1. 1 \in 1..Len(stack)
      BY <1>1 DEF StackOK
    <3>2. Growth(stack[1])
      BY <1>1, <3>1 DEF StackOK
    <3> QED BY <1>1, <3>2 DEF StackOK, Growth
  <2> HIDE DEF o
  <2>3. \A k \in Keys, v \in Stored : In(o, k, v) => v \in Vals
    <3>1. PICK kk \in Keys, vv \in Vals : Adds(ht, o, kk, vv)
      BY <2>2 DEF Started
    <3>2. \A k \in Keys, v \in Stored : In(ht, k, v) => v \in Vals
      BY <1>1 DEF TableOK
    <3> QED BY <3>1, <3>2 DEF Adds
  <2>4. TableOK(o)
    BY <2>1, <2>2, <2>3 DEF TableOK, Started
  <2>5. StackOK(ht', stack')
    BY <2>1, StackEmpty
  <2> QED BY <2>1, <2>4, <2>5 DEF HInv
<1>3. CASE stack[1].to.count # 0
  <2>1. status' = "dangling" /\ UNCHANGED <<ht, stack, answer>>
    BY <1>3 DEF GrowthFails
  <2> QED BY <2>1 DEF HInv
<1> QED BY <1>2, <1>3

\* Every step preserves it.
LEMMA HInvNext == HInv /\ [Next]_vars => HInv'
<1> SUFFICES ASSUME HInv, [Next]_vars PROVE HInv'
  OBVIOUS
<1>1. ASSUME NEW k \in Keys, Delete(k) PROVE HInv'
  BY <1>1, HInvDelete
<1>2. ASSUME NEW k \in Keys, NEW v \in Vals, Set(k, v) PROVE HInv'
  BY <1>2, HInvSet
<1>3. CASE FlushAll
  BY <1>3, HInvFlush
<1>4. CASE MoveItem
  BY <1>4, HInvMove
<1>5. CASE Grown
  BY <1>5, HInvGrown
<1>6. CASE GrowthFails
  BY <1>6, HInvFails
<1>7. CASE UNCHANGED vars
  BY <1>7 DEF HInv, vars
<1> QED BY <1>1, <1>2, <1>3, <1>4, <1>5, <1>6, <1>7 DEF Next
-----------------------------------------------------------------------------
(* The theorems                                                            *)

\* The invariant of the table and of the calls of _hgrow under way.
THEOREM TableInvariant == Spec => []HInv
BY HInvInit, HInvNext, PTL DEF Spec

\* Every key fits the buffer of its item, a recycled one too, and an item that points at a
\* request is in use: what hset and FLUSH_ALL rely on.
THEOREM EveryItemSound == Spec => []ItemsSound
<1>1. HInv => ItemsSound
  <2> SUFFICES ASSUME HInv, NEW it \in Items PROVE Fits(it) /\ Empty(it)
    BY DEF ItemsSound, KeysFit, FreeIsEmpty, Fits, Empty
  <2>1. Sound(ht)
    BY DEF HInv, TableOK
  <2>2. ht.chain \in [0..(ht.size - 1) -> Seq(ItemType)]
    BY <2>1, SoundIs
  <2>3. PICK b \in 0..(ht.size - 1) : it \in ToSet(ht.chain[b])
    BY <2>2 DEF Items
  <2>4. PICK i \in DOMAIN ht.chain[b] : it = ht.chain[b][i]
    BY <2>3 DEF ToSet
  <2>5. i \in 1..Len(ht.chain[b])
    BY <2>2, <2>3, <2>4
  <2> QED BY <2>1, <2>3, <2>4, <2>5, ItemIs
<1> QED BY <1>1, TableInvariant, PTL

\* Growth meets no key twice, wherever it has come to and however many calls are under way.
THEOREM GrowthMeetsKeyOnce == Spec => []NoKeyTwice
<1>1. HInv => NoKeyTwice
  BY TopIs, NoClash DEF NoKeyTwice, Growing
<1> QED BY <1>1, TableInvariant, PTL

\* hcount is the number of items in use between any two commands, whichever allocations
\* fail, although growth recycles items without telling the counters.
THEOREM ItemsCounted == Spec => [](ht.count - ht.freecount = Cardinality(Live(ht)))
<1>1. HInv => ht.count - ht.freecount = Cardinality(Live(ht))
  BY LiveCount DEF HInv, TableOK
<1> QED BY <1>1, TableInvariant, PTL

\* The counters tell the number of items in use, and the table is below the load at which
\* it grows, unless the table to grow into can fail to be allocated.
THEOREM CountersTell ==
  ASSUME "create" \notin Sites
  PROVE  Spec => []CountTrue
<1>1. HInv => CountTrue
  BY LiveCount DEF HInv, TableOK, CountTrue
<1> QED BY <1>1, TableInvariant, PTL
-----------------------------------------------------------------------------
(* The table is a dictionary                                               *)

Entries(t) == [k \in Keys |-> IF hget(t, k) = 0 THEN NULL ELSE t.chain[Bucket(t, k)][hget(t, k)].val]

\* The table u has the entry k, v, and those of t for other keys.
Updates(t, u, k, v) ==
  \A kk \in Keys, vv \in Vals : In(u, kk, vv) <=> (kk = k /\ vv = v) \/ (kk # k /\ In(t, kk, vv))

\* The table u has the entries of t, those of K excepted.
Loses(t, u, K) ==
  \A kk \in Keys, vv \in Vals : In(u, kk, vv) <=> kk \notin K /\ In(t, kk, vv)

\* What the table holds for a key is what it is found to map it to.
LEMMA EntryIs ==
  ASSUME NEW t, TableOK(t), NEW k \in Keys
  PROVE  /\ \A v \in Vals : In(t, k, v) <=> Entries(t)[k] = v
         /\ Entries(t)[k] \in Stored
         /\ Entries(t)[k] = NULL <=> \A v \in Vals : ~In(t, k, v)
<1> DEFINE e == IF hget(t, k) = 0 THEN NULL ELSE t.chain[Bucket(t, k)][hget(t, k)].val
<1>1. Sound(t) /\ \A v \in Stored : In(t, k, v) => v \in Vals
  BY DEF TableOK
<1>2. Entries(t)[k] = e
  BY DEF Entries
<1>3. CASE hget(t, k) = 0
  <2>1. e = NULL /\ \A v : ~In(t, k, v)
    BY <1>1, <1>3, GetIs
  <2> QED BY <1>2, <2>1, NullAssumption DEF Stored
<1>4. CASE hget(t, k) # 0
  <2>1. In(t, k, e) /\ (\A v : In(t, k, v) => v = e)
    BY <1>1, <1>4, ValueIs
  <2>2. e \in Stored
    BY <1>1, <2>1, InTyped
  <2> HIDE DEF e
  <2>3. e \in Vals /\ e # NULL
    BY <1>1, <2>1, <2>2, NullAssumption
  <2> QED BY <1>2, <2>1, <2>2, <2>3
<1> QED BY <1>3, <1>4

\* A dictionary is known by the entries it has.
LEMMA EntriesAre ==
  ASSUME NEW t, TableOK(t), NEW d \in [Keys -> Stored],
         \A k \in Keys, v \in Vals : In(t, k, v) <=> d[k] = v
  PROVE  Entries(t) = d
<1>1. ASSUME NEW k \in Keys PROVE Entries(t)[k] = d[k]
  <2>1. CASE d[k] \in Vals
    BY <2>1, EntryIs
  <2>2. CASE d[k] = NULL
    <3>1. \A v \in Vals : ~In(t, k, v)
      BY <2>2, NullAssumption
    <3> QED BY <2>2, <3>1, EntryIs
  <2> QED BY <2>1, <2>2 DEF Stored
<1>2. Entries(t) = [k \in Keys |-> Entries(t)[k]] /\ d = [k \in Keys |-> d[k]]
  BY DEF Entries
<1> QED BY <1>1, <1>2

\* The dictionary is one of the entries of a table.
LEMMA EntriesTyped ==
  ASSUME NEW t, TableOK(t)
  PROVE  Entries(t) \in [Keys -> Stored]
<1>1. \A k \in Keys : Entries(t)[k] \in Stored
  BY EntryIs
<1>2. Entries(t) = [k \in Keys |-> Entries(t)[k]]
  BY DEF Entries
<1> QED BY <1>1, <1>2

\* A table with one entry more, or another one for a key, is the dictionary updated.
LEMMA EntriesPut ==
  ASSUME NEW t, TableOK(t), NEW u, TableOK(u), NEW k \in Keys, NEW v \in Vals,
         Updates(t, u, k, v)
  PROVE  Entries(u) = [Entries(t) EXCEPT ![k] = v]
<1> DEFINE d == [Entries(t) EXCEPT ![k] = v]
<1>1. Entries(t) \in [Keys -> Stored] /\ v \in Stored
  BY EntriesTyped DEF Stored
<1>2. d \in [Keys -> Stored] /\ d[k] = v /\ \A kk \in Keys : kk # k => d[kk] = Entries(t)[kk]
  BY <1>1
<1> HIDE DEF d
<1>3. \A kk \in Keys, vv \in Vals : In(u, kk, vv) <=> d[kk] = vv
  BY <1>2, EntryIs DEF Updates
<1>4. Entries(u) = d
  BY <1>2, <1>3, EntriesAre
<1> QED BY <1>4 DEF d

\* A table that has lost the entries of some keys is the dictionary without them.
LEMMA EntriesDrop ==
  ASSUME NEW t, TableOK(t), NEW u, TableOK(u), NEW K \in SUBSET Keys,
         Loses(t, u, K)
  PROVE  Entries(u) = [kk \in Keys |-> IF kk \in K THEN NULL ELSE Entries(t)[kk]]
<1> DEFINE d == [kk \in Keys |-> IF kk \in K THEN NULL ELSE Entries(t)[kk]]
<1>1. Entries(t) \in [Keys -> Stored] /\ NULL \in Stored
  BY EntriesTyped DEF Stored
<1>2. d \in [Keys -> Stored] /\ \A kk \in Keys : d[kk] = IF kk \in K THEN NULL ELSE Entries(t)[kk]
  BY <1>1
<1> HIDE DEF d
<1>3. \A kk \in Keys, vv \in Vals : In(u, kk, vv) <=> d[kk] = vv
  BY <1>2, EntryIs, NullAssumption DEF Loses
<1>4. Entries(u) = d
  BY <1>2, <1>3, EntriesAre
<1> QED BY <1>4 DEF d

\* The dictionary of the table, as the refinement names it.
LEMMA DictIs == \A k \in Keys, v \in Vals :
  /\ Entries(ht') = [Entries(ht) EXCEPT ![k] = v] /\ answer' = "ok" => Dict!Put(k, v)
  /\ Entries(ht)[k] = NULL /\ Entries(ht') = Entries(ht) /\ answer' = "error" => Dict!PutFails(k)
  /\ Entries(ht') = Entries(ht) /\ answer' = answer => UNCHANGED Dict!dvars
BY DEF Entries, Dict!Put, Dict!PutFails, Dict!dvars

\* A SET puts the entry, or fails and leaves a key absent, or is still to be told.
LEMMA SetPuts ==
  ASSUME HInv, HInv', NEW k \in Keys, NEW v \in Vals, Set(k, v)
  PROVE  \/ Entries(ht') = [Entries(ht) EXCEPT ![k] = v] /\ answer' = "ok"
         \/ Entries(ht)[k] = NULL /\ Entries(ht') = Entries(ht) /\ answer' = "error"
         \/ Entries(ht') = Entries(ht) /\ answer' = answer
<1>1. TableOK(ht) /\ TableOK(ht')
  BY DEF HInv
<1>2. CASE NullCompared(ht, k)
  BY <1>2 DEF Set
<1>3. CASE ~NullCompared(ht, k) /\ Replace(k, v)
  <2>1. hget(ht, k) # 0 /\ answer' = "ok"
    BY <1>3 DEF Replace
  <2>2. Updates(ht, ht', k, v)
    BY <1>1, <1>3, <2>1, ReplaceIs DEF Replace, Updates
  <2>3. Entries(ht') = [Entries(ht) EXCEPT ![k] = v]
    BY <1>1, <2>2, EntriesPut
  <2> QED BY <2>1, <2>3
<1>4. CASE ~NullCompared(ht, k) /\ Add(k, v)
  <2> DEFINE new(site) == Insert(ht, k, v, site)
  <2>1. PICK site \in (Sites \cap {"item", "key"}) \cup {"none"} :
          IF new(site).res = "HSUCCESS" /\ Overloaded(new(site).tab)
          THEN stack' = <<_hgrow(new(site).tab)>> /\ UNCHANGED <<ht, answer>>
          ELSE /\ ht' = new(site).tab
               /\ answer' = (IF new(site).res = "HSUCCESS" THEN "ok" ELSE "error")
               /\ UNCHANGED stack
    BY <1>4 DEF Add
  <2>2. hget(ht, k) = 0 /\ \A vv : ~In(ht, k, vv)
    BY <1>1, <1>4, GetIs DEF Add, TableOK
  <2> DEFINE r == new(site)
  <2>3. /\ r.res # "HSUCCESS" => \A kk, vv : In(r.tab, kk, vv) <=> In(ht, kk, vv)
        /\ r.res = "HSUCCESS" => \A kk, vv : In(r.tab, kk, vv) <=> In(ht, kk, vv) \/ (kk = k /\ vv = v)
    BY <1>1, <1>4, <2>2, AddIs
  <2> HIDE DEF new
  <2>4. CASE r.res = "HSUCCESS" /\ Overloaded(r.tab)
    BY <2>1, <2>4
  <2>5. CASE r.res = "HSUCCESS" /\ ~Overloaded(r.tab)
    <3>1. ht' = r.tab /\ answer' = "ok"
      BY <2>1, <2>5
    <3>2. Updates(ht, ht', k, v)
      BY <2>2, <2>3, <2>5, <3>1 DEF Updates
    <3>3. Entries(ht') = [Entries(ht) EXCEPT ![k] = v]
      BY <1>1, <3>2, EntriesPut
    <3> QED BY <3>1, <3>3
  <2>6. CASE r.res # "HSUCCESS"
    <3>1. ht' = r.tab /\ answer' = "error"
      BY <2>1, <2>6
    <3>2. \A kk \in Keys, vv \in Vals : In(ht', kk, vv) <=> Entries(ht)[kk] = vv
      BY <1>1, <2>3, <2>6, <3>1, EntryIs
    <3>3. Entries(ht') = Entries(ht)
      BY <1>1, <3>2, EntriesTyped, EntriesAre
    <3>4. Entries(ht)[k] = NULL
      BY <1>1, <2>2, EntryIs
    <3> QED BY <3>1, <3>3, <3>4
  <2> QED BY <2>4, <2>5, <2>6
<1> QED BY <1>2, <1>3, <1>4 DEF Set

\* Growth that is over puts the entry it has been made for.
LEMMA GrownPuts ==
  ASSUME HInv, HInv', Grown
  PROVE  \/ \E k \in Keys, v \in Vals : Entries(ht') = [Entries(ht) EXCEPT ![k] = v] /\ answer' = "ok"
         \/ Entries(ht') = Entries(ht) /\ answer' = answer
<1>1. TableOK(ht) /\ TableOK(ht') /\ stack # <<>> /\ Left(Top) = {}
  BY DEF HInv, Grown, Growing
<1>2. CASE Len(stack) = 1
  <2> DEFINE f == Top
             u == Keeps(f.from, f.to)
  <2>1. ht' = u /\ answer' = "ok"
    BY <1>2 DEF Grown
  <2>2. Growth(f) /\ Started(ht, f.from)
    BY <1>1, <1>2, TopIs DEF HInv, StackOK, Top
  <2>3. \A k \in Keys, v \in Stored : In(u, k, v) <=> In(f.from, k, v)
    BY <1>1, <2>2, LeftNone
  <2>4. PICK k \in Keys, v \in Vals : hget(ht, k) = 0 /\ Adds(ht, f.from, k, v)
    BY <2>2 DEF Started
  <2>5. \A vv : ~In(ht, k, vv)
    BY <1>1, <2>4, GetIs DEF TableOK
  <2> HIDE DEF u, f
  <2>6. Updates(ht, ht', k, v)
    BY <2>1, <2>3, <2>4, <2>5 DEF Adds, Stored, Updates
  <2>7. Entries(ht') = [Entries(ht) EXCEPT ![k] = v]
    BY <1>1, <2>6, EntriesPut
  <2> QED BY <2>1, <2>7
<1>3. CASE Len(stack) # 1
  <2>1. ht' = ht /\ answer' = answer
    BY <1>3 DEF Grown
  <2> QED BY <2>1
<1> QED BY <1>2, <1>3

\* A DELETE drops its key.
LEMMA DeleteDrops ==
  ASSUME HInv, HInv', NEW k \in Keys, Delete(k)
  PROVE  Entries(ht') = [kk \in Keys |-> IF kk \in {k} THEN NULL ELSE Entries(ht)[kk]] /\ answer' = "ok"
<1>1. TableOK(ht) /\ TableOK(ht') /\ hget(ht, k) # 0 /\ answer' = "ok"
  BY DEF HInv, Delete
<1>2. \A kk, vv : In(ht', kk, vv) <=> kk # k /\ In(ht, kk, vv)
  BY <1>1, DeleteIs DEF Delete
<1>3. Loses(ht, ht', {k})
  BY <1>2 DEF Loses
<1> QED BY <1>1, <1>3, EntriesDrop

\* A FLUSH_ALL drops every key.
LEMMA FlushDrops ==
  ASSUME HInv, HInv', FlushAll
  PROVE  Entries(ht') = [kk \in Keys |-> IF kk \in Keys THEN NULL ELSE Entries(ht)[kk]] /\ answer' = "ok"
<1>1. TableOK(ht) /\ TableOK(ht') /\ answer' = "ok"
  BY DEF HInv, FlushAll
<1>2. \A kk, vv : ~In(ht', kk, vv)
  BY <1>1, FlushIs DEF FlushAll
<1>3. Loses(ht, ht', Keys)
  BY <1>2 DEF Loses
<1> QED BY <1>1, <1>3, EntriesDrop

\* Buckets, recycled items and growth do not show: the table is a dictionary whose updates
\* happen altogether or not at all, unless the table to grow into can fail to be
\* allocated, when SET answers an error although the key is there.
THEOREM TableIsDictionary ==
  ASSUME "create" \notin Sites
  PROVE  Spec => RefinesDict
<1>1. Init => Dict!DInit
  <2> SUFFICES ASSUME Init PROVE Dict!DInit
    OBVIOUS
  <2>1. HInv /\ answer = "ok" /\ ht = htcreate(2^logsize)
    BY HInvInit DEF Init
  <2>2. TableOK(ht) /\ \A k, v : ~In(ht, k, v)
    BY <2>1, SizeAssumption, CreateIs DEF HInv
  <2>3. [k \in Keys |-> NULL] \in [Keys -> Stored]
    BY DEF Stored
  <2>4. Entries(ht) = [k \in Keys |-> NULL]
    BY <2>2, <2>3, NullAssumption, EntriesAre
  <2> QED BY <2>1, <2>4 DEF Dict!DInit, Entries
<1>2. HInv /\ HInv' /\ [Next]_vars => [Dict!DNext]_(Dict!dvars)
  <2> SUFFICES ASSUME HInv, HInv', [Next]_vars PROVE [Dict!DNext]_(Dict!dvars)
    OBVIOUS
  <2>1. Entries(ht') = Entries(ht) /\ answer' = answer => UNCHANGED Dict!dvars
    BY DEF Entries, Dict!dvars
  <2>2. ASSUME NEW k \in Keys, Delete(k) PROVE [Dict!DNext]_(Dict!dvars)
    <3>1. Dict!Drop({k})
      BY <2>2, DeleteDrops DEF Entries, Dict!Drop
    <3> QED BY <3>1 DEF Dict!DNext
  <2>3. ASSUME NEW k \in Keys, NEW v \in Vals, Set(k, v) PROVE [Dict!DNext]_(Dict!dvars)
    <3>1. Dict!Put(k, v) \/ Dict!PutFails(k) \/ UNCHANGED Dict!dvars
      BY <2>3, SetPuts, DictIs
    <3> QED BY <3>1 DEF Dict!DNext
  <2>4. CASE FlushAll
    <3>1. Dict!Drop(Keys)
      BY <2>4, FlushDrops DEF Entries, Dict!Drop
    <3> QED BY <3>1 DEF Dict!DNext
  <2>5. CASE MoveItem
    BY <2>1, <2>5 DEF MoveItem
  <2>6. CASE Grown
    <3>1. CASE Entries(ht') = Entries(ht) /\ answer' = answer
      BY <2>1, <3>1
    <3>2. CASE ~(Entries(ht') = Entries(ht) /\ answer' = answer)
      <4>1. PICK k \in Keys, v \in Vals : Entries(ht') = [Entries(ht) EXCEPT ![k] = v] /\ answer' = "ok"
        BY <2>6, <3>2, GrownPuts
      <4>2. Dict!Put(k, v)
        BY <4>1, DictIs
      <4> QED BY <4>2 DEF Dict!DNext
    <3> QED BY <3>1, <3>2
  <2>7. CASE GrowthFails
    BY <2>1, <2>7 DEF GrowthFails
  <2>8. CASE UNCHANGED vars
    BY <2>1, <2>8 DEF vars
  <2> QED BY <2>2, <2>3, <2>4, <2>5, <2>6, <2>7, <2>8 DEF Next
<1> QED BY <1>1, <1>2, TableInvariant, PTL DEF Spec, RefinesDict, Dict!DSpec
-----------------------------------------------------------------------------
(* No item without a key                                                   *)

\* Every item of the table has its key.
Keyed(t) == \A b \in 0..(t.size - 1) : \A i \in 1..Len(t.chain[b]) : t.chain[b][i].key # NULL

\* No key of such a table is compared with the null pointer.
LEMMA NoneCompared ==
  ASSUME NEW t, Sound(t), Keyed(t), NEW k \in Keys
  PROVE  ~NullCompared(t, k)
<1>1. Bucket(t, k) \in 0..(t.size - 1) /\ t.chain \in [0..(t.size - 1) -> Seq(ItemType)]
  BY SoundIs, BucketIn
<1>2. DOMAIN t.chain[Bucket(t, k)] = 1..Len(t.chain[Bucket(t, k)])
  BY <1>1
<1> QED BY <1>1, <1>2 DEF NullCompared, Keyed

\* The table u is t with another chain, or another item.
NewChain(t, u, b, c)    == u.size = t.size /\ u.chain = [t.chain EXCEPT ![b] = c]
NewItem(t, u, b, i, it) == NewChain(t, u, b, [t.chain[b] EXCEPT ![i] = it])

\* A chain of items with keys takes the place of another.
LEMMA KeyedChain ==
  ASSUME NEW t, Sound(t), Keyed(t), NEW b \in 0..(t.size - 1),
         NEW c, \A i \in 1..Len(c) : c[i].key # NULL,
         NEW u, NewChain(t, u, b, c)
  PROVE  Keyed(u)
<1>1. t.chain \in [0..(t.size - 1) -> Seq(ItemType)]
  BY SoundIs
<1>2. u.size = t.size /\ u.chain[b] = c /\ \A a \in 0..(t.size - 1) : a # b => u.chain[a] = t.chain[a]
  BY <1>1 DEF NewChain
<1> SUFFICES ASSUME NEW a \in 0..(t.size - 1), NEW i \in 1..Len(u.chain[a])
             PROVE  u.chain[a][i].key # NULL
  BY <1>2 DEF Keyed
<1>3. CASE a = b
  BY <1>2, <1>3
<1>4. CASE a # b
  BY <1>2, <1>4 DEF Keyed
<1> QED BY <1>3, <1>4

\* An item with a key takes the place of another.
LEMMA KeyedItem ==
  ASSUME NEW t, Sound(t), Keyed(t), NEW b \in 0..(t.size - 1), NEW i \in 1..Len(t.chain[b]),
         NEW it, it.key # NULL, NEW u, NewItem(t, u, b, i, it)
  PROVE  Keyed(u)
<1> DEFINE c == t.chain[b]
           new == [c EXCEPT ![i] = it]
<1>1. c \in Seq(ItemType) /\ \A j \in 1..Len(c) : c[j].key # NULL
  BY SoundIs DEF Keyed
<1>2. Len(new) = Len(c) /\ new[i] = it /\ \A j \in 1..Len(c) : j # i => new[j] = c[j]
  BY <1>1
<1>3. NewChain(t, u, b, new)
  BY DEF NewItem
<1> HIDE DEF c, new
<1>4. \A j \in 1..Len(new) : new[j].key # NULL
  BY <1>1, <1>2
<1> QED BY <1>3, <1>4, KeyedChain

\* An item goes in with its key, unless memory for a key is missing.
LEMMA InsertKeyed ==
  ASSUME NEW t, Sound(t), Keyed(t), NEW k \in Keys, NEW v, NEW site, site # "key"
  PROVE  Keyed(Insert(t, k, v, site).tab)
<1> DEFINE b == Bucket(t, k)
           c == t.chain[b]
           R == Recyclable(c)
           i == Recycled(c)
           r == Insert(t, k, v, site)
<1>1. /\ IsTable(t) /\ t.chain \in [0..(t.size - 1) -> Seq(ItemType)]
      /\ b \in 0..(t.size - 1) /\ c \in Seq(ItemType) /\ Len(c) \in Nat
      /\ \A j \in 1..Len(c) : c[j].key # NULL
  BY SoundIs, BucketIn DEF Keyed
<1>2. \A cap : Item(k, cap, v).key = k /\ k # NULL
  BY NullAssumption DEF Item
<1> SUFFICES Keyed(r.tab)
  OBVIOUS
<1>3. ASSUME NEW cap, R # {},
             r = Outcome("HSUCCESS", [t EXCEPT !.chain[b][i] = Item(k, cap, v), !.freecount = @ - 1])
      PROVE  Keyed(r.tab)
  <2>1. i \in 1..Len(c)
    <3>1. R \in SUBSET (1..Len(c))
      BY <1>1 DEF Recyclable
    <3> HIDE DEF c, R
    <3> QED BY <1>1, <1>3, <3>1, Greatest DEF Recycled, R
  <2> DEFINE it == Item(k, cap, v)
             w == [t EXCEPT !.chain[b][i] = it, !.freecount = @ - 1]
  <2>2. it.key # NULL
    BY <1>2
  <2> HIDE DEF it
  <2>3. NewItem(t, w, b, i, it)
    BY <1>1 DEF IsTable, NewItem, NewChain
  <2>4. r.tab = w
    BY <1>3 DEF Outcome, it
  <2> HIDE DEF w, r, i, b
  <2>5. Keyed(w)
    BY <1>1, <2>1, <2>2, <2>3, KeyedItem DEF c
  <2> QED BY <2>4, <2>5
<1>4. CASE R # {}
  <2>1. \/ r = Outcome("HSUCCESS", [t EXCEPT !.chain[b][i] = Item(k, KeyLen[k] + 1, v), !.freecount = @ - 1])
        \/ r = Outcome("HSUCCESS", [t EXCEPT !.chain[b][i] = Item(k, c[i].cap, v), !.freecount = @ - 1])
    BY <1>4 DEF Insert
  <2> HIDE DEF r, b, i, c, R
  <2> QED BY <1>3, <1>4, <2>1
<1>5. CASE R = {} /\ site = "item"
  <2>1. r = Outcome("HERROR", t)
    BY <1>5 DEF Insert
  <2>2. r.tab = t
    BY <2>1 DEF Outcome
  <2> HIDE DEF r
  <2> QED BY <2>2
<1>6. CASE R = {} /\ site # "item"
  <2> DEFINE it == Item(k, KeyLen[k] + 1, v)
             w == [t EXCEPT !.chain[b] = Cons(it, @), !.count = @ + 1]
             new == Cons(it, c)
  <2>1. r.tab = w
    <3>1. r = Outcome("HSUCCESS", w)
      BY <1>6 DEF Insert
    <3> HIDE DEF w, r
    <3> QED BY <3>1 DEF Outcome
  <2>2. it.key # NULL
    BY <1>2
  <2> HIDE DEF it
  <2>3. NewChain(t, w, b, new)
    BY <1>1 DEF IsTable, NewChain
  <2>4. Len(new) = Len(c) + 1 /\ new[1] = it /\ \A j \in 2..(Len(c) + 1) : new[j] = c[j - 1]
    BY <1>1 DEF Cons
  <2> HIDE DEF new, w, r, c, b
  <2>5. \A j \in 1..Len(new) : new[j].key # NULL
    <3> SUFFICES ASSUME NEW j \in 1..Len(new) PROVE new[j].key # NULL
      OBVIOUS
    <3>1. CASE j = 1
      BY <2>2, <2>4, <3>1
    <3>2. CASE j # 1
      <4>1. j \in 2..(Len(c) + 1) /\ j - 1 \in 1..Len(c)
        BY <1>1, <2>4, <3>2
      <4> QED BY <1>1, <2>4, <4>1
    <3> QED BY <3>1, <3>2
  <2>6. Keyed(w)
    BY <1>1, <2>3, <2>5, KeyedChain
  <2> QED BY <2>1, <2>6
<1> QED BY <1>4, <1>5, <1>6

\* The item hget has found keeps its key, whatever else is written to it.
LEMMA FoundKeyed ==
  ASSUME NEW t, Sound(t), Keyed(t), NEW k \in Keys, hget(t, k) # 0
  PROVE  /\ \A v : Keyed([t EXCEPT !.chain[Bucket(t, k)][hget(t, k)].val = v])
         /\ \A free : Keyed(Mark(t, k, free))
         /\ Keyed([t EXCEPT !.chain[Bucket(t, k)][hget(t, k)] = Emptied(@), !.freecount = hfree(t, 1)])
<1> DEFINE b == Bucket(t, k)
           i == hget(t, k)
           it == t.chain[b][i]
<1>1. IsTable(t) /\ t.chain \in [0..(t.size - 1) -> Seq(ItemType)] /\ b \in 0..(t.size - 1)
      /\ i \in 1..Len(t.chain[b])
  BY SoundIs, GetIs
<1> HIDE DEF b, i
<1>2. it \in ItemType /\ it.key # NULL
  <2>1. it \in ItemType
    BY <1>1, ItemIs
  <2>2. it.key # NULL
    BY <1>1 DEF Keyed
  <2> QED BY <2>1, <2>2
<1> HIDE DEF it
<1>3. ASSUME NEW v PROVE Keyed([t EXCEPT !.chain[b][i].val = v])
  <2> DEFINE w == [t EXCEPT !.chain[b][i].val = v]
             new == [it EXCEPT !.val = v]
  <2>1. NewItem(t, w, b, i, new)
    BY <1>1 DEF IsTable, it, NewItem, NewChain
  <2>2. new.key # NULL
    BY <1>2 DEF ItemType
  <2> HIDE DEF w, new
  <2>3. Keyed(w)
    BY <1>1, <2>1, <2>2, KeyedItem
  <2> QED BY <2>3 DEF w
<1>4. ASSUME NEW free PROVE Keyed([t EXCEPT !.chain[b][i].free = free])
  <2> DEFINE w == [t EXCEPT !.chain[b][i].free = free]
             new == [it EXCEPT !.free = free]
  <2>1. NewItem(t, w, b, i, new)
    BY <1>1 DEF IsTable, it, NewItem, NewChain
  <2>2. new.key # NULL
    BY <1>2 DEF ItemType
  <2> HIDE DEF w, new
  <2>3. Keyed(w)
    BY <1>1, <2>1, <2>2, KeyedItem
  <2> QED BY <2>3 DEF w
<1>5. Keyed([t EXCEPT !.chain[b][i] = Emptied(@), !.freecount = hfree(t, 1)])
  <2> DEFINE w == [t EXCEPT !.chain[b][i] = Emptied(@), !.freecount = hfree(t, 1)]
             new == Emptied(it)
  <2>1. NewItem(t, w, b, i, new)
    BY <1>1 DEF IsTable, it, NewItem, NewChain
  <2>2. new.key # NULL
    BY <1>2 DEF ItemType, Emptied
  <2> HIDE DEF w, new
  <2>3. Keyed(w)
    BY <1>1, <2>1, <2>2, KeyedItem
  <2> QED BY <2>3 DEF w
<1> QED BY <1>3, <1>4, <1>5 DEF Mark, b, i

\* FLUSH_ALL leaves every key where it is.
LEMMA FlushKeyed ==
  ASSUME NEW t, Sound(t), Keyed(t)
  PROVE  Keyed([t EXCEPT
           !.chain = [b \in DOMAIN t.chain |-> [i \in DOMAIN t.chain[b] |-> Emptied(t.chain[b][i])]],
           !.freecount = hfree(t, Cardinality(Live(t)))])
<1> DEFINE n == hfree(t, Cardinality(Live(t)))
           c == [b \in DOMAIN t.chain |-> [i \in DOMAIN t.chain[b] |-> Emptied(t.chain[b][i])]]
           u == [t EXCEPT !.chain = c, !.freecount = n]
<1>1. IsTable(t) /\ t.chain \in [0..(t.size - 1) -> Seq(ItemType)]
  BY SoundIs
<1>2. \A b \in DOMAIN t.chain : c[b] = [i \in DOMAIN t.chain[b] |-> Emptied(t.chain[b][i])]
  OBVIOUS
<1> HIDE DEF c, n
<1>3. u.size = t.size /\ u.chain = c
  BY <1>1 DEF IsTable
<1> HIDE DEF u
<1>4. ASSUME NEW b \in 0..(t.size - 1), NEW i \in 1..Len(c[b]) PROVE c[b][i].key # NULL
  <2>1. DOMAIN t.chain[b] = 1..Len(t.chain[b]) /\ Len(t.chain[b]) \in Nat
    BY <1>1
  <2>2. c[b] = [j \in 1..Len(t.chain[b]) |-> Emptied(t.chain[b][j])]
    BY <1>1, <1>2, <2>1
  <2>3. Len(c[b]) = Len(t.chain[b])
    BY <2>1, <2>2
  <2>4. t.chain[b][i] \in ItemType /\ t.chain[b][i].key # NULL
    <3>1. i \in 1..Len(t.chain[b])
      BY <2>3
    <3>2. t.chain[b][i] \in ItemType
      BY <3>1, ItemIs
    <3>3. t.chain[b][i].key # NULL
      BY <3>1 DEF Keyed
    <3> QED BY <3>2, <3>3
  <2>5. c[b][i] = Emptied(t.chain[b][i])
    BY <2>2, <2>3
  <2> QED BY <2>4, <2>5 DEF Emptied, ItemType
<1>5. Keyed(u)
  BY <1>3, <1>4 DEF Keyed
<1> QED BY <1>5 DEF u, c, n

\* A new table has no items.
LEMMA CreateKeyed ==
  ASSUME NEW s PROVE Keyed(htcreate(s))
BY DEF Keyed, htcreate

\* A table after growth has the items of the new one.
LEMMA KeepsKeyed ==
  ASSUME NEW t, NEW g, Sound(g), Keyed(g)
  PROVE  Keyed(Keeps(t, g))
<1>1. IsTable(g)
  BY SoundIs
<1>2. Keeps(t, g).size = g.size /\ Keeps(t, g).chain = g.chain
  BY <1>1 DEF IsTable, Keeps
<1> QED BY <1>2 DEF Keyed

\* A call of _hgrow has moved one item more.
LEMMA MovedKeyed ==
  ASSUME NEW f, Growth(f), Left(f) # {}, Pending(f).key # NULL,
         NEW t, Sound(t), Keyed(t), Adds(f.to, t, Pending(f).key, Pending(f).val)
  PROVE  Moved(f, t).from = f.from /\ Keyed(Moved(f, t).to)
<1> DEFINE p == Pending(f)
           to == Mark(t, p.key, p.free)
<1>1. p.key \in Keys /\ p.val \in Stored
  BY PendingIs DEF ItemType
<1>2. In(t, p.key, p.val)
  BY <1>1 DEF Adds
<1>3. hget(t, p.key) # 0
  BY <1>1, <1>2, GetIs
<1>4. Keyed(to)
  BY <1>1, <1>3, FoundKeyed
<1>5. f = [from |-> f.from, done |-> f.done, to |-> f.to]
  BY DEF Growth, Frame
<1> HIDE DEF to
<1>6. Moved(f, t) = [f EXCEPT !.to = to, !.done[Min(Left(f))] = @ + 1]
  BY DEF Moved, to
<1>7. Moved(f, t).from = f.from /\ Moved(f, t).to = to
  BY <1>5, <1>6
<1> QED BY <1>4, <1>7

\* What every step preserves when no memory for a key is missing.
AllKeyed ==
  /\ status = "running" /\ Keyed(ht)
  /\ \A n \in 1..Len(stack) : Keyed(stack[n].from) /\ Keyed(stack[n].to)

\* A SET.
LEMMA SetKeyed ==
  ASSUME "key" \notin Sites, HInv, AllKeyed, NEW k \in Keys, NEW v \in Vals, Set(k, v)
  PROVE  AllKeyed'
<1>1. stack = <<>> /\ TableOK(ht) /\ Sound(ht) /\ Keyed(ht) /\ status = "running"
  BY DEF HInv, Set, Idle, AllKeyed, TableOK
<1>2. ~NullCompared(ht, k)
  BY <1>1, NoneCompared
<1>3. CASE Replace(k, v)
  <2>1. Keyed(ht') /\ stack' = <<>> /\ status' = "running"
    BY <1>1, <1>3, FoundKeyed DEF Replace
  <2> QED BY <2>1 DEF AllKeyed
<1>4. CASE Add(k, v)
  <2> DEFINE new(site) == Insert(ht, k, v, site)
  <2>1. PICK site \in (Sites \cap {"item", "key"}) \cup {"none"} :
          IF new(site).res = "HSUCCESS" /\ Overloaded(new(site).tab)
          THEN stack' = <<_hgrow(new(site).tab)>> /\ UNCHANGED <<ht, answer>>
          ELSE /\ ht' = new(site).tab
               /\ answer' = (IF new(site).res = "HSUCCESS" THEN "ok" ELSE "error")
               /\ UNCHANGED stack
    BY <1>4 DEF Add
  <2>2. status' = "running"
    BY <1>1, <1>4 DEF Add
  <2> DEFINE u == new(site).tab
  <2>3. Keyed(u)
    BY <1>1, <2>1, InsertKeyed
  <2> HIDE DEF new
  <2>4. CASE new(site).res = "HSUCCESS" /\ Overloaded(u)
    <3> DEFINE g == _hgrow(u)
    <3>1. stack' = <<g>> /\ ht' = ht
      BY <2>1, <2>4
    <3>2. Keyed(g.from) /\ Keyed(g.to)
      BY <2>3, CreateKeyed DEF _hgrow
    <3> HIDE DEF g
    <3>3. Len(stack') = 1 /\ stack'[1] = g
      BY <3>1
    <3>4. \A n \in 1..Len(stack') : Keyed(stack'[n].from) /\ Keyed(stack'[n].to)
      BY <3>2, <3>3
    <3> QED BY <1>1, <2>2, <3>1, <3>4 DEF AllKeyed
  <2>5. CASE ~(new(site).res = "HSUCCESS" /\ Overloaded(u))
    <3>1. ht' = u /\ stack' = <<>>
      BY <1>1, <2>1, <2>5
    <3> QED BY <2>2, <2>3, <3>1 DEF AllKeyed
  <2> QED BY <2>4, <2>5
<1> QED BY <1>2, <1>3, <1>4 DEF Set

\* An item is moved, or its move makes the new table grow.
LEMMA MoveKeyed ==
  ASSUME HInv, AllKeyed, MoveItem
  PROVE  AllKeyed'
<1> DEFINE f == Top
           p == Pending(f)
           new == Insert(f.to, p.key, p.val, "none").tab
           n == Len(stack)
<1>1. stack # <<>> /\ Left(f) # {} /\ ht' = ht /\ stack \in Seq(Frame) /\ Keyed(ht) /\ status = "running"
  BY DEF MoveItem, Growing, HInv, StackOK, AllKeyed
<1>2. Growth(f) /\ ~Clash(f) /\ n \in Nat /\ n \in 1..n /\ f = stack[n]
  BY <1>1, TopIs, NoClash DEF Top
<1>3. /\ \A m \in 1..n : Keyed(stack[m].from) /\ Keyed(stack[m].to)
      /\ Keyed(f.from) /\ Keyed(f.to)
  BY <1>2 DEF AllKeyed
<1>4. Sound(f.from) /\ Sound(f.to)
  BY <1>2 DEF Growth
<1>5. p.key # NULL
  BY <1>1, <1>2, <1>3, PendingIs DEF Keyed
<1>6. p.key \in Keys /\ p.val \in Stored /\ hget(f.to, p.key) = 0 /\ ~NullCompared(f.to, p.key)
  BY <1>1, <1>2, <1>3, <1>4, <1>5, PendingIs, NoneCompared DEF ItemType, Clash
<1>7. /\ stack' = IF Overloaded(new) THEN Append(stack, _hgrow(new))
                  ELSE [stack EXCEPT ![n] = Moved(f, new)]
      /\ status' = "running"
  BY <1>1, <1>5, <1>6 DEF MoveItem, Top
<1>8. /\ Sound(new)
      /\ \A kk, vv : In(new, kk, vv) <=> In(f.to, kk, vv) \/ (kk = p.key /\ vv = p.val)
  BY <1>4, <1>6, InsertIs
<1>9. Keyed(new)
  BY <1>3, <1>4, <1>6, InsertKeyed
<1> HIDE DEF new
<1>10. Adds(f.to, new, p.key, p.val)
  BY <1>8 DEF Adds
<1> HIDE DEF p
<1>11. CASE Overloaded(new)
  <2> DEFINE g == _hgrow(new)
  <2>1. Keyed(g.from) /\ Keyed(g.to)
    BY <1>9, CreateKeyed DEF _hgrow
  <2>2. stack' = Append(stack, g)
    BY <1>7, <1>11
  <2> HIDE DEF g, f, n
  <2>3. Len(stack') = n + 1 /\ stack'[n + 1] = g /\ \A m \in 1..n : stack'[m] = stack[m]
    BY <1>1, <1>2, <2>2 DEF n
  <2>4. \A m \in 1..Len(stack') : Keyed(stack'[m].from) /\ Keyed(stack'[m].to)
    <3> SUFFICES ASSUME NEW m \in 1..(n + 1) PROVE Keyed(stack'[m].from) /\ Keyed(stack'[m].to)
      BY <2>3
    <3>1. m \in 1..n \/ m = n + 1
      BY <1>2
    <3> QED BY <1>3, <2>1, <2>3, <3>1
  <2> QED BY <1>1, <1>7, <2>4 DEF AllKeyed
<1>12. CASE ~Overloaded(new)
  <2> DEFINE g == Moved(f, new)
  <2>1. Keyed(g.from) /\ Keyed(g.to)
    BY <1>1, <1>2, <1>3, <1>5, <1>8, <1>9, <1>10, MovedKeyed DEF p
  <2>2. stack' = [stack EXCEPT ![n] = g]
    BY <1>7, <1>12
  <2> HIDE DEF g, f, n
  <2>3. Len(stack') = n /\ stack'[n] = g /\ \A m \in 1..n : m # n => stack'[m] = stack[m]
    BY <1>1, <1>2, <2>2 DEF n
  <2>4. \A m \in 1..Len(stack') : Keyed(stack'[m].from) /\ Keyed(stack'[m].to)
    BY <1>3, <2>1, <2>3
  <2> QED BY <1>1, <1>7, <2>4 DEF AllKeyed
<1> QED BY <1>11, <1>12

\* A call returns.
LEMMA GrownKeyed ==
  ASSUME HInv, AllKeyed, Grown
  PROVE  AllKeyed'
<1> DEFINE n == Len(stack)
           g == Top
           t == Keeps(g.from, g.to)
<1>1. stack # <<>> /\ Left(g) = {} /\ status' = "running" /\ Keyed(ht)
  BY DEF Grown, Growing, AllKeyed, Running
<1>2. Growth(g) /\ n \in Nat /\ n \in 1..n /\ StackOK(ht, stack)
  BY <1>1, TopIs DEF HInv
<1>3. \A m \in 1..n : Keyed(stack[m].from) /\ Keyed(stack[m].to)
  BY DEF AllKeyed
<1>4. Keyed(t)
  BY <1>2, <1>3, KeepsKeyed DEF Top, Growth
<1>5. CASE n = 1
  <2>1. ht' = t /\ stack' = <<>>
    BY <1>5 DEF Grown
  <2> HIDE DEF t
  <2> QED BY <1>1, <1>4, <2>1 DEF AllKeyed
<1>6. CASE n # 1
  <2> DEFINE f == stack[n - 1]
             h == Moved(f, t)
  <2>1. stack' = [i \in 1..(n - 1) |-> IF i = n - 1 THEN h ELSE stack[i]] /\ ht' = ht
    BY <1>6 DEF Grown
  <2>2. n > 1 /\ n - 1 \in Nat /\ n - 1 \in 1..n /\ n \in 2..n
    <3> HIDE DEF n
    <3> QED BY <1>2, <1>6
  <2>3. Growth(f) /\ Within(f, g)
    BY <1>2, <2>2 DEF StackOK, Top
  <2>4. Sound(t) /\ \A k \in Keys, v \in Stored : In(t, k, v) <=> In(g.from, k, v)
    BY <1>1, <1>2, LeftNone
  <2> HIDE DEF t
  <2>5. Left(f) # {} /\ Pending(f).key # NULL /\ Adds(f.to, g.from, Pending(f).key, Pending(f).val)
    BY <2>3 DEF Within
  <2>6. Adds(f.to, t, Pending(f).key, Pending(f).val)
    BY <2>4, <2>5 DEF Adds
  <2>7. Keyed(h.from) /\ Keyed(h.to)
    BY <1>3, <1>4, <2>2, <2>3, <2>4, <2>5, <2>6, MovedKeyed
  <2> HIDE DEF h, f, n
  <2>8. Len(stack') = n - 1 /\ \A m \in 1..(n - 1) : stack'[m] = IF m = n - 1 THEN h ELSE stack[m]
    BY <2>1, <2>2
  <2>9. \A m \in 1..Len(stack') : Keyed(stack'[m].from) /\ Keyed(stack'[m].to)
    <3> SUFFICES ASSUME NEW m \in 1..(n - 1) PROVE Keyed(stack'[m].from) /\ Keyed(stack'[m].to)
      BY <2>8
    <3>1. m \in 1..n
      BY <1>2, <2>2
    <3> QED BY <1>3, <2>7, <2>8, <3>1
  <2> QED BY <1>1, <2>1, <2>9 DEF AllKeyed
<1> QED BY <1>5, <1>6

\* The process lives as long as memory is found for keys and for the items of growth: of
\* the failures that are left, one is answered and leaves the table as it was, the other is
\* answered although the entry is there.  These are the two that the server is modelled with.
THEOREM TableSurvives ==
  ASSUME Sites \subseteq {"item", "create"}
  PROVE  Spec => [](status = "running")
<1>0. "key" \notin Sites /\ "move" \notin Sites
  OBVIOUS
<1>1. Init => AllKeyed
  BY CreateKeyed DEF Init, AllKeyed
<1>2. HInv /\ AllKeyed /\ [Next]_vars => AllKeyed'
  <2> SUFFICES ASSUME HInv, AllKeyed, [Next]_vars PROVE AllKeyed'
    OBVIOUS
  <2>1. ASSUME NEW k \in Keys, Delete(k) PROVE AllKeyed'
    <3>1. Keyed(ht') /\ stack' = <<>> /\ status' = "running"
      BY <2>1, FoundKeyed DEF Delete, Idle, AllKeyed, HInv, TableOK
    <3> QED BY <3>1 DEF AllKeyed
  <2>2. ASSUME NEW k \in Keys, NEW v \in Vals, Set(k, v) PROVE AllKeyed'
    BY <1>0, <2>2, SetKeyed
  <2>3. CASE FlushAll
    <3>1. Keyed(ht') /\ stack' = <<>> /\ status' = "running"
      BY <2>3, FlushKeyed DEF FlushAll, Idle, AllKeyed, HInv, TableOK
    <3> QED BY <3>1 DEF AllKeyed
  <2>4. CASE MoveItem
    BY <2>4, MoveKeyed
  <2>5. CASE Grown
    BY <2>5, GrownKeyed
  <2>6. CASE GrowthFails
    <3>1. stack # <<>> /\ ~Clash(Top)
      BY <2>6, TopIs, NoClash DEF GrowthFails, Growing
    <3>2. ht' = stack[1].from /\ stack' = <<>> /\ status' = status
      BY <1>0, <2>6, <3>1 DEF GrowthFails
    <3>3. 1 \in 1..Len(stack)
      BY <3>1 DEF HInv, StackOK
    <3> QED BY <3>2, <3>3 DEF AllKeyed
  <2>7. CASE UNCHANGED vars
    BY <2>7 DEF vars, AllKeyed
  <2> QED BY <2>1, <2>2, <2>3, <2>4, <2>5, <2>6, <2>7 DEF Next
<1>3. AllKeyed => status = "running"
  BY DEF AllKeyed
<1> QED BY <1>1, <1>2, <1>3, TableInvariant, PTL DEF Spec
=============================================================================

----------------------------- MODULE ListLemmas -----------------------------
(***************************************************************************)
(* What the proofs need of sequences that hold nothing twice, which is     *)
(* what the lists of slabs are, and of the least element of a set.         *)
(***************************************************************************)
EXTENDS Integers, SequencesExt, FiniteSetTheorems, SequenceTheorems, TLAPS

\* A set of naturals that is not empty has a least element.
LEMMA Least ==
  ASSUME NEW T \in SUBSET Nat, T # {}
  PROVE  Min(T) \in T /\ \A y \in T : Min(T) <= y
<1> DEFINE R == {ss \in Nat \X Nat : ss[1] < ss[2]}
<1>1. IsWellFoundedOn(R, Nat)
  BY NatLessThanWellFounded DEF OpToRel
<1>2. PICK x \in T : \A y \in T : ~(<<y, x>> \in R)
  <2> HIDE DEF R
  <2> QED BY <1>1, WFMin
<1>3. ASSUME NEW y \in T PROVE x <= y
  <2>1. x \in Nat /\ y \in Nat
    OBVIOUS
  <2>2. <<y, x>> \in Nat \X Nat /\ <<y, x>>[1] = y /\ <<y, x>>[2] = x
    BY <2>1
  <2> QED BY <1>2, <2>1, <2>2
<1> QED BY <1>3 DEF Min

-----------------------------------------------------------------------------
(* Lists without repetitions                                               *)

\* What Cons puts where.
LEMMA ConsIs ==
  ASSUME NEW S, NEW seq \in Seq(S), NEW e \in S
  PROVE  /\ Cons(e, seq) \in Seq(S) /\ Len(Cons(e, seq)) = Len(seq) + 1 /\ Len(seq) \in Nat
         /\ Cons(e, seq)[1] = e
         /\ \A i \in 1..Len(seq) : Cons(e, seq)[i + 1] = seq[i]
         /\ \A i \in 2..(Len(seq) + 1) : i - 1 \in 1..Len(seq) /\ Cons(e, seq)[i] = seq[i - 1]
<1> DEFINE new == <<e>> \o seq
<1>1. /\ new \in Seq(S) /\ Len(new) = Len(seq) + 1 /\ new[1] = e /\ Len(seq) \in Nat
      /\ \A i \in 1..Len(seq) : new[i + 1] = seq[i]
  OBVIOUS
<1>2. \A i \in 2..(Len(seq) + 1) : i - 1 \in 1..Len(seq) /\ new[i] = seq[i - 1]
  BY <1>1
<1> QED BY <1>1, <1>2 DEF Cons

\* Putting an element that is not there in front.
LEMMA ConsIn ==
  ASSUME NEW S, NEW seq \in Seq(S), NEW e \in S, IsInjective(seq), ~Contains(seq, e)
  PROVE  /\ Cons(e, seq) \in Seq(S)
         /\ IsInjective(Cons(e, seq))
         /\ \A x : Contains(Cons(e, seq), x) <=> x = e \/ Contains(seq, x)
<1> DEFINE new == Cons(e, seq)
<1>1. /\ new \in Seq(S) /\ Len(new) = Len(seq) + 1 /\ new[1] = e /\ Len(seq) \in Nat
      /\ \A i \in 1..Len(seq) : new[i + 1] = seq[i]
  BY ConsIs
<1>2. \A i \in 2..Len(new) : i - 1 \in 1..Len(seq) /\ new[i] = seq[i - 1]
  BY <1>1, ConsIs
<1>3. ASSUME NEW x PROVE Contains(new, x) <=> x = e \/ Contains(seq, x)
  <2> HIDE DEF new
  <2>1. ASSUME Contains(seq, x) PROVE Contains(new, x)
    <3>1. PICK i \in 1..Len(seq) : seq[i] = x
      BY <2>1 DEF Contains
    <3>2. i + 1 \in 1..Len(new) /\ new[i + 1] = x
      BY <1>1, <3>1
    <3> QED BY <3>2 DEF Contains
  <2>2. ASSUME Contains(new, x), x # e PROVE Contains(seq, x)
    <3>1. PICK i \in 1..Len(new) : new[i] = x
      BY <2>2 DEF Contains
    <3>2. i \in 2..Len(new)
      BY <1>1, <2>2, <3>1
    <3> QED BY <1>2, <3>1, <3>2 DEF Contains
  <2>3. Contains(new, e)
    BY <1>1 DEF Contains
  <2> QED BY <2>1, <2>2, <2>3
<1>4. IsInjective(new)
  <2> HIDE DEF new
  <2>1. DOMAIN new = 1..Len(new) /\ DOMAIN seq = 1..Len(seq)
    BY <1>1
  <2> SUFFICES ASSUME NEW i \in 1..Len(new), NEW j \in 1..Len(new), new[i] = new[j]
               PROVE  i = j
    BY <2>1 DEF IsInjective
  <2>2. \A k \in 1..Len(seq) : seq[k] # e
    BY DEF Contains
  <2>3. CASE i = 1
    BY <1>1, <1>2, <2>2, <2>3
  <2>4. CASE j = 1
    BY <1>1, <1>2, <2>2, <2>4
  <2>5. CASE i # 1 /\ j # 1
    <3>1. i \in 2..Len(new) /\ j \in 2..Len(new)
      BY <1>1, <2>5
    <3>2. i - 1 \in 1..Len(seq) /\ j - 1 \in 1..Len(seq) /\ seq[i - 1] = seq[j - 1]
      BY <1>2, <3>1
    <3>3. i - 1 = j - 1
      BY <2>1, <3>2 DEF IsInjective
    <3> QED BY <1>1, <3>3
  <2> QED BY <2>3, <2>4, <2>5
<1> QED BY <1>1, <1>3, <1>4 DEF new

\* What is left when the element at place k is taken out.
LEMMA RemoveAtIs ==
  ASSUME NEW S, NEW seq \in Seq(S), NEW k \in 1..Len(seq)
  PROVE  /\ RemoveAt(seq, k) \in Seq(S) /\ Len(RemoveAt(seq, k)) = Len(seq) - 1 /\ Len(seq) \in Nat
         /\ \A i \in 1..(Len(seq) - 1) : RemoveAt(seq, k)[i] = IF i < k THEN seq[i] ELSE seq[i + 1]
<1> DEFINE a == SubSeq(seq, 1, k - 1)
           b == SubSeq(seq, k + 1, Len(seq))
           new == a \o b
<1>0. Len(seq) \in Nat /\ k \in Nat /\ k >= 1 /\ k <= Len(seq)
  OBVIOUS
<1>a. /\ a \in Seq(S) /\ Len(a) = k - 1
      /\ \A i \in 1..(k - 1) : a[i] = seq[i]
  BY <1>0, SubSeqProperties
<1>b. /\ b \in Seq(S) /\ Len(b) = Len(seq) - k
      /\ \A i \in 1..(Len(seq) - k) : b[i] = seq[k + i]
  <2>1. k + 1 \in 1..(Len(seq) + 1) /\ Len(seq) \in k..Len(seq)
    BY <1>0
  <2> QED BY <1>0, <2>1
<1>1. /\ new \in Seq(S) /\ Len(new) = Len(seq) - 1 /\ Len(seq) \in Nat
      /\ \A i \in 1..(Len(seq) - 1) : new[i] = IF i < k THEN seq[i] ELSE seq[i + 1]
  <2> HIDE DEF a, b
  <2>1. new \in Seq(S) /\ Len(new) = Len(seq) - 1
    <3>1. new \in Seq(S) /\ Len(new) = Len(a) + Len(b)
      BY <1>a, <1>b, ConcatProperties
    <3> QED BY <1>0, <1>a, <1>b, <3>1
  <2>2. ASSUME NEW i \in 1..(Len(seq) - 1)
        PROVE  new[i] = IF i < k THEN seq[i] ELSE seq[i + 1]
    <3>1. CASE i < k
      BY <1>0, <1>a, <1>b, <3>1, ConcatProperties
    <3>2. CASE i >= k
      <4>1. new[i] = b[i - (k - 1)] /\ i - (k - 1) \in 1..(Len(seq) - k)
        BY <1>0, <1>a, <1>b, <3>2, ConcatProperties
      <4> QED BY <1>0, <1>b, <3>2, <4>1
    <3>3. i < k \/ i >= k
      BY <1>0
    <3> QED BY <3>1, <3>2, <3>3
  <2> QED BY <1>0, <2>1, <2>2
<1> QED BY <1>1 DEF new, a, b, RemoveAt

\* Taking out the element at place k.
LEMMA RemoveAtIn ==
  ASSUME NEW S, NEW seq \in Seq(S), IsInjective(seq), NEW k \in 1..Len(seq)
  PROVE  /\ RemoveAt(seq, k) \in Seq(S)
         /\ IsInjective(RemoveAt(seq, k))
         /\ \A x : Contains(RemoveAt(seq, k), x) <=> x # seq[k] /\ Contains(seq, x)
<1> DEFINE new == RemoveAt(seq, k)
<1>1. /\ new \in Seq(S) /\ Len(new) = Len(seq) - 1 /\ Len(seq) \in Nat
      /\ \A i \in 1..(Len(seq) - 1) : new[i] = IF i < k THEN seq[i] ELSE seq[i + 1]
  BY RemoveAtIs
<1>2. DOMAIN new = 1..Len(new) /\ DOMAIN seq = 1..Len(seq)
  <2> HIDE DEF new
  <2> QED BY <1>1
<1> HIDE DEF new
<1>3. ASSUME NEW x PROVE Contains(new, x) <=> x # seq[k] /\ Contains(seq, x)
  <2>1. ASSUME Contains(new, x) PROVE x # seq[k] /\ Contains(seq, x)
    <3>1. PICK i \in 1..Len(new) : new[i] = x
      BY <2>1 DEF Contains
    <3>2. PICK j \in 1..Len(seq) : j # k /\ seq[j] = x
      BY <1>1, <3>1
    <3> QED BY <1>2, <3>2 DEF IsInjective, Contains
  <2>2. ASSUME x # seq[k], Contains(seq, x) PROVE Contains(new, x)
    <3>1. PICK j \in 1..Len(seq) : seq[j] = x
      BY <2>2 DEF Contains
    <3>2. CASE j < k
      <4>1. j \in 1..Len(new) /\ new[j] = x
        BY <1>1, <3>1, <3>2
      <4> QED BY <4>1 DEF Contains
    <3>3. CASE j > k
      <4>1. j - 1 \in 1..Len(new) /\ new[j - 1] = x
        BY <1>1, <3>1, <3>3
      <4> QED BY <4>1 DEF Contains
    <3> QED BY <1>1, <2>2, <3>1, <3>2, <3>3
  <2> QED BY <2>1, <2>2
<1>4. IsInjective(new)
  <2> SUFFICES ASSUME NEW i \in 1..Len(new), NEW j \in 1..Len(new), new[i] = new[j]
               PROVE  i = j
    BY <1>2 DEF IsInjective
  <2> DEFINE f(n) == IF n < k THEN n ELSE n + 1
  <2>0. ASSUME NEW n \in 1..Len(new) PROVE f(n) \in 1..Len(seq) /\ seq[f(n)] = new[n]
    <3>1. CASE n < k
      BY <1>1, <3>1
    <3>2. CASE ~(n < k)
      BY <1>1, <3>2
    <3> QED BY <3>1, <3>2
  <2>1. f(i) \in 1..Len(seq) /\ f(j) \in 1..Len(seq) /\ seq[f(i)] = seq[f(j)]
    <3> HIDE DEF f
    <3> QED BY <2>0
  <2>2. f(i) = f(j)
    <3> HIDE DEF f
    <3> QED BY <1>2, <2>1 DEF IsInjective
  <2> QED BY <1>1, <2>2
<1> QED BY <1>1, <1>3, <1>4 DEF new

\* The element that RemoveFirst takes out is where it is.
LEMMA RemoveFirstIs ==
  ASSUME NEW S, NEW seq \in Seq(S), IsInjective(seq), NEW k \in 1..Len(seq)
  PROVE  RemoveFirst(seq, seq[k]) = RemoveAt(seq, k)
<1>1. {i \in 1..Len(seq) : seq[i] = seq[k]} = {k}
  BY DEF IsInjective
<1>2. Min({k}) = k
  BY DEF Min
<1>3. SelectInSeq(seq, LAMBDA v : v = seq[k]) = k
  BY <1>1, <1>2 DEF SelectInSeq
<1> QED BY <1>3 DEF RemoveFirst

\* Taking out an element that is there.
LEMMA RemoveIn ==
  ASSUME NEW S, NEW seq \in Seq(S), IsInjective(seq), NEW e, Contains(seq, e)
  PROVE  /\ RemoveFirst(seq, e) \in Seq(S)
         /\ IsInjective(RemoveFirst(seq, e))
         /\ \A x : Contains(RemoveFirst(seq, e), x) <=> x # e /\ Contains(seq, x)
<1>1. PICK k \in 1..Len(seq) : seq[k] = e
  BY DEF Contains
<1>2. RemoveFirst(seq, e) = RemoveAt(seq, k)
  BY <1>1, RemoveFirstIs
<1> QED BY <1>1, <1>2, RemoveAtIn

\* Taking out the first element.
LEMMA TailIn ==
  ASSUME NEW S, NEW seq \in Seq(S), IsInjective(seq), seq # <<>>
  PROVE  /\ Tail(seq) \in Seq(S) /\ Head(seq) \in S /\ Contains(seq, Head(seq))
         /\ IsInjective(Tail(seq))
         /\ \A x : Contains(Tail(seq), x) <=> x # Head(seq) /\ Contains(seq, x)
<1>1. Len(seq) \in Nat /\ 1 \in 1..Len(seq) /\ Head(seq) = seq[1]
  OBVIOUS
<1>2. Tail(seq) = RemoveAt(seq, 1)
  <2>1. SubSeq(seq, 1, 0) = <<>> /\ SubSeq(seq, 2, Len(seq)) = Tail(seq) /\ Tail(seq) \in Seq(S)
    BY <1>1
  <2> QED BY <1>1, <2>1 DEF RemoveAt
<1>3. Contains(seq, seq[1]) /\ seq[1] \in S
  BY <1>1 DEF Contains
<1>4. /\ RemoveAt(seq, 1) \in Seq(S)
      /\ IsInjective(RemoveAt(seq, 1))
      /\ \A x : Contains(RemoveAt(seq, 1), x) <=> x # seq[1] /\ Contains(seq, x)
  BY <1>1, RemoveAtIn
<1> QED BY <1>1, <1>2, <1>3, <1>4
=============================================================================

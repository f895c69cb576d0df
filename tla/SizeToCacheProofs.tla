-------------------------- MODULE SizeToCacheProofs --------------------------
(***************************************************************************)
(* The search for a size class is right for tables of any length.          *)
(***************************************************************************)
EXTENDS SizeToCache, TLAPS

\* The last index of a table is one less than its length.
LEMMA LastOf ==
  ASSUME Table(arr)
  PROVE  /\ Last \in Nat
         /\ DOMAIN arr = 0..Last
         /\ arr \in [0..Last -> Nat]
         /\ \A i, j \in 0..Last : i < j => arr[i] < arr[j]
<1>1. PICK n \in 1..(INT_MAX - 1) : /\ arr \in [0..(n - 1) -> Nat]
                                    /\ \A i, j \in 0..(n - 1) : i < j => arr[i] < arr[j]
  BY DEF Table
<1>2. n \in Nat /\ n >= 1
  BY <1>1, LengthAssumption
<1>3. DOMAIN arr = 0..(n - 1)
  BY <1>1
<1>4. (n - 1) \in DOMAIN arr /\ \A i \in DOMAIN arr : i <= n - 1
  BY <1>2, <1>3
<1>5. Last = n - 1
  BY <1>2, <1>3, <1>4 DEF Last
<1> QED
  BY <1>1, <1>2, <1>3, <1>5

\* The search starts with the whole table.
LEMMA InitLoop == Init => LoopInv
<1> SUFFICES ASSUME Init PROVE LoopInv
  OBVIOUS
<1>1. Table(arr) /\ key \in Nat
  BY ArraysAssumption, RequestsAssumption DEF Init
<1> QED
  BY <1>1, LastOf DEF Init, LoopInv

\* The middle lies in what is left to search.
LEMMA MiddleWithin ==
  ASSUME LoopInv, pc = "search", l < r
  PROVE  Middle \in l..(r - 1) /\ Middle \in 0..Last /\ arr[Middle] \in Nat
<1>1. Last \in Nat /\ arr \in [0..Last -> Nat] /\ l \in Nat /\ r \in Int /\ r <= Last
  BY LastOf DEF LoopInv
<1>2. Middle \in l..(r - 1)
  BY <1>1 DEF Middle
<1> QED
  BY <1>1, <1>2

\* A comparison that narrows the search keeps the invariant of the loop.
LEMMA SearchKeeps == LoopInv /\ Search => LoopInv'
<1> SUFFICES ASSUME LoopInv, Search PROVE LoopInv'
  OBVIOUS
<1> DEFINE n == Middle
<1>1. pc = "search" /\ l < r /\ UNCHANGED <<arr, key>> /\ Last' = Last
  BY DEF Search, Last
<1>2. n \in l..(r - 1) /\ n \in 0..Last /\ arr[n] \in Nat
  BY <1>1, MiddleWithin
<1>3. /\ Last \in Nat /\ DOMAIN arr = 0..Last /\ arr \in [0..Last -> Nat]
      /\ \A i, j \in 0..Last : i < j => arr[i] < arr[j]
      /\ key \in Nat /\ l \in 0..(Last + 1) /\ r \in -1..Last
  BY LastOf DEF LoopInv
<1>4. (key > arr[n] /\ l' = n + 1 /\ r' = r /\ UNCHANGED <<pc, result>>) => LoopInv'
  <2> SUFFICES ASSUME key > arr[n], l' = n + 1, r' = r, UNCHANGED <<pc, result>>
               PROVE  LoopInv'
    OBVIOUS
  <2> HIDE DEF n
  <2>1. \A i \in 0..Last : i < n + 1 => arr[i] < key
    <3> SUFFICES ASSUME NEW i \in 0..Last, i < n + 1 PROVE arr[i] < key
      OBVIOUS
    <3>1. i = n \/ arr[i] < arr[n]
      BY <1>2, <1>3
    <3> QED
      BY <3>1, <1>2, <1>3
  <2> QED
    BY <1>1, <1>2, <1>3, <2>1 DEF LoopInv, Table
<1>5. (key < arr[n] /\ l' = l /\ r' = n - 1 /\ UNCHANGED <<pc, result>>) => LoopInv'
  <2> SUFFICES ASSUME key < arr[n], l' = l, r' = n - 1, UNCHANGED <<pc, result>>
               PROVE  LoopInv'
    OBVIOUS
  <2> HIDE DEF n
  <2>1. \A i \in 0..Last : i > n - 1 => key < arr[i]
    <3> SUFFICES ASSUME NEW i \in 0..Last, i > n - 1 PROVE key < arr[i]
      OBVIOUS
    <3>1. i = n \/ arr[n] < arr[i]
      BY <1>2, <1>3
    <3> QED
      BY <3>1, <1>2, <1>3
  <2> QED
    BY <1>1, <1>2, <1>3, <2>1 DEF LoopInv, Table
<1>6. (Return(n) /\ UNCHANGED <<l, r>>) => LoopInv'
  BY <1>1, <1>3 DEF LoopInv, Return, Table
<1> QED
  BY <1>1, <1>4, <1>5, <1>6 DEF Search, Narrow

\* What the loop leaves behind is at most one class too low.
LEMMA LeaveKeeps == LoopInv /\ Leave => LoopInv'
<1> SUFFICES ASSUME LoopInv, Leave PROVE LoopInv'
  OBVIOUS
<1>1. UNCHANGED <<arr, key, l, result>> /\ Last' = Last /\ pc = "search" /\ l >= r
      /\ pc' = "ceil" /\ r' = IF r < 0 THEN 0 ELSE r
  BY DEF Leave, Last
<1>2. /\ Last \in Nat /\ DOMAIN arr = 0..Last /\ arr \in [0..Last -> Nat]
      /\ key \in Nat /\ l \in 0..(Last + 1) /\ r \in -1..Last
  BY LastOf DEF LoopInv
<1> QED
  BY <1>1, <1>2 DEF LoopInv, Table

\* The invariant of the loop, for every step.
LEMMA LoopKeeps == LoopInv /\ [Next]_vars => LoopInv'
<1> SUFFICES ASSUME LoopInv, [Next]_vars PROVE LoopInv'
  OBVIOUS
<1>1. ASSUME Ceil PROVE LoopInv'
  <2>1. UNCHANGED <<arr, key, l, r>> /\ pc' = "done" /\ Last' = Last
    BY <1>1 DEF Ceil, Return, Last
  <2> QED
    BY <2>1 DEF LoopInv, Table
<1>2. ASSUME UNCHANGED vars PROVE LoopInv'
  BY <1>2 DEF LoopInv, Table, Last, vars
<1> QED
  BY <1>1, <1>2, SearchKeeps, LeaveKeeps DEF Next, Finished

\* The invariant of the loop holds at every moment of every call.
THEOREM Loop == Spec => []LoopInv
  BY InitLoop, LoopKeeps, PTL DEF Spec

\* size_to_cache never reads beside the table.
THEOREM Bounded == Spec => []InBounds
<1>1. LoopInv => InBounds
  BY MiddleWithin, LastOf DEF LoopInv, InBounds
<1> QED
  BY <1>1, Loop, PTL

\* What is returned is right when it is returned, and does not change.
LEMMA FoundKeeps == LoopInv /\ FindsSmallestFit /\ [Next]_vars => FindsSmallestFit'
<1> SUFFICES ASSUME LoopInv, FindsSmallestFit, [Next]_vars PROVE FindsSmallestFit'
  OBVIOUS
<1> DEFINE n == Middle
<1>1. /\ Last \in Nat /\ DOMAIN arr = 0..Last /\ arr \in [0..Last -> Nat]
      /\ \A i, j \in 0..Last : i < j => arr[i] < arr[j]
      /\ key \in Nat
  BY LastOf DEF LoopInv
<1>2. ASSUME Search PROVE FindsSmallestFit'
  <2>1. pc = "search" /\ l < r /\ UNCHANGED <<arr, key>>
    BY <1>2 DEF Search
  <2>2. n \in 0..Last /\ arr[n] \in Nat
    BY <2>1, MiddleWithin
  <2>3. UNCHANGED pc \/ (key = arr[n] /\ result' = n /\ pc' = "done")
    BY <1>2 DEF Search, Return, Narrow
  <2> HIDE DEF n
  <2>4. key = arr[n] => SmallestFit(n)
    BY <1>1, <2>2 DEF SmallestFit
  <2>5. n # NULL
    BY <2>2, <1>1, NullAssumption
  <2> QED
    BY <2>1, <2>3, <2>4, <2>5 DEF FindsSmallestFit, SmallestFit
<1>3. ASSUME Leave PROVE FindsSmallestFit'
  BY <1>3 DEF Leave, FindsSmallestFit
<1>4. ASSUME Ceil PROVE FindsSmallestFit'
  <2>1. /\ pc = "ceil" /\ UNCHANGED <<arr, key, l, r>> /\ pc' = "done"
        /\ result' = IF key <= arr[r] THEN r ELSE Above
    BY <1>4 DEF Ceil, Return
  <2>2. /\ r \in 0..Last
        /\ \A i \in 0..Last : i < r => arr[i] < key
        /\ \A i \in 0..Last : i > r => key <= arr[i]
    BY <1>1, <2>1 DEF LoopInv
  <2>3. CASE key <= arr[r]
    <3>1. SmallestFit(r)
      BY <1>1, <2>2, <2>3 DEF SmallestFit
    <3>2. result' = r /\ r # NULL
      BY <2>1, <2>2, <2>3, <1>1, NullAssumption
    <3> QED
      BY <2>1, <3>1, <3>2 DEF FindsSmallestFit, SmallestFit
  <2>4. CASE key > arr[r] /\ r < Last
    <3>1. r + 1 \in 0..Last /\ key <= arr[r + 1]
      BY <1>1, <2>2, <2>4
    <3>2. SmallestFit(r + 1)
      <4> SUFFICES ASSUME NEW j \in 0..Last, key <= arr[j] PROVE r + 1 <= j
        BY <1>1, <3>1 DEF SmallestFit
      <4> QED
        BY <1>1, <2>2, <2>4
    <3>3. result' = r + 1 /\ r + 1 # NULL
      BY <2>1, <2>2, <2>4, <3>1, <1>1, NullAssumption DEF Above
    <3> QED
      BY <2>1, <3>2, <3>3 DEF FindsSmallestFit, SmallestFit
  <2>5. CASE key > arr[r] /\ r = Last
    <3>1. result' = NULL
      BY <2>1, <2>2, <2>5, <1>1 DEF Above
    <3>2. \A i \in DOMAIN arr : arr[i] < key
      BY <1>1, <2>2, <2>5
    <3> QED
      BY <2>1, <3>1, <3>2 DEF FindsSmallestFit
  <2> QED
    BY <2>2, <2>3, <2>4, <2>5, <1>1
<1>5. ASSUME UNCHANGED vars PROVE FindsSmallestFit'
  BY <1>5 DEF vars, FindsSmallestFit, SmallestFit
<1> QED
  BY <1>2, <1>3, <1>4, <1>5 DEF Next, Finished

\* For every table and every request size_to_cache returns the smallest class that
\* fits, and NULL only when there is none.
THEOREM SmallestFound == Spec => []FindsSmallestFit
<1>1. Init => FindsSmallestFit
  BY DEF Init, FindsSmallestFit
<1> QED
  BY <1>1, FoundKeeps, Loop, PTL DEF Spec
=============================================================================

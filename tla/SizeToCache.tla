----------------------------- MODULE SizeToCache -----------------------------
(***************************************************************************)
(* size_to_cache of src/src/slab.c: the search for the smallest size class *)
(* that fits a request.  It is a binary search that gives up one place     *)
(* early or late, and a last comparison that puts that right.  Indices are *)
(* those of C, from 0.                                                     *)
(***************************************************************************)
EXTENDS Integers

CONSTANTS
  Arrays,    \* the tables of chunk sizes, each increasing from index 0
  Requests,  \* the sizes asked for
  INT_MAX,   \* tables as long as this are refused
  NULL

Table(a) == \E n \in 1..(INT_MAX - 1) :
              /\ a \in [0..(n - 1) -> Nat]
              /\ \A i, j \in 0..(n - 1) : i < j => a[i] < a[j]

ASSUME ArraysAssumption == \A a \in Arrays : Table(a)
ASSUME LengthAssumption == INT_MAX \in Nat
ASSUME RequestsAssumption == Requests \subseteq Nat
ASSUME NullAssumption == NULL \notin Nat

VARIABLES arr, key,  \* the parameters; arr_size is the size of arr's domain
          l, r,      \* what is left to search
          pc,        \* "search", "ceil" or "done"
          result     \* the index of the class, or NULL

vars == <<arr, key, l, r, pc, result>>

\* The last index, arr_size - 1.
Last == CHOOSE n \in DOMAIN arr : \A i \in DOMAIN arr : i <= n

Init ==
  /\ arr \in Arrays /\ key \in Requests
  /\ l = 0 /\ r = Last
  /\ pc = "search" /\ result = NULL

Return(i) == pc' = "done" /\ result' = i

Middle == (l + r) \div 2

Narrow_far == \/ key > arr[Middle] /\ l' = Middle + 1 /\ r' = r
              \/ key < arr[Middle] /\ l' = l /\ r' = Middle - 2

Narrow_stuck == \/ key > arr[Middle] /\ l' = Middle /\ r' = r
                \/ key < arr[Middle] /\ l' = l /\ r' = Middle - 1

Narrow == \/ key > arr[Middle] /\ l' = Middle + 1 /\ r' = r
          \/ key < arr[Middle] /\ l' = l /\ r' = Middle - 1

Search ==
  /\ pc = "search" /\ l < r
  /\ \/ Narrow /\ UNCHANGED <<pc, result>>
     \/ key = arr[Middle] /\ Return(Middle) /\ UNCHANGED <<l, r>>
  /\ UNCHANGED <<arr, key>>

Leave_below ==
  /\ pc = "search" /\ l >= r
  /\ pc' = "ceil"
  /\ UNCHANGED <<arr, key, l, r, result>>

Leave ==
  /\ pc = "search" /\ l >= r
  /\ r' = IF r < 0 THEN 0 ELSE r
  /\ pc' = "ceil"
  /\ UNCHANGED <<arr, key, l, result>>

Above_none == NULL

\* One class up, if there is one and it is large enough.
Above == IF r < Last /\ key <= arr[r + 1] THEN r + 1 ELSE NULL

Ceil ==
  /\ pc = "ceil"
  /\ Return(IF key <= arr[r] THEN r ELSE Above)
  /\ UNCHANGED <<arr, key, l, r>>

\* The caller has its class.
Finished == pc = "done" /\ UNCHANGED vars

Next == Search \/ Leave \/ Ceil \/ Finished

Spec == Init /\ [][Next]_vars

\* A call runs to its end: there is nobody to interrupt it.
FairSpec == Spec /\ WF_vars(Search \/ Leave \/ Ceil)
-----------------------------------------------------------------------------
\* The smallest class that fits, which is what the comment on the function calls
\* ceiling the size.
SmallestFit(i) == i \in DOMAIN arr /\ key <= arr[i] /\ \A j \in DOMAIN arr : key <= arr[j] => i <= j

\* size_to_cache returns the smallest class that fits, and NULL only when none does.
FindsSmallestFit ==
  pc = "done" => IF result = NULL THEN \A i \in DOMAIN arr : arr[i] < key
                                  ELSE SmallestFit(result)

\* Every array access of the loop and of the last comparison is within the table.
InBounds ==
  /\ pc = "search" /\ l < r => Middle \in DOMAIN arr
  /\ pc = "ceil" => r \in DOMAIN arr

\* The invariant of the loop: classes left of l are too small, classes right of r + 1
\* are needlessly large, and the place where the search ends is at most one too low.
LoopInv ==
  /\ Table(arr) /\ key \in Nat
  /\ l \in 0..(Last + 1) /\ r \in -1..Last
  /\ pc \in {"search", "ceil", "done"}
  /\ pc = "search" => l <= r + 1
  /\ pc # "done" => result = NULL
  /\ pc = "search" => /\ \A i \in DOMAIN arr : i < l => arr[i] < key
                      /\ \A i \in DOMAIN arr : i > r => key < arr[i]
  /\ pc = "ceil" => /\ r >= 0
                    /\ \A i \in DOMAIN arr : i < r => arr[i] < key
                    /\ \A i \in DOMAIN arr : i > r => key <= arr[i]

\* The search returns, however the sizes lie.
Terminates == <>(pc = "done")
=============================================================================

------------------------------ MODULE SlabList ------------------------------
(***************************************************************************)
(* The doubly linked lists of src/src/slab.c.  pop leaves the new head's   *)
(* prev pointing at the slab it took, and the slab's next at the new head; *)
(* rem trusts prev of every slab that is not the head, and a walk trusts   *)
(* next up to NULL.  The allocator moves slabs from list to list and never *)
(* keeps one outside.                                                      *)
(***************************************************************************)
EXTENDS Integers, SequencesExt

CONSTANTS
  slabctl_count,  \* how many slabs
  Lists,          \* the lists: the free slabs, and two for every class
  slabs_free,     \* the list that has every slab at the start
  NULL

Slabs == 0..(slabctl_count - 1)

ASSUME ListsAssumption == slabctl_count \in Nat \ {0} /\ slabs_free \in Lists /\ NULL \notin Slabs

VARIABLE m        \* the pointers: head and tail of lists, next and prev of slabs

push_noback(p, li, s) ==
  [head |-> [p.head EXCEPT ![li] = s],
   tail |-> IF p.head[li] = NULL THEN [p.tail EXCEPT ![li] = s] ELSE p.tail,
   next |-> [p.next EXCEPT ![s] = p.head[li]],
   prev |-> [p.prev EXCEPT ![s] = NULL]]

push(p, li, s) ==
  [head |-> [p.head EXCEPT ![li] = s],
   tail |-> IF p.head[li] = NULL THEN [p.tail EXCEPT ![li] = s] ELSE p.tail,
   next |-> [p.next EXCEPT ![s] = p.head[li]],
   prev |-> [x \in Slabs |-> IF x = s THEN NULL
                             ELSE IF x = p.head[li] THEN s ELSE p.prev[x]]]

pop(p, li) ==
  LET h == p.head[li] IN
  [head |-> [p.head EXCEPT ![li] = p.next[h]],
   tail |-> IF p.next[h] = NULL THEN [p.tail EXCEPT ![li] = NULL] ELSE p.tail,
   next |-> p.next,
   prev |-> [p.prev EXCEPT ![h] = NULL]]

unlink_tail_open(p, li) == [p EXCEPT !.tail[li] = p.prev[p.tail[li]]]

unlink_tail(p, li) ==
  LET before == p.prev[p.tail[li]]
  IN  [p EXCEPT !.next[before] = NULL, !.tail[li] = before]

rem(p, li, s) ==
  IF s = p.head[li] THEN pop(p, li)
  ELSE IF s = p.tail[li] THEN unlink_tail(p, li)
  ELSE [p EXCEPT !.next[p.prev[s]] = p.next[s], !.prev[p.next[s]] = p.prev[s]]

\* The n-th slab from s on.
Nth(p, s, n) ==
  LET at[i \in 1..n] == IF i = 1 THEN s
                        ELSE IF at[i - 1] = NULL THEN NULL ELSE p.next[at[i - 1]]
  IN  at[n]

\* What a walk from the head meets: it ends, unless the pointers run in a circle.
Walk(p, li) ==
  LET met == {n \in 1..slabctl_count : Nth(p, p.head[li], n) # NULL}
  IN  [n \in 1..Cardinality(met) |-> Nth(p, p.head[li], n)]

pop_and_push(src, dest) ==
  /\ m.head[src] # NULL
  /\ m' = push(pop(m, src), dest, m.head[src])

rem_and_push(src, dest, s) ==
  /\ Contains(Walk(m, src), s)
  /\ m' = push(rem(m, src, s), dest, s)

\* init_cache_manager links the array of slabs.
Init ==
  m = [head |-> [li \in Lists |-> IF li = slabs_free THEN 0 ELSE NULL],
       tail |-> [li \in Lists |-> IF li = slabs_free THEN slabctl_count - 1 ELSE NULL],
       next |-> [s \in Slabs |-> IF s = slabctl_count - 1 THEN NULL ELSE s + 1],
       prev |-> [s \in Slabs |-> IF s = 0 THEN NULL ELSE s - 1]]

Next == \E src, dest \in Lists :
          /\ src # dest
          /\ \/ pop_and_push(src, dest)
             \/ \E s \in Slabs : rem_and_push(src, dest, s)

Spec == Init /\ [][Next]_m
-----------------------------------------------------------------------------
\* Where the pointers are trusted they are right: prev of a slab that is not the head
\* is the slab before it, which is the assertion in rem, the tail is the last slab and
\* ends the walk, and no slab is met twice or nowhere.
Linked ==
  /\ \A li \in Lists : LET w == Walk(m, li) IN
       /\ \A i \in 2..Len(w) : m.prev[w[i]] = w[i - 1]
       /\ m.tail[li] = IF w = <<>> THEN NULL ELSE w[Len(w)]
       /\ w # <<>> => m.next[w[Len(w)]] = NULL
       /\ IsInjective(w)
  /\ \A s \in Slabs : \E li \in Lists : /\ Contains(Walk(m, li), s)
                                        /\ \A lj \in Lists \ {li} : ~Contains(Walk(m, lj), s)

Filed == [li \in Lists |-> IF li = slabs_free THEN [i \in 1..slabctl_count |-> i - 1] ELSE <<>>]

Abstract == INSTANCE SlabSequences WITH
  Start <- Filed, contents <- [li \in Lists |-> Walk(m, li)]

\* The pointers implement the sequences of SlabAllocator: what moves a slab takes it
\* out of one list, whole, and puts it at the head of another.
RefinesSequences == Abstract!QSpec
=============================================================================

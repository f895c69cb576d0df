---------------------------- MODULE SlabSequences ----------------------------
(***************************************************************************)
(* The lists of slabs as the allocator thinks of them: sequences, head     *)
(* first, between which slabs move.                                        *)
(***************************************************************************)
EXTENDS SequencesExt

CONSTANTS
  Lists,
  Start     \* their contents at the start

VARIABLE contents  \* list -> sequence of slabs

\* rem_and_push; pop_and_push is the case of the head.
Move(src, dest, s) ==
  /\ Contains(contents[src], s)
  /\ contents' = [contents EXCEPT ![src] = RemoveFirst(@, s), ![dest] = Cons(s, @)]

QInit == contents = Start

QNext == \E src, dest \in Lists : src # dest /\ \E s \in ToSet(contents[src]) : Move(src, dest, s)

QSpec == QInit /\ [][QNext]_contents
=============================================================================

--------------------------- MODULE MCSlabAllocator ---------------------------
(***************************************************************************)
(* Instances of SlabAllocator for TLC: slabs of six bytes.                 *)
(***************************************************************************)
EXTENDS SlabAllocator

\* Classes of three chunks, two and one; the last wastes a byte of its slab.
ThreeClasses == <<2, 3, 5>>
=============================================================================

----------------------------- MODULE MCSlabList -----------------------------
(* The lists of one class, with model values for their names.              *)
EXTENDS SlabList

CONSTANTS free, partial, full
=============================================================================

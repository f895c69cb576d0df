-------------------------------- MODULE MCMem --------------------------------
(***************************************************************************)
(* Instances of Mem for TLC, and the bit sets word by word.                *)
(***************************************************************************)
EXTENDS MCSlabAllocator, Mem

B == INSTANCE BitSet WITH WORD_SIZE_IN_BITS <- 3, WORD_COUNT <- 2
B64 == INSTANCE BitSet WITH WORD_SIZE_IN_BITS <- 64, WORD_COUNT <- 1

\* The table and the factor lead every bit of a word back to itself.
ASSUME TableAssumption ==
  \A j \in 0..63 : B64!nlz64({j}) = j /\ B64!nlz64({j, 63}) = j

\* Word by word, a bit set is what SlabAllocator takes it for.
ASSUME WordsAssumption ==
  \A words \in B!BitSets :
    /\ B!ff_setbit(words) = IF B!AsSet(words) = {} THEN -1 ELSE Min(B!AsSet(words))
    /\ \A b \in 0..5 : /\ B!AsSet(B!set_bit(words, b)) = B!AsSet(words) \cup {b}
                       /\ B!AsSet(B!clear_bit(words, b)) = B!AsSet(words) \ {b}
=============================================================================

------------------------------- MODULE BitSet --------------------------------
(***************************************************************************)
(* The bit sets of src/src/slab.c, word by word, and the multiplication    *)
(* with a de Bruijn sequence that finds the lowest bit of a word.  A word  *)
(* is the set of its bits, and the words are counted from 0.  To           *)
(* SlabAllocator a bit set is the set of all its bits.                     *)
(***************************************************************************)
EXTENDS Integers, Sequences, FiniteSetsExt

CONSTANTS WORD_SIZE_IN_BITS, WORD_COUNT

Words  == 0..(WORD_COUNT - 1)
BitSets == [Words -> SUBSET (0..(WORD_SIZE_IN_BITS - 1))]

bindex(b)   == b \div WORD_SIZE_IN_BITS
bloffset(b) == b % WORD_SIZE_IN_BITS

set_bit(words, b)   == [words EXCEPT ![bindex(b)] = @ \cup {bloffset(b)}]
clear_bit(words, b) == [words EXCEPT ![bindex(b)] = @ \ {bloffset(b)}]
get_bit(words, b)   == bloffset(b) \in words[bindex(b)]

debruij_tab == <<
   0,  1,  2, 53,  3,  7, 54, 27,  4, 38, 41,  8, 34, 55, 48, 28,
  62,  5, 39, 46, 44, 42, 22,  9, 24, 35, 59, 56, 49, 18, 29, 11,
  63, 52,  6, 26, 37, 40, 33, 47, 61, 45, 43, 21, 23, 58, 17, 10,
  51, 25, 36, 32, 60, 20, 57, 16, 50, 31, 19, 15, 30, 14, 13, 12>>

\* 0x022FDD63CC95386D, and its k-th bit from the left; zeros follow its last bit when
\* it is shifted to the left.
Factor == <<0, 2, 2, 15, 13, 13, 6, 3, 12, 12, 9, 5, 3, 8, 6, 13>>

FactorBit(k) == IF k > 63 THEN 0 ELSE (Factor[(k \div 4) + 1] \div 2^(3 - (k % 4))) % 2

\* x & -x is the lowest bit j of x alone, the product is the factor shifted by j, and
\* its six highest bits are the index.
nlz64(w) ==
  LET j == Min(w)
      index == MapThenSumSet(LAMBDA k : FactorBit(j + k) * 2^(5 - k), 0..5)
  IN  debruij_tab[index + 1]

\* The lowest bit of the first word that has one.
ff_setbit(words) ==
  LET some == {i \in Words : words[i] # {}} IN
  IF some = {} THEN -1 ELSE nlz64(words[Min(some)]) + Min(some) * WORD_SIZE_IN_BITS

\* The bits of the bit set as one set.
AsSet(words) == {b \in 0..((WORD_COUNT * WORD_SIZE_IN_BITS) - 1) : get_bit(words, b)}
=============================================================================

---------------------------- MODULE MCSizeToCache ----------------------------
(***************************************************************************)
(* Every increasing table of at most MaxSize classes of at most MaxSize    *)
(* bytes, and the table of the program; every request up to one byte more  *)
(* than MaxSize, and those at the borders of the program's classes.        *)
(***************************************************************************)
EXTENDS SizeToCache, ChunkTable

CONSTANT MaxSize

Increasing == UNION {{a \in [0..(n - 1) -> 1..MaxSize] :
                        \A i \in 0..(n - 2) : a[i] < a[i + 1]} : n \in 1..MaxSize}

Tables == Increasing \cup {caches}

Sizes == 0..(MaxSize + 1) \cup UNION {(caches[i] - 1)..(caches[i] + 1) : i \in DOMAIN caches}

\* The largest class fits a slab, and a slab of the smallest has no more chunks than a
\* bit set has bits.
ASSUME ClassesFit ==
  /\ \A i \in DOMAIN caches : caches[i] <= SLAB_SIZE
  /\ SLAB_SIZE \div caches[0] <= 64 * WORD_COUNT
=============================================================================

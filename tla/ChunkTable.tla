----------------------------- MODULE ChunkTable ------------------------------
(***************************************************************************)
(* The size classes that init_cache_manager of src/src/slab.c makes for a  *)
(* factor of 1.25: each a quarter larger than the one before it, rounded   *)
(* up to the alignment.                                                    *)
(***************************************************************************)
EXTENDS Integers

SLAB_SIZE           == 1024 * 1024
MIN_SLAB_CHUNK_SIZE == 20
CHUNK_ALIGN_BYTES   == 8

\* floor(logbn(1.25, SLAB_SIZE / MIN_SLAB_CHUNK_SIZE)) - 1
cache_count == 47

Align(size) == IF size % CHUNK_ALIGN_BYTES = 0 THEN size
               ELSE size + (CHUNK_ALIGN_BYTES - (size % CHUNK_ALIGN_BYTES))

chunk_size[i \in Nat] ==
  Align(IF i = 0 THEN MIN_SLAB_CHUNK_SIZE ELSE (chunk_size[i - 1] * 5) \div 4)

caches == [i \in 0..(cache_count - 1) |-> chunk_size[i]]

WORD_COUNT == ((SLAB_SIZE \div MIN_SLAB_CHUNK_SIZE) \div 64) + 1
=============================================================================

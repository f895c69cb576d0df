---------------------------- MODULE SlabAllocator ----------------------------
(***************************************************************************)
(* The slab allocator of src/src/slab.c.  Memory is cut into slabs, a slab *)
(* into chunks of one size class.  A slab's bit set has a bit for every    *)
(* free chunk, and bits beyond its last chunk that are never cleared; its  *)
(* counter says which list it is in.                                       *)
(*                                                                         *)
(* Pointers are distances from the first slab.  The products of slab       *)
(* numbers and the slab size are unsigned int in the code, and so is the   *)
(* difference scfree starts from: they are taken modulo WIDTH.  The lists  *)
(* are sequences here and pointers in SlabList; the search for a size      *)
(* class is SizeToCache.  A name continued after an underscore is a        *)
(* plausible mistake, as in LightCache.                                    *)
(***************************************************************************)
EXTENDS Integers, SequencesExt

CONSTANTS
  SLAB_SIZE,
  ChunkSizes,     \* the sizes of the classes, increasing
  slabctl_count,  \* how many slabs
  BITS,           \* the bits of a slab's bit set, WORD_COUNT words
  WIDTH,          \* 2 to the number of bits of an unsigned int
  METADATA,       \* mem_used_metadata: what is allocated besides the slabs; see Mem
  Asked,          \* the sizes the program asks for
  NULL

Slabs == 0..(slabctl_count - 1)
Classes == DOMAIN ChunkSizes
largest_chunk_size == ChunkSizes[Len(ChunkSizes)]
chunk_count_perslab(c) == SLAB_SIZE \div ChunkSizes[c]

ASSUME SizesAssumption ==
  /\ SLAB_SIZE \in Nat /\ METADATA \in Nat /\ WIDTH \in Nat /\ WIDTH > 0
  /\ ChunkSizes \in Seq(1..SLAB_SIZE) /\ ChunkSizes # <<>>
  /\ \A c, d \in Classes : c < d => ChunkSizes[c] < ChunkSizes[d]
ASSUME BitsAssumption  == BITS \in Nat /\ \A c \in Classes : chunk_count_perslab(c) <= BITS
ASSUME CountAssumption == slabctl_count \in Nat /\ slabctl_count > 1
ASSUME AskedAssumption == Asked \subseteq Nat \ {0}
ASSUME NullAssumption  == NULL \notin Classes

VARIABLES
  slots,          \* slab -> its set bits: the free chunks
  nused,          \* slab -> its used chunks
  cache,          \* slab -> the class it last served, or NULL
  slabs_free,     \* the lists, head first
  slabs_partial,
  slabs_full,
  mem_used,
  held,           \* what the program has been given: pointers with the sizes asked
  status          \* "running", or how the process died

lists == <<slabs_free, slabs_partial, slabs_full>>
vars == <<slots, nused, cache, lists, mem_used, held, status>>
-----------------------------------------------------------------------------
Running == status = "running"

Crash(why) ==
  /\ status' = why
  /\ UNCHANGED <<slots, nused, cache, lists, mem_used, held>>

mem_mallocd == METADATA + ((SLAB_SIZE * slabctl_count) % WIDTH)

\* Where the chunk of slab s with the free bit i begins.
Address(s, c, i) == ((s * SLAB_SIZE) % WIDTH) + ChunkSizes[c] * i

size_to_cache_below(size) == Min({c \in Classes : size <= ChunkSizes[c] + 1})

\* The smallest class that fits.
size_to_cache(size) == Min({c \in Classes : size <= ChunkSizes[c]})

ff_setbit_last(s) == Max(slots[s])

ff_setbit(s) == Min(slots[s])

\* The lists of class c after s, the head of the list `partial', has given a chunk.
Filled_stays(s, c, partial) ==
  slabs_partial' = [slabs_partial EXCEPT ![c] = partial] /\ UNCHANGED slabs_full

Filled(s, c, partial) ==
  IF nused[s] + 1 = chunk_count_perslab(c)
  THEN /\ slabs_partial' = [slabs_partial EXCEPT ![c] = Tail(partial)]
       /\ slabs_full' = [slabs_full EXCEPT ![c] = Cons(s, @)]
  ELSE slabs_partial' = [slabs_partial EXCEPT ![c] = partial] /\ UNCHANGED slabs_full

Carve(s, c, partial, size) ==
  LET i == ff_setbit(s) IN
  /\ slots' = [slots EXCEPT ![s] = @ \ {i}]
  /\ nused' = [nused EXCEPT ![s] = @ + 1]
  /\ cache' = [cache EXCEPT ![s] = c]
  /\ Filled(s, c, partial)
  /\ mem_used' = mem_used + ChunkSizes[c]
  /\ held' = held \cup {[ptr |-> Address(s, c, i), size |-> size]}
  /\ UNCHANGED status

\* What scmalloc asserts of the slab it takes from, and of the bytes in use.
Sound(s, c) == cache[s] = c /\ slots[s] # {}

InLimit(c) == mem_used + ChunkSizes[c] <= mem_mallocd

scmalloc_partial(c, size) ==
  /\ slabs_partial[c] # <<>>
  /\ LET s == Head(slabs_partial[c]) IN
     \/ Sound(s, c) /\ InLimit(c) /\ Carve(s, c, slabs_partial[c], size)
     \/ ~(Sound(s, c) /\ InLimit(c)) /\ Crash("assert")
  /\ UNCHANGED slabs_free

scmalloc_free(c, size) ==
  /\ slabs_partial[c] = <<>> /\ slabs_free # <<>>
  /\ LET s == Head(slabs_free) IN
     \/ /\ slots[s] # {} /\ InLimit(c)
        /\ Carve(s, c, <<s>>, size)
        /\ slabs_free' = Tail(slabs_free)
     \/ ~(slots[s] # {} /\ InLimit(c)) /\ Crash("assert")

\* Without a slab, or with a size beyond the largest class, nothing changes.
scmalloc(size) ==
  /\ Running
  /\ size <= largest_chunk_size
  /\ LET c == size_to_cache(size)
     IN  scmalloc_partial(c, size) \/ scmalloc_free(c, size)

Release_kept(s, c) ==
  IF nused[s] = 1
  THEN /\ slabs_partial' = [slabs_partial EXCEPT ![c] = RemoveFirst(@, s)]
       /\ slabs_full' = [slabs_full EXCEPT ![c] = RemoveFirst(@, s)]
       /\ slabs_free' = Cons(s, slabs_free)
  ELSE UNCHANGED lists

\* The slab moves to the list it belongs in.
Release(s, c) ==
  LET left == nused[s] - 1 IN
  \/ /\ left = 0
     /\ IF Contains(slabs_partial[c], s)
        THEN /\ slabs_partial' = [slabs_partial EXCEPT ![c] = RemoveFirst(@, s)]
             /\ UNCHANGED slabs_full
        ELSE /\ slabs_full' = [slabs_full EXCEPT ![c] = RemoveFirst(@, s)]
             /\ UNCHANGED slabs_partial
     /\ slabs_free' = Cons(s, slabs_free)
  \/ /\ left # 0 /\ left = chunk_count_perslab(c) - 1
     /\ slabs_full' = [slabs_full EXCEPT ![c] = RemoveFirst(@, s)]
     /\ slabs_partial' = [slabs_partial EXCEPT ![c] = Cons(s, @)]
     /\ UNCHANGED slabs_free
  \/ /\ left # 0 /\ left # chunk_count_perslab(c) - 1
     /\ UNCHANGED lists

\* The list the slab is to be taken from has it.
Owned(s, c) ==
  \/ Contains(slabs_full[c], s)
  \/ nused[s] = 1 /\ Contains(slabs_partial[c], s)
  \/ nused[s] \notin {1, chunk_count_perslab(c)}

FreeChunk_uncounted(s, c, i) ==
  /\ slots' = [slots EXCEPT ![s] = @ \cup {i}]
  /\ Release(s, c)
  /\ mem_used' = mem_used - ChunkSizes[c]
  /\ UNCHANGED <<nused, cache, status>>

FreeChunk_unpaid(s, c, i) ==
  /\ slots' = [slots EXCEPT ![s] = @ \cup {i}]
  /\ nused' = [nused EXCEPT ![s] = @ - 1]
  /\ Release(s, c)
  /\ UNCHANGED <<mem_used, cache, status>>

FreeChunk(s, c, i) ==
  /\ slots' = [slots EXCEPT ![s] = @ \cup {i}]
  /\ nused' = [nused EXCEPT ![s] = @ - 1]
  /\ Release(s, c)
  /\ mem_used' = mem_used - ChunkSizes[c]
  /\ UNCHANGED <<cache, status>>

\* The chunk of slab s a pointer falls into.
Chunk(s, pdiff) == (pdiff % SLAB_SIZE) \div ChunkSizes[cache[s]]

\* The bound is not strict: one past the last slab, the slab is read from beyond its
\* array, and what happens then is not defined.
scfree(ptr) ==
  LET pdiff == ptr % WIDTH
      s     == pdiff \div SLAB_SIZE
  IN
  /\ Running
  /\ \/ pdiff > (slabctl_count * SLAB_SIZE) % WIDTH /\ Crash("assert")
     \/ /\ pdiff <= (slabctl_count * SLAB_SIZE) % WIDTH
        /\ \/ s \notin Slabs /\ Crash("undefined")
           \/ s \in Slabs /\ cache[s] = NULL /\ Crash("segv")
           \/ /\ s \in Slabs /\ cache[s] # NULL
              /\ LET i == Chunk(s, pdiff) IN
                 \/ (i \in slots[s] \/ ~Owned(s, cache[s])) /\ Crash("assert")
                 \/ /\ i \notin slots[s] /\ Owned(s, cache[s])
                    /\ FreeChunk(s, cache[s], i)
                    /\ held' = {h \in held : h.ptr # ptr}

Init ==
  /\ slots = [s \in Slabs |-> 0..(BITS - 1)]
  /\ nused = [s \in Slabs |-> 0]
  /\ cache = [s \in Slabs |-> NULL]
  /\ slabs_free = [i \in 1..slabctl_count |-> i - 1]
  /\ slabs_partial = [c \in Classes |-> <<>>]
  /\ slabs_full = [c \in Classes |-> <<>>]
  /\ mem_used = 0
  /\ held = {}
  /\ status = "running"

\* The program frees what it was given, once.
Next ==
  \/ \E size \in Asked : scmalloc(size)
  \/ \E h \in held : scfree(h.ptr)

Spec == Init /\ [][Next]_vars
-----------------------------------------------------------------------------
(* Properties                                                              *)

\* The chunks in use of a slab.
Used(s) == (0..(BITS - 1)) \ slots[s]

\* The types of the allocator's state.
TypeOK ==
  /\ slots \in [Slabs -> SUBSET (0..(BITS - 1))]
  /\ nused \in [Slabs -> Int]
  /\ cache \in [Slabs -> Classes \cup {NULL}]
  /\ slabs_free \in Seq(Slabs)
  /\ slabs_partial \in [Classes -> Seq(Slabs)]
  /\ slabs_full \in [Classes -> Seq(Slabs)]
  /\ mem_used \in Int
  /\ held \subseteq [ptr : Nat, size : Nat]
  /\ status \in {"running", "assert", "segv", "undefined"}

\* The counter of a slab is true, and only bits of chunks the slab has are cleared.
Counted ==
  \A s \in Slabs :
    /\ nused[s] = Cardinality(Used(s))
    /\ Used(s) # {} => cache[s] # NULL /\ Used(s) \subseteq 0..(chunk_count_perslab(cache[s]) - 1)

\* Every slab is in one list, once, and it is the list its counter says: an empty
\* slab may serve any class, a partial or full one is with its class.  So scmalloc fails
\* only when it must: without a partial slab of the class and a free one, there is no room.
Listed(s) ==
  /\ Contains(slabs_free, s) <=> nused[s] = 0
  /\ \A c \in Classes :
       /\ Contains(slabs_partial[c], s) <=>
            cache[s] = c /\ nused[s] \in 1..(chunk_count_perslab(c) - 1)
       /\ Contains(slabs_full[c], s) <=>
            cache[s] = c /\ nused[s] # 0 /\ nused[s] = chunk_count_perslab(c)

SlabsListed ==
  /\ \A s \in Slabs : Listed(s)
  /\ IsInjective(slabs_free)
  /\ \A c \in Classes : IsInjective(slabs_partial[c]) /\ IsInjective(slabs_full[c])

\* What two callers have been given never overlaps, and lies within the slabs.
Bytes(h) == h.ptr..(h.ptr + h.size - 1)

HeldDisjoint ==
  /\ \A g, h \in held : g # h => Bytes(g) \cap Bytes(h) = {}
  /\ \A h \in held : h.ptr + h.size <= slabctl_count * SLAB_SIZE

\* The bytes of chunk i of slab s, and those of all chunks in use.
Extent(s, i) == LET at == s * SLAB_SIZE + ChunkSizes[cache[s]] * i
                IN  at..(at + ChunkSizes[cache[s]] - 1)

UsedBytes == UNION {UNION {Extent(s, i) : i \in Used(s)} : s \in Slabs}

\* mem_used, which GET_STATS reports and the memory tests compare, is the number of
\* bytes in the chunks in use.
MemUsedTrue == mem_used = Cardinality(UsedBytes)

\* A program that frees what it was given, once, meets no failed assertion.
NeverDies == Running

\* scmalloc and scfree find what they assert: mem_used is within what was allocated,
\* and the pointer of a chunk leads back to its slab and to a cleared bit.
NoFailedAssertion == status # "assert"

\* The slabs are within what an unsigned int can count.  FourGigabytes is what happens
\* when they are not.
Fits == slabctl_count * SLAB_SIZE < WIDTH

\* Every pointer given out is where a chunk in use begins, one that is large enough, and
\* none is given out twice.
HeldOwned ==
  /\ \A h \in held : \E s \in Slabs : \E i \in Used(s) :
       /\ h.ptr = s * SLAB_SIZE + ChunkSizes[cache[s]] * i
       /\ h.size \in 1..ChunkSizes[cache[s]]
  /\ \A g, h \in held : g.ptr = h.ptr => g = h

\* What makes the invariants inductive together.
IInv == TypeOK /\ NeverDies /\ Counted /\ SlabsListed /\ MemUsedTrue /\ HeldOwned

\* The lists, bits and counters implement the pool.
Pool == INSTANCE SlabPool WITH
  Room  <- chunk_count_perslab,
  owner <- [s \in Slabs |-> IF nused[s] = 0 THEN NULL ELSE cache[s]],
  taken <- [s \in Slabs |-> Used(s)]

\* Every allocation and every free is a step of the pool.
RefinesPool == Pool!PSpec
=============================================================================

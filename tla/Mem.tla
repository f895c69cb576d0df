--------------------------------- MODULE Mem ---------------------------------
(***************************************************************************)
(* src/src/mem.c, and how the server comes by its memory at startup.  The  *)
(* slab allocator takes all of it at once, in four blocks, any of which    *)
(* malloc may refuse; it is then given up, and malloc serves every request *)
(* itself, with a count of its own.  The same is done, without giving up   *)
(* anything, when there are fewer slabs than size classes.                 *)
(*                                                                         *)
(* SlabAllocator is the allocator once it is there.                        *)
(***************************************************************************)
EXTENDS SlabAllocator

CONSTANTS
  Limits,        \* the values of settings.mem_avail
  HEAD,          \* sizeof(uint64_t), which a block has in front of it
  MANAGER,       \* sizeof(cache_manager_t)
  CACHE,         \* sizeof(cache_t)
  CTL            \* sizeof(slab_ctl_t)

VARIABLES
  mem_avail,
  blocks,        \* the blocks of the slab allocator, with their sizes
  mallocd,       \* slab_stats.mem_mallocd
  mode,          \* the block that comes next in "cm", "caches", "slab_ctls", "slabs"; then
                 \* "slab" or "sys", as use_sys_malloc says; "dead" after a NULL from malloc
  sys_used,      \* mem_used of mem.c
  given          \* size -> how many blocks malloc has given

startup == <<mem_avail, blocks, mallocd>>
sys     == <<sys_used, given>>
memvars == <<startup, mode, sys>>

\* How many slabs the limit has room for, when m bytes are taken.
SlabCount(limit, m) == (limit - m - 2 * HEAD) \div (SLAB_SIZE + CTL)

CachesSize == CACHE * Len(ChunkSizes)

\* What is taken before the slabs are counted.
Before == MANAGER + CachesSize + 2 * HEAD

\* The slabs are those of SlabAllocator, unless malloc is used for want of slabs.
ASSUME BlocksAssumption ==
  /\ {HEAD, MANAGER, CACHE, CTL} \subseteq Nat \ {0}
  /\ METADATA = Before + CTL * slabctl_count + 2 * HEAD
ASSUME LimitsAssumption ==
  \A limit \in Limits :
    /\ limit \in Nat /\ limit >= Before + 2 * HEAD
    /\ SlabCount(limit, Before) # slabctl_count => SlabCount(limit, Before) < Len(ChunkSizes)
-----------------------------------------------------------------------------
(* init_cache_manager *)

malloci(block, size, then) ==
  /\ blocks' = [blocks EXCEPT ![block] = size + HEAD]
  /\ mallocd' = mallocd + size + HEAD
  /\ mode' = then
  /\ UNCHANGED <<mem_avail, sys, vars>>

SumOfBlocks == blocks.cm + blocks.caches + blocks.slab_ctls + blocks.slabs

Freed_leaks == blocks.cm + blocks.caches + blocks.slabs

Freed == SumOfBlocks

\* All blocks are freed, and the count of them must come out even.
deinit_cache_manager ==
  /\ blocks' = [b \in DOMAIN blocks |-> 0]
  /\ mallocd' = mallocd - Freed
  /\ \/ mallocd = Freed /\ mode' = "sys" /\ UNCHANGED vars
     \/ mallocd # Freed /\ UNCHANGED mode /\ Crash("assert")
  /\ UNCHANGED <<mem_avail, sys>>

InitManager == Running /\ mode = "cm" /\ (malloci("cm", MANAGER, "caches") \/ deinit_cache_manager)

InitCaches ==
  Running /\ mode = "caches" /\ (malloci("caches", CachesSize, "slab_ctls") \/ deinit_cache_manager)

\* It is stored at the time, and nothing changes it.
slab_count == SlabCount(mem_avail, Before)

InitSlabCtls ==
  /\ Running /\ mode = "slab_ctls"
  /\ \/ slab_count > 1 /\ malloci("slab_ctls", CTL * slab_count, "slabs")
     \/ deinit_cache_manager

\* The slabs are there.  With too few of them, main turns to malloc and lets them be.
Chosen == IF slab_count < Len(ChunkSizes) THEN "sys" ELSE "slab"

InitSlabs ==
  LET size == (SLAB_SIZE * slab_count) % WIDTH IN
  /\ Running /\ mode = "slabs"
  /\ \/ mallocd + size + HEAD <= mem_avail /\ malloci("slabs", size, Chosen)
     \/ mallocd + size + HEAD > mem_avail /\ Crash("assert") /\ UNCHANGED memvars
     \/ deinit_cache_manager
-----------------------------------------------------------------------------
(* The front *)

SysFits_late(size) == sys_used <= mem_avail

SysFits(size) == size + sys_used <= mem_avail

\* Nothing is given beyond mem_avail; what malloc returns is cleared unseen.
SysMalloc(size) ==
  /\ SysFits(size)
  /\ \/ /\ sys_used' = sys_used + size
        /\ given' = [given EXCEPT ![size] = @ + 1]
        /\ UNCHANGED mode
     \/ mode' = "dead" /\ UNCHANGED sys
  /\ UNCHANGED <<startup, vars>>

li_malloc(size) ==
  /\ Running
  /\ \/ mode = "slab" /\ scmalloc(size) /\ UNCHANGED memvars
     \/ mode = "sys" /\ SysMalloc(size)

\* The size is read back from in front of the block.
SysFree ==
  \E size \in Asked :
    /\ given[size] > 0
    /\ given' = [given EXCEPT ![size] = @ - 1]
    /\ sys_used' = sys_used - size
    /\ UNCHANGED <<startup, mode, vars>>

li_free ==
  /\ Running
  /\ \/ mode = "slab" /\ (\E h \in held : scfree(h.ptr)) /\ UNCHANGED memvars
     \/ mode = "sys" /\ SysFree

li_memused == IF mode = "sys" THEN sys_used ELSE mem_used
-----------------------------------------------------------------------------
MInit ==
  /\ Init
  /\ mem_avail \in Limits
  /\ blocks = [cm |-> 0, caches |-> 0, slab_ctls |-> 0, slabs |-> 0] /\ mallocd = 0
  /\ mode = "cm"
  /\ sys_used = 0 /\ given = [size \in Asked |-> 0]

MNext ==
  \/ InitManager \/ InitCaches \/ InitSlabCtls \/ InitSlabs
  \/ \E size \in Asked : li_malloc(size)
  \/ li_free

MSpec == MInit /\ [][MNext]_<<vars, memvars>>
-----------------------------------------------------------------------------
(* Properties *)

\* mem_mallocd is what the allocator's blocks add up to, it is nothing when they have
\* been given up, and it stays within the limit, as init_cache_manager asserts: the
\* slabs were counted with room for the headers of the blocks that come after.
StartupAccounted ==
  /\ mallocd = SumOfBlocks
  /\ mallocd <= mem_avail
  /\ mode = "slab" => mallocd = mem_mallocd /\ slab_count >= Len(ChunkSizes)

\* The bytes malloc has given, numbered for each size.
SysBytes == UNION {{size} \X (1..(size * given[size])) : size \in Asked}

\* What li_memused answers is within mem_avail and is what the program holds, whichever
\* allocator serves it.
MemUsedWithin ==
  /\ li_memused <= mem_avail
  /\ sys_used = Cardinality(SysBytes)

\* How far the startup has come, block by block, what has been taken by then, and what
\* malloc has given.
MInv ==
  /\ mem_avail \in Limits
  /\ mode \in {"cm", "caches", "slab_ctls", "slabs", "slab", "sys", "dead"}
  /\ blocks \in [{"cm", "caches", "slab_ctls", "slabs"} -> Nat]
  /\ mode = "cm" => blocks.cm = 0
  /\ mode \in {"cm", "caches"} => blocks.caches = 0
  /\ mode \in {"cm", "caches", "slab_ctls"} => blocks.slab_ctls = 0
  /\ mode \in {"cm", "caches", "slab_ctls", "slabs"} => blocks.slabs = 0
  /\ mode = "caches" => mallocd = MANAGER + HEAD
  /\ mode = "slab_ctls" => mallocd = Before
  /\ mode = "slabs" => mallocd = Before + CTL * slab_count + HEAD /\ slab_count > 1
  /\ mode # "slab" => mem_used = 0
  /\ StartupAccounted
  /\ given \in [Asked -> Nat] /\ IsFiniteSet(SysBytes)
  /\ sys_used = Cardinality(SysBytes) /\ sys_used <= mem_avail
=============================================================================

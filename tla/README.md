# lightcache in TLA+

This directory models the lightcache server (`src/src`), checks the models with TLC and
proves theorems about them with TLAPS. File and line numbers are those of the repository;
`PROJECT.json` maps every definition to the lines it stands for.

## 1. The system

lightcache is a single-threaded cache server in C. One process waits in `epoll_wait` (or `kevent`), runs
one handler at a time to its end, and about once a second disconnects idle clients.

| part | source | state it keeps | operations |
|---|---|---|---|
| requests, replies, commands | `lightcache.c` 90-451, 496-636, `protocol.h` | per connection: `state`, `in` (request), `out` (reply) | `try_read_request`, `execute_cmd`, `add_response`, `try_send_response`, `init_resources` |
| connections, main loop | `lightcache.c` 56-170, 453-467, 638-691, 803-934 | list `conns`, `free` flags, `curr_connections`, two `CURRENT_TIME` readings | `make_conn`, `disconnect_conn`, `disconnect_idle_conns`, accept |
| event layer | `epoll.c` or `kqueue.c`, chosen by `event.c` | the events registered for each descriptor | `event_set`, `event_del`, `event_process` |
| hash table | `hashtab.c` | chains of items, `count`, `freecount`, size | `hset`, `hget`, `hfree`, `henum`, growth |
| slab allocator | `slab.c` | size classes; slabs with a bit set and a use count each; the lists of free, partial and full slabs | `scmalloc`, `scfree`, `init_cache_manager` |
| memory front | `mem.c`, `slab.c` 328-418, `lightcache.c` 837-855 | `mem_used`, `use_sys_malloc`, the four blocks of the slab allocator | `li_malloc`, `li_free`, `li_memused`, the choice at startup |
| the rest | `socket.c`, `util.c`, startup in `main` | descriptors | sockets, daemon, signals, logs, number parsing |

**How the parts meet.** epoll hands a connection to `event_handler`, which reads one more
piece of the request or sends one more piece of the reply. When the last section is there,
`execute_cmd` runs the command on the hash table and leaves a reply in `conn->out`. Every
request, section, body, table and item comes from `li_malloc`, which is the slab allocator,
or `malloc` when the slabs could not be had at startup.
Nothing is copied: SET makes the request block of the connection the cached entry
(`can_free = 0`, `lightcache.c:336`) while `conn->in` goes on pointing at it until the reply
has been sent, and a GET reply points into the entry (`lightcache.c:304`) while it is sent,
possibly a byte per event.

**What is hard.** There are no threads, yet handlers of different connections interleave
between any two bytes of a request or a reply, and they share memory by pointer. So the
questions are who frees a block, and whether everybody else has let go of it; whether every
failed allocation, at any of some ten places, leaves something that can go on; whether what
epoll watches agrees with the state of each connection, while an array of events points at
structures that are closed and recycled; whether the server knows where in the stream of a
client it is, with bytes as the only clue; whether anybody is kept waiting for good; whether free
items that stay in the chains, and slabs that move from list to list, stay consistent over any sequence
of operations; and where 32-bit products and one-off bounds bite. `PROJECT.json` lists these
as hazards, each at its line.

**What makes each part correct.**

* *Requests and commands*: no block is freed twice, used after it is freed, or lost; no
  assertion fails; what a client sees is a store with expiring values (`CacheService`).
* *Connections*: the state of a connection and what epoll watches for it agree; the list has
  every structure once; `curr_connections` counts the open ones; the audit closes the idle.
* *Main loop and event layer*: no event of a batch is stale when its turn comes; every client
  is accepted, heard and, when it has gone, noticed.
* *Framing*: the byte that is read is the byte the state expects; it is stored inside its
  buffer; every request has one reply, whole.
* *Memory front*: what is counted is what is held, and is within the limit, whichever
  allocator serves.
* *Hash table*: to the commands it is a map; its counters are true; a key fits its buffer; a
  free item points at nothing.
* *Slab allocator*: chunks do not overlap; an allocation fails only when it has to; bits,
  counters, lists and `mem_used` tell one story; the linked lists are sequences.
* *Size classes*: the search ends, stays inside the table and finds the smallest class that
  fits.

## 2. The modules

| module | what it is |
|---|---|
| `CacheService` | what the server promises its clients: store, expiry, one setting, a reply per connection; no memory |
| `LightCache` | the server: connections, requests, replies, commands, main loop, ownership of memory |
| `MCLightCache` | its instances for TLC |
| `LightCacheProofs` | theorems about it: types, connections and epoll; who owns memory, and the refinement of `CacheService` |
| `Dictionary` / `HashTab`, `MCHashTab`, `HashTabProofs` | what the commands expect of the table / the table, its instance and its theorems |
| `SlabPool` / `SlabAllocator`, `MCSlabAllocator` | what the allocator promises / the allocator |
| `EventLoop`, `MCEventLoop`, `EventLoopProofs` | the main loop in batches of events, over epoll or kqueue, with clients that come and go, its instance and its theorems |
| `Framing`, `MCFraming`, `FramingProofs` | the bytes of one connection, both ways, its instance and its theorems |
| `SlabSequences` / `SlabList`, `MCSlabList`, `SlabListProofs` | the lists of slabs as sequences / as pointers, and the theorems about them |
| `BitSet` | the bit set of a slab, as words |
| `Mem`, `MCMem` | `SlabAllocator` with its startup and the front of `mem.c` before it |
| `SlabProofs` | theorems about `SlabAllocator` and `Mem` |
| `ListLemmas` | lemmas on sequences: putting an element in front, taking one out |
| `SizeToCache`, `MCSizeToCache`, `SizeToCacheProofs` | the search for a size class, its instance and its theorems |
| `ChunkTable` | the table of size classes `init_cache_manager` computes, with the constants of `slab.h` |

The layers fit together as the code does. `LightCache` takes the hash table as a map that
may fail to insert an item ("item") or to grow after it has inserted one ("grow"); `HashTab`
is the table itself and implements `Dictionary`. `LightCache` takes memory as two pools in
which freeing a block that is not allocated is a failed assertion; `SlabAllocator` is what
makes that so. `SlabAllocator` takes its lists as sequences and the size class as the
smallest that fits; `SlabList` and `SizeToCache` show that the pointers and the binary search
provide this, and `BitSet` that the words and the de Bruijn table do find the lowest set bit.
`Mem` extends `SlabAllocator`: it has its startup before it, and every request goes through
`li_malloc`. `EventLoop` takes from the handlers only how they turn a connection around, and
looks at the order in which they run; `Framing` takes one connection apart into bytes, with
the commands reduced to the reply they always end in. Both leave the memory to `LightCache`.

A definition whose name continues another's after an underscore (`Release_kept`,
`Expired_early`) is that definition with a plausible mistake in it. `PROJECT.json` pairs each
with a property that TLC finds violated when the mistake is made.

### LightCache

State: `conn` (per connection: free flag, state, `in`, `out`, `last_heard`), `conns` (the
list), `reg` (what epoll watches for each connection), `cache` (key to request block), `req`
and `buf` (contents of the blocks), `live` (the allocated blocks), `idle_conn_timeout`,
`curr_connections`, the clock and its two readings, and `status`.

One action is one call of a handler from epoll to its return: `ReadHeader`, `ReadKey`,
`ReadData`, `ReadExtra` for the last byte of a section, with everything that follows from it
(the command, the reply, the next buffer, the change of registration); `NeedMore` for bytes
before the last; `SendHeader`, `SendData`; `Hangup`; `Accept`; `NextIteration` for the two
clock readings and the audit, if it is due; `Tick`. A command writes memory before it
replies: handlers pass a record `m` of the memory they have written so far.

Abstractions. A section is a text, not bytes; a header says which sections it announces and
whether they fit the limits; a text is a number or it is not. `rkey` and `rextra` are
allocated and freed with their request block and share its fate; `rdata` and reply bodies
have blocks of their own, because entries and replies share them. Blocks keep their contents
when freed, which is what slabs do and what makes a use after free visible.

### EventLoop

State: the list `conns`; per structure the client it serves (`fd`, `NULL` when free), the
bytes left to send (`todo`, 0 while it reads) and the seconds since `last_heard` (`age`); what
the kernel watches (`reg`) and in which order it looks (`rdllist`); the rest of the array of
events; the two differences of times that decide on an audit; per client its socket, and what
it sent. `EventProcess` is the top of the loop and the wait, `Handle` one event of the array
with the whole handler, `NotDue` and `Audit` the end of the iteration. Clients connect, send
and leave between any two of these. `backend` says which of the two event layers was built
in: epoll keeps the place of a descriptor it modifies and reports descriptors; kqueue deletes
and adds filters and reports filters. The kernel is external: it reports what is ready, and
what it has reported goes behind what it has not.

### Framing

State: `state`, `rbytes`, `sbytes` and the header of the connection, what is in the socket
each way, the client's end of it, and the request the client is sending. A byte carries only
its place: which request, which position. A header read from bytes that are not a header can
be any. `rbytes` is counted modulo `WIDTH`, since an error of `read` adds -1 to it
(`lightcache.c:486`). `ReadByte`, `ReadError`, `EndOfStream`, `try_send_response`, `GiveUp`,
`SendError` are what an event can come to; `disconnect_idle_conns` may cut in anywhere.
A connection may be followed by another in the same structure. `excused` records that a
request was malformed or that memory for a section was missing.

### HashTab

A table is a record of its size, its chains (head first) and its counters. `hset` is the
whole function: the walk that compares keys, with free items compared too; the recycled item;
the key buffer that is replaced when the old length is short; the new item; growth. `_hgrow`
calls `hset` on a new table, item by item, the free ones too, and that `hset` may grow the new
table in turn. The calls under way are a `stack`: a frame has the table grown (`from`), how many
items of each chain have been moved (`done`), and the new table (`to`). `MoveItem` is one turn
of the loop of `_hgrow`, and puts a frame on the stack when the new table has to grow; `Grown`
returns to the call, or the SET, below. `Sites` says which allocations can fail: `GrowthFails` tells
the failure that leaves the table whole ("create", before anything has been moved) from the one
that leaves freed items in its chains ("move"; `status` is then "dangling"). HEXISTS, the other
answer of `hset` that would stop growth, is a guard of its own (`Clash`). A frame in the
middle of a SET is no state another command can see, since the server has one thread: commands
run when the stack is empty (`Idle`).

### SlabAllocator, Mem, SlabList, SizeToCache

Pointers are distances from the first slab, with products and differences modulo `WIDTH`
(`unsigned int`). A bit set is the set of its set bits, including those beyond the last chunk
of the slab. All assertions are there, and end in `status`. In `SlabList` the pointers pop
leaves stale stay stale. `SizeToCache` is the loop, one iteration per step, with C indices.
`Mem` has an action for each of the four blocks of `init_cache_manager`, which `malloc` grants
or refuses; in the second case `deinit_cache_manager` gives back what is there, and asserts
that the count comes out even. After that `li_malloc` and `li_free` go to the slabs or to
`malloc`, as `main` has chosen.

## 3. The runs

| run | instance | checks |
|---|---|---|
| `OneClient` | one client, two keys (one is the name of the setting), twelve kinds of requests, failing allocations, clock up to 2 | `NoLeak`, `RefinesService` |
| `Apart` | two clients with a key each, three request blocks, two bodies | `IInv`, `ExclusiveOwnership`, `NoDangling`, `NeverDies`, `CachedIsKept`, `RefinesService` |
| `Sharing` | two clients of one key who leave out sections, dirty structures, growth that fails | `TypeOK`, `EventMatchesState`, `ConnectionsListed` |
| `Loop` | two clients, two structures and the listening one, arrays of two events, both back ends | `Watched`, `BatchFresh`, `Accepted`, `ClientsHeard`, `IdleClosed` |
| `Wire` | one connection, headers and replies of two bytes, six kinds of requests | `Aligned`, `InBuffer`, `RepliesFramed`, `OneReplyEach`, `Answered`, `HangupCloses` |
| `Chunks` | five limits; three slabs of six bytes, classes of three, two and one chunks; or `malloc` | `Counted`, `SlabsListed`, `HeldDisjoint`, `MemUsedTrue`, `NeverDies`, `StartupAccounted`, `MemUsedWithin`, `RefinesPool` |
| `Lists` | four slabs in three lists | `Linked`, `RefinesSequences` |
| `SizeClasses` | every table of up to six sizes, every request; and the server's own table | `LoopInv`, `FindsSmallestFit`, `InBounds`, `Terminates` |
| `Table` | five keys, from two buckets to eight; items, keys and growth that fail | `CountTrue`, `ItemsSound`, `NoKeyTwice`, `RefinesDict` |
| `SharedFree`, `IdleBehindFree`, `FourGigabytes` | see section 5 | a property the code does not have |

`Chunks` also evaluates, as assumptions of `MCMem`, that the de Bruijn table and factor find
every one of 64 bits, and that set, clear and search on words are those on sets of bits.

**Bounds, and why they are enough.** Two connections are what it takes for one to free or
replace what another still uses; the third request block in `Apart` lets one be cached, one be
read and one be replaced. With two request blocks (`OneClient`) a cached entry and a request
leave none, so `init_resources` fails while replies end; two bodies run out in the same way.
A clock of 2 lets entries of lifetime 1 be read at their last second and after it, and lets
the audit be due with a timeout of 1. Blocks of a pool are interchangeable, hence
`BlockSymmetry`; no property names one. In `Chunks`, the bit set is one bit larger than the
largest slab needs (`BITS = 4`), the largest class wastes a byte and holds one chunk, so a slab
goes from full to free at once, and all slabs can be full. Four slabs are the fewest
for which `rem` meets a head, a tail and two in the middle. Five keys, of which two share a
bucket up to size 4, make the table grow twice, and grow while growing.

In `Loop` the array has room for two of three pointers, so somebody is always left for the
next batch; two clients and two structures let one client take the structure that another
has just left, in the same batch; differences of times are capped one above what they are
compared with. In `Wire` the socket holds less than a request, so every cut of a request
into reads happens; three requests can be under way; the headers include one beyond the
limits and two that announce a section behind an empty one; `WIDTH` is more than any section
and little enough to wrap. In `Chunks` the limits leave room for one slab, which is too few,
for fewer slabs than classes, for three slabs exactly, and for three with some bytes over.
`CHECK_DEADLOCK FALSE` is said where the process may die, and for the violations.

**Fairness.** `SizeToCache`: weak fairness of its own steps, since a function call runs to its
end. `EventLoop`: weak fairness of the loop, since `epoll_wait` returns after `POLL_TIMEOUT` at
the latest and no handler blocks (`O_NONBLOCK`), and of the clock. Nothing is assumed of
clients, except that they take what they are sent; that nobody is starved rests on
the kernel reporting ready descriptors in turn. `Framing`: weak fairness of the server's
steps, since both event layers are level-triggered and go on reporting a socket with
something to read or room to write, and of the client reading its replies. No fairness makes
a client send the rest of a request; the audit that would end its connection can be kept
away from it (`IdleBehindFree`), which is why `IdleClosed` excepts structures behind a free
one. The other specifications are safety only.

## 4. The theorems

All hold for every value of the constants that meets the named assumptions of the modules
(finitely many connections, disjoint pools, `NULL` outside them, timeouts among the texts,
the table of size classes increasing, and so on).

**The server** (`LightCacheProofs`)

* `TypeCorrect`: `TypeOK`, whatever clients send and whichever allocations fail.
* `ConnectionsCorrect`: `EventMatchesState` and `ConnectionsListed`, under the same liberal
  assumptions. The inductive invariant is the two with `TypeOK`: the step that recycles a
  structure needs that the list has it, the step that sends needs that a sending connection is
  watched for writing. `ListTrue` is the half about the list, for `ConnectionsListed` by itself.
* `Owned`: `IInv`, under `Disciplined`. `Disciplined` says what the code needs and does not
  enforce: clients keep to keys of their own and do not flush those of others, requests have
  the sections their handlers take for granted, the table finds the memory to grow, new
  structures come zeroed. The findings are what happens without it.
* `FreedOnce`, `NotFreedInUse`, `NothingLost`, `CacheComplete`, `Survival`: `IInv` implies
  `ExclusiveOwnership`, `NoDangling`, `NoLeak`, `CachedIsKept` and `NeverDies`.
* `ServerRefinesService`: `RefinesService`, under `Disciplined`: the server implements
  `CacheService`.

*The argument for `Owned`.* None of the five consequences is inductive. `IInv` adds who owns
what: `can_free` of a request is 0 exactly when the cache has it; a connection still pointing
at a cached entry is sending, and the entry is under one of its own keys; a borrowed body is
the data of such an entry; no two owners share a block; every allocated block has an owner.
Since a handler changes request contents first and pointers afterwards, `Ownership(q)` is stated
for contents `q`, and a group of lemmas carries it through a handler in that order. `Sections`
adds what a connection has read so far, which a command takes for granted. There is then one
lemma per command and per event.

*The argument for `ServerRefinesService`.* What a client sees hangs on pointers into memory
that handlers write to, so the heart of it is what they leave alone (`OutOfSight`,
`Undisturbed`): a handler writes only the request and the data of its own connection, or
blocks that are not allocated, and by `Ownership` neither is an entry of the cache nor the
body of another reply. `Answering` derives from that what `add_response` does to the service's
variables, for every command at once, and each command then only has to show its own effect on
the cache. Two facts join `IInv` (`Texted`): the data of a request has been read when its extra
section is awaited, and an entry was announced with its data; without the second a GET would
answer with no body. Steps that answer nothing are `Done` steps of the service or stutter.

**The allocator** (`SlabProofs`, with `ListLemmas`)

* `AllocatorInvariant`: under `Fits`, the inductive `IInv` of `SlabAllocator`: the types, no
  failed assertion, `Counted`, `SlabsListed`, `MemUsedTrue`, and `HeldOwned`, which says that
  every pointer given out is where a chunk in use begins. Each needs the others: `scfree` finds
  its slab by division, and that the bit it clears is set, that the slab is on a list it can be
  removed from, and that `mem_used` does not go below zero, are three of the conjuncts.
  `AllocatorSound` has what follows, `HeldDisjoint` with it.
* `AllocatorRefinesPool`: under `Fits`, `RefinesPool`, with one lemma per step of the pool.
* `StartupSound`: `StartupAccounted`, for every limit that leaves room for these slabs or for
  fewer than there are classes (`LimitsAssumption`), and whichever of the blocks `malloc`
  refuses. Its invariant `MInv` says block by block what the startup has taken.
* `ServerUsesAllocator`: `MSpec => Spec`, so all of the above holds of the allocator as `main`
  starts it: `CountersTrue`, `ListsTrue`, `BlocksApart`, `MemUsedCounts`, `NoneFails` and
  `ServerRefinesPool`. `MemorySound` adds `MemUsedWithin`: what `li_memused` answers.

`Fits` is the one hypothesis, `slabctl_count * SLAB_SIZE < WIDTH`. It is needed: without it
`FourGigabytes` shows slabs that share addresses. `MemUsedTrue` and `MemUsedWithin` count bytes
as the size of a set, so that a chunk taken or given back adds or removes a disjoint interval.

**The lists of slabs** (`SlabListProofs`)

* `PointersSpellSequences`: there are sequences, one per list, that the pointers spell out,
  with every slab at one place. The invariant says that they exist; that the walk from the head
  finds them is a lemma (`WalkIs`), not part of it.
* `ListsLinked`, `ListsRefineSequences`: from it `Linked` and `RefinesSequences`, for any
  number of slabs and lists, with the stale pointers pop leaves behind.

The walk is a recursive function; that its n-th element is the n-th of the sequence is proved by
looking at the first place where they differ, since the least element of a set of numbers can
be had from `WFMin` where induction cannot.

**The main loop** (`EventLoopProofs`)

* `EventLoopInvariant`, and from it `ListAndKernelAgree` and `NoStaleEvent`: `Watched` and
  `BatchFresh`, for any number of clients and structures, any length of the array
  (`POLL_MAX_EVENTS`), and both event layers. The invariant adds to them that the kernel's list
  has no pointer twice (`Listed`), that a client waits in the backlog once and has no structure
  meanwhile (`Queued`), and that a free structure has nothing to send (`FreeIsIdle`).

*Why no event turns stale.* It takes two facts. What is returned has each pointer once
(`ArrayIn`): a descriptor is watched for one event at a time, so kqueue has no second filter to
report. And a handler changes, of what the array can tell, only the structure its event was
for, or one that was free, and a free structure has no event left (`FreshTail`). That a
structure can be closed, recycled and registered again in one batch does no harm because
registering comes after the array was filled.

**The bytes of a connection** (`FramingProofs`)

* `FramingInvariant`, and from it `KeepsItsPlace`, `BytesInBuffer`, `RepliesApart` and
  `OneReplyForEach`: `Aligned`, `InBuffer`, `RepliesFramed` and `OneReplyEach`, for headers,
  sections, replies and sockets of any lengths and any number of requests sent ahead. The
  invariant adds to them `Counting` (a section is not complete before the event that completes
  it; only an error of `read` takes the count below zero, and then nothing is left to read) and
  `Stream` (the bytes on the way are those of whole requests in order, up to the one the client
  sends next). `OneReplyEach` counts ends of requests and replies on the way, and rests on
  lemmas on how many places of a sequence hold a member of a set.

**The hash table** (`HashTabProofs`)

* `TableInvariant`: the invariant `HInv`, for any set of keys, any hash function, any size at the
  start and whichever allocations fail. From it `EveryItemSound` and `GrowthMeetsKeyOnce`:
  `ItemsSound` and `NoKeyTwice`.
* `CountersTell` and `TableIsDictionary`: `CountTrue` and `RefinesDict`, when `htcreate` of growth
  finds memory (`"create" \notin Sites`). The hypothesis is needed: without it the table stays
  above its load, and SET answers an error for a key that is there (section 5). `ItemsCounted` is the
  half of `CountTrue` that needs no hypothesis.
* `TableSurvives`: `status = "running"`, when memory is found for keys and for the items of growth
  (`Sites \subseteq {"item", "create"}`). `LightCache` takes the table to fail in these two ways
  ("item" and "grow") and to go on; the theorem says when it does. (A key buffer that cannot be
  replaced is answered like a missing item, but leaves the null key of section 5.) The
  invariant adds to `HInv` that no item, of any table on the stack, is without a key.

*The argument.* Nothing is said of where an item is, beyond that it is in the bucket of its key:
a table is known by the entries it holds (`In`). `HInv` has a part for a table between two
commands (`TableOK`) and one for the stack (`StackOK`): of each frame, that the new table holds
exactly the entries moved so far (`Growth`); of two neighbours, that the upper one grows a table
that holds the pending item of the lower one as well (`Within`); and of the lowest, that it grows
the table with the entry SET adds (`Started`). So a step has to look at the two top frames at
most, however deep the nesting. `NoKeyTwice` rests on the order of a chain (`Ordered`): items with
the key of the one in use are free and come before it, because what is recycled is the *last* free
item. Growth goes through a chain from its head, so that it meets the item in use last;
recycling the first free item instead breaks the property on the instance of `Table`.
`CountTrue` counts keys, not items: that `hget` is a bijection of the keys in the table and the
items in use (`LiveCount`) makes the two the same, and growth, which
loses count of recycled items, keep the old counters with good reason.

**The search for a size class** (`SizeToCacheProofs`)

* `Loop`, `SmallestFound`, `Bounded`: the loop invariant `LoopInv`, and from it
  `FindsSmallestFit` and `InBounds`, for tables of any length.

The inductive invariants, those whose existential was given a witness and `Texted` included,
were checked with TLC on the instances of the runs before they were proved.

*Left to TLC.* What needs fairness (`Terminates`, `Answered`, `HangupCloses`, `Accepted`,
`ClientsHeard`, `IdleClosed`): liveness is out of the prover's reach. The assumptions of `MCMem`
on bit sets: they are about recursive operators on words, of which the provers know nothing.
Every other property of a passing run is stated by a theorem.

## 5. What the checks found

Each of the first three has a run whose counterexample shows it.

1. **A replaced entry is freed twice** (`SharedFree`, `lightcache.c:336`). After SET,
   `conn->in` points at the cached entry until the reply is sent. If another client replaces
   or deletes the entry meanwhile, the block is freed, can be allocated for a new request with
   `can_free = 1`, and is then freed again through the old pointer.
2. **The audit stops at the first free structure** (`IdleBehindFree`, `lightcache.c:458`).
3. **32-bit products** (`FourGigabytes`, `slab.c:389` and `463`): from 4096 slabs on, the region
   is allocated too small and slabs share addresses.

The following are in the models too. The properties of the runs are stated so that they hold
in spite of them, or the constants keep them out:

* A request without a key is carried out, against the comment that says the key is
  mandatory (`lightcache.c:273`): GET compares the null pointer. `Sharing` has such requests.
* A null key stays in the chain when the buffer of a recycled item cannot be replaced
  (`hashtab.c:136`), and a later SET compares with it. `Table` has such failures.
* Growth that fails half way leaves the old chains pointing at freed items (`hashtab.c:44`).
  `Table` has that as well (`"move"`); the table is not used afterwards.
* SET answers OUT_OF_MEMORY when the table cannot grow, although the entry has been inserted;
  the request is then freed with the connection and stays cached (`FailSites = {"grow"}`,
  `hashtab.c:164`; in `HashTab` it is the site "create", which `Table` leaves out).
* A new connection structure is used before its `in` and `out` are set, if the memory
  was not zero (`DirtyStructs = TRUE`, `lightcache.c:69-87`).
* A GET reply changes, or is read from freed memory, when another client replaces the entry
  while it is sent (shared keys, `lightcache.c:304`); `RefinesService` holds in `Apart` and
  not when two clients share a key.
* After a refused header, a missing section buffer, or a section behind an empty one, what was
  not read is taken for the next header (`lightcache.c:509`, described in `src/src/todo:49-51`),
  where `socket.h:14` speaks of a connection that can be continued. `Aligned` says
  that nothing else loses the place, and `InBuffer` holds even then.
* With fewer slabs than size classes `main` turns to `malloc` and keeps the slabs
  (`lightcache.c:844`): the process then takes up to twice `mem_avail`, which
  `lightcache.h:34` calls the most it is allowed. `MemUsedWithin` is about the count.
* A null pointer from `malloc` is cleared with `memset` (`mem.c:36`).

## 6. What is not modelled

* Errors of `epoll_ctl`, `epoll_wait`, `kevent` and `accept`, which are logged and ignored.
* The conversion of text to numbers itself (`atoull`): a text is a number or it is not.
* Sockets, signals, logging, option parsing and the daemon: system calls in a row. (The
  parent of `deamonize` waits for a signal that is not sent, `kill` being commented out.)
* `-m` so large that its product wraps, and a clock that is set back.
* `htdestroy`, which nothing calls; and the clients and tests themselves.

## 7. The plan

Done: the models; proved are types, connections, memory safety and service of the server, the
allocator with its startup, the lists of slabs, the main loop, the framing, the search for a size
class, and the hash table. Left are the parts listed in section 6, and liveness and the bit sets,
which stay with TLC.

------------------------------ MODULE HashTab ------------------------------
(***************************************************************************)
(* The hash table of src/src/hashtab.c, with the operations execute_cmd    *)
(* makes of it.  Items are never unlinked: a removed one is marked free,   *)
(* keeps its key, and is taken again by the next new key of its bucket.    *)
(* Growth sets every item, the free ones too, into a table of twice the    *)
(* size with the same hset, which may in turn make that table grow, and    *)
(* frees the old items one by one as it goes.  It is stated item by item:  *)
(* each _hgrow that is under way is a frame of the stack, the last one the *)
(* innermost, and ht is the table as the last call left it.                *)
(*                                                                         *)
(* A table is a record of its size, its chains, head first, and its two    *)
(* counters.  What an item points at is its value; the request itself is   *)
(* LightCache's.  A name continued after an underscore is a plausible      *)
(* mistake.                                                                *)
(***************************************************************************)
EXTENDS Integers, SequencesExt

CONSTANTS
  Keys,
  Hash,      \* key -> what HHASH makes of it before the mask
  KeyLen,    \* key -> its length
  Vals,      \* what the cache stores
  logsize,   \* of the table at the start
  Sites,     \* which allocations can fail: a new "item" or a "key" of hset, and in growth
             \* the first ("create") or one after items have been moved ("move")
  NULL

ASSUME HashAssumption  == Hash \in [Keys -> Nat] /\ KeyLen \in [Keys -> Nat]
ASSUME SizeAssumption  == logsize \in Nat /\ 2^logsize \in Nat \ {0}
ASSUME FailAssumption  == Sites \subseteq {"item", "key", "create", "move"}
ASSUME NullAssumption  == NULL \notin Keys \cup Vals

VARIABLES
  ht,        \* the table
  stack,     \* the calls of _hgrow under way
  answer,    \* what the last operation reported
  status     \* "running", "segv", or "dangling" when chains hold freed items

vars == <<ht, stack, answer, status>>

htcreate(size) ==
  [size |-> size, chain |-> [b \in 0..(size - 1) |-> <<>>], count |-> 0, freecount |-> 0]

Bucket(t, k) == Hash[k] % t.size

Matches(chain, k) == {i \in DOMAIN chain : ~chain[i].free /\ chain[i].key = k}

hget(t, k) == LET found == Matches(t.chain[Bucket(t, k)], k)
              IN  IF found = {} THEN 0 ELSE Min(found)

\* strcmp is called for every item up to the match, free or not.
NullCompared(t, k) ==
  LET chain == t.chain[Bucket(t, k)]
  IN  \E j \in DOMAIN chain : chain[j].key = NULL /\ \A i \in Matches(chain, k) : j < i

Item(k, cap, v) == [key |-> k, klen |-> KeyLen[k], cap |-> cap, val |-> v, free |-> FALSE]

NeedsKey_late(it, k) == it.klen + 1 < KeyLen[k]

\* Is the key buffer of a recycled item too small?  cap is what was allocated.
NeedsKey(it, k) == it.klen < KeyLen[k] + 1

Overloaded(t) == 4 * (t.count - t.freecount) >= 3 * t.size

Recyclable(chain) == {i \in DOMAIN chain : chain[i].free}

Recycled_first(chain) == Min(Recyclable(chain))

\* The free item that is taken again: the last one of the chain.
Recycled(chain) == Max(Recyclable(chain))

Outcome(res, t) == [res |-> res, tab |-> t]

\* The item the new key goes into, without growth.  site: the allocation that fails.
Insert(t, k, v, site) ==
  LET b     == Bucket(t, k)
      chain == t.chain[b]
      i     == Recycled(chain)
  IN  IF Recyclable(chain) # {}
      THEN IF NeedsKey(chain[i], k)
           THEN IF site = "key"
                THEN Outcome("HERROR", [t EXCEPT !.chain[b][i] = [@ EXCEPT !.key = NULL, !.cap = 0]])
                ELSE Outcome("HSUCCESS", [t EXCEPT !.chain[b][i] = Item(k, KeyLen[k] + 1, v),
                                                   !.freecount = @ - 1])
           ELSE Outcome("HSUCCESS", [t EXCEPT !.chain[b][i] = Item(k, chain[i].cap, v),
                                              !.freecount = @ - 1])
      ELSE IF site \in {"item", "key"}
           THEN Outcome("HERROR", t)
           ELSE Outcome("HSUCCESS", [t EXCEPT !.chain[b] = Cons(Item(k, KeyLen[k] + 1, v), @),
                                              !.count = @ + 1])

-----------------------------------------------------------------------------
(* Growth                                                                  *)

\* A call of _hgrow: how many items of each chain it has moved, and where to.
_hgrow(t) == [from |-> t, done |-> [b \in DOMAIN t.chain |-> 0], to |-> htcreate(2 * t.size)]

Left(f) == {b \in DOMAIN f.from.chain : f.done[b] < Len(f.from.chain[b])}

\* The next item: buckets in order, chains from the head.
Pending(f) == f.from.chain[Min(Left(f))][f.done[Min(Left(f))] + 1]

Mark(t, k, free) == [t EXCEPT !.chain[Bucket(t, k)][hget(t, k)].free = free]

\* The pending item is in t, the new table: it is found there and marked as it was.
Moved(f, t) == [f EXCEPT !.to = Mark(t, Pending(f).key, Pending(f).free),
                         !.done[Min(Left(f))] = @ + 1]

Keeps_mask(t, grown) == [grown EXCEPT !.count = t.count, !.freecount = t.freecount, !.size = t.size]

\* The table takes the chains and the size of the new one, and keeps its counters.
Keeps(t, grown) == [grown EXCEPT !.count = t.count, !.freecount = t.freecount]

Running == status = "running"
Idle    == Running /\ stack = <<>>
Growing == Running /\ stack # <<>>
Top     == stack[Len(stack)]

\* hset on the new table, which answers HEXISTS if it has the key already, and may have to
\* grow in its turn.
Clash(f) == Left(f) # {} /\ Pending(f).key # NULL /\ hget(f.to, Pending(f).key) # 0

MoveItem ==
  LET p   == Pending(Top)
      new == Insert(Top.to, p.key, p.val, "none").tab
  IN  /\ Growing /\ Left(Top) # {}
      /\ IF p.key = NULL \/ NullCompared(Top.to, p.key)
         THEN status' = "segv" /\ UNCHANGED stack
         ELSE /\ ~Clash(Top)
              /\ stack' = IF Overloaded(new) THEN Append(stack, _hgrow(new))
                          ELSE [stack EXCEPT ![Len(stack)] = Moved(@, new)]
              /\ UNCHANGED status
      /\ UNCHANGED <<ht, answer>>

\* _hgrow returns, to the SET that made the table grow or to the _hgrow it was called from.
Grown ==
  LET n == Len(stack)
      t == Keeps(Top.from, Top.to)
  IN  /\ Growing /\ Left(Top) = {}
      /\ IF n = 1
         THEN ht' = t /\ answer' = "ok" /\ stack' = <<>>
         ELSE /\ stack' = [i \in 1..(n - 1) |-> IF i = n - 1 THEN Moved(stack[i], t) ELSE stack[i]]
              /\ UNCHANGED <<ht, answer>>
      /\ UNCHANGED status

\* Every _hgrow gives up.  If no item of the table has been moved the table is whole, with
\* the new item in it, which SET does not tell.
GrowthFails ==
  /\ Growing
  /\ IF stack[1].to.count = 0
     THEN /\ "create" \in Sites
          /\ ht' = stack[1].from /\ answer' = "error" /\ stack' = <<>> /\ UNCHANGED status
     ELSE /\ "move" \in Sites \/ Clash(Top)
          /\ status' = "dangling" /\ UNCHANGED <<ht, stack, answer>>
-----------------------------------------------------------------------------
(* What execute_cmd does with the table.                                   *)

\* SET of a key that is there: its value is replaced.
Replace(k, v) ==
  /\ hget(ht, k) # 0
  /\ ht' = [ht EXCEPT !.chain[Bucket(ht, k)][hget(ht, k)].val = v]
  /\ answer' = "ok" /\ UNCHANGED <<stack, status>>

\* SET of a new key.
Add(k, v) ==
  /\ hget(ht, k) = 0
  /\ \E site \in (Sites \cap {"item", "key"}) \cup {"none"} :
       LET new == Insert(ht, k, v, site) IN
       IF new.res = "HSUCCESS" /\ Overloaded(new.tab)
       THEN stack' = <<_hgrow(new.tab)>> /\ UNCHANGED <<ht, answer>>
       ELSE /\ ht' = new.tab /\ answer' = (IF new.res = "HSUCCESS" THEN "ok" ELSE "error")
            /\ UNCHANGED stack
  /\ UNCHANGED status

Set(k, v) ==
  /\ Idle
  /\ IF NullCompared(ht, k) THEN status' = "segv" /\ UNCHANGED <<ht, stack, answer>>
     ELSE Replace(k, v) \/ Add(k, v)

Emptied_kept(it) == [it EXCEPT !.free = TRUE]

\* del_cached_req and hfree on an item.
Emptied(it) == [it EXCEPT !.val = NULL, !.free = TRUE]

hfree_forgets(t, n) == t.freecount

hfree(t, n) == t.freecount + n

\* DELETE, and the GET that finds an entry expired.
Delete(k) ==
  LET at == hget(ht, k) IN
  /\ Idle
  /\ at # 0
  /\ ht' = [ht EXCEPT !.chain[Bucket(ht, k)][at] = Emptied(@), !.freecount = hfree(ht, 1)]
  /\ answer' = "ok" /\ UNCHANGED <<stack, status>>

Live(t) == UNION {{<<b, i>> : i \in {i \in DOMAIN t.chain[b] : ~t.chain[b][i].free}} :
                    b \in DOMAIN t.chain}

\* henum with enum_free: free items are visited too, and have nothing to give back.
FlushAll ==
  /\ Idle
  /\ ht' = [ht EXCEPT
       !.chain = [b \in DOMAIN ht.chain |-> [i \in DOMAIN ht.chain[b] |-> Emptied(ht.chain[b][i])]],
       !.freecount = hfree(ht, Cardinality(Live(ht)))]
  /\ answer' = "ok" /\ UNCHANGED <<stack, status>>

Init == ht = htcreate(2^logsize) /\ stack = <<>> /\ answer = "ok" /\ status = "running"

Next == \/ \E k \in Keys : Delete(k) \/ \E v \in Vals : Set(k, v)
        \/ FlushAll
        \/ MoveItem \/ Grown \/ GrowthFails

Spec == Init /\ [][Next]_vars
-----------------------------------------------------------------------------
(* Properties                                                              *)

Items == UNION {ToSet(ht.chain[b]) : b \in DOMAIN ht.chain}

\* hcount is the number of items in use, although growth recycles items without telling
\* the counters: it stays below the load at which the table grows.
CountTrue ==
  /\ ht.count - ht.freecount = Cardinality(Live(ht))
  /\ ~Overloaded(ht)

\* A key always fits the buffer of its item, which is recycled with the item; an item
\* left without a key, because a longer one found no memory, is free.
KeysFit == \A it \in Items :
  IF it.key = NULL THEN it.free ELSE it.klen = KeyLen[it.key] /\ it.cap >= it.klen + 1

\* A free item points at no request: FLUSH_ALL visits free items too, and would free
\* the request again.
FreeIsEmpty == \A it \in Items : it.free => it.val = NULL

\* What hset and FLUSH_ALL rely on when they come upon an item: its key fits its buffer, and
\* it points at a request only while it is in use.
ItemsSound == KeysFit /\ FreeIsEmpty

\* Growth never meets a key that it has moved already, although chains keep free items with
\* the keys of items in use, and all of them are set: hset would answer HEXISTS, and growth
\* fail with memory to spare and items freed.
NoKeyTwice == Growing => ~Clash(Top)

Dict == INSTANCE Dictionary WITH
  dict <- [k \in Keys |-> IF hget(ht, k) = 0 THEN NULL
                          ELSE ht.chain[Bucket(ht, k)][hget(ht, k)].val]

\* Buckets, recycled items and growth do not show: no key is lost, doubled or revived.
RefinesDict == Dict!DSpec
=============================================================================

------------------------------ MODULE SlabPool ------------------------------
(***************************************************************************)
(* What the slab allocator promises: chunks of a class come from slabs that*)
(* belong to the class; a slab is taken from those nobody owns only when   *)
(* every slab of the class is full, and given back with its last chunk.    *)
(***************************************************************************)
EXTENDS Integers

CONSTANTS
  Slabs,     \* the slabs
  Classes,   \* the size classes
  Room(_),   \* how many chunks of a class a slab holds
  NULL

VARIABLES
  owner,     \* slab -> class, or NULL
  taken      \* slab -> the places of its chunks in use

pvars == <<owner, taken>>

Place(s) == 0..(Room(owner[s]) - 1)

HasRoom(c) == {s \in Slabs : owner[s] = c /\ taken[s] # Place(s)}

Unowned == {s \in Slabs : owner[s] = NULL}

TakeOwned(c) ==
  \E s \in HasRoom(c) : \E i \in Place(s) \ taken[s] :
    /\ taken' = [taken EXCEPT ![s] = @ \cup {i}]
    /\ UNCHANGED owner

TakeNew(c) ==
  /\ HasRoom(c) = {}
  /\ \E s \in Unowned, i \in 0..(Room(c) - 1) :
       /\ owner' = [owner EXCEPT ![s] = c]
       /\ taken' = [taken EXCEPT ![s] = {i}]

Return(s, i) ==
  /\ i \in taken[s]
  /\ taken' = [taken EXCEPT ![s] = @ \ {i}]
  /\ owner' = [owner EXCEPT ![s] = IF taken[s] = {i} THEN NULL ELSE @]

PInit == owner = [s \in Slabs |-> NULL] /\ taken = [s \in Slabs |-> {}]

PNext ==
  \/ \E c \in Classes : TakeOwned(c) \/ TakeNew(c)
  \/ \E s \in Slabs : \E i \in taken[s] : Return(s, i)

PSpec == PInit /\ [][PNext]_pvars
=============================================================================

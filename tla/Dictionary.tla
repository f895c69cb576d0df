----------------------------- MODULE Dictionary -----------------------------
(***************************************************************************)
(* What the commands expect of the hash table: a map, whose updates happen *)
(* altogether or not at all.                                               *)
(***************************************************************************)
CONSTANTS Keys, Vals, NULL

VARIABLES
  dict,    \* key -> value, or NULL
  answer   \* whether the last operation reported success

dvars == <<dict, answer>>

Put(k, v) == dict' = [dict EXCEPT ![k] = v] /\ answer' = "ok"

\* A new key may find no memory; an old one always has its place.
PutFails(k) == dict[k] = NULL /\ dict' = dict /\ answer' = "error"

Drop(K) == dict' = [k \in Keys |-> IF k \in K THEN NULL ELSE dict[k]] /\ answer' = "ok"

DInit == dict = [k \in Keys |-> NULL] /\ answer = "ok"

DNext == \/ \E k \in Keys : \/ \E v \in Vals : Put(k, v)
                            \/ PutFails(k)
         \/ \E K \in SUBSET Keys : Drop(K)

DSpec == DInit /\ [][DNext]_dvars
=============================================================================

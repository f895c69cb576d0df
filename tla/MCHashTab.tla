----------------------------- MODULE MCHashTab -----------------------------
(***************************************************************************)
(* Instances of HashTab for TLC.                                           *)
(***************************************************************************)
EXTENDS HashTab

CONSTANTS k1, k2, k3, k4, k5

\* k1, k2 and k3 share a bucket up to size 2, k1 and k2 up to size 4; k4 and k5 are in
\* the other bucket and part when there are four.
Hashes  == k1 :> 0 @@ k2 :> 4 @@ k3 :> 2 @@ k4 :> 1 @@ k5 :> 3
Lengths == k1 :> 1 @@ k2 :> 3 @@ k3 :> 2 @@ k4 :> 1 @@ k5 :> 2
HashOf  == [k \in Keys |-> Hashes[k]]
LenOf   == [k \in Keys |-> Lengths[k]]
=============================================================================

------------------------------ MODULE MCFraming ------------------------------
(* Instances of Framing for TLC.                                           *)
EXTENDS Framing

H(k, d, e) == [klen |-> k, dlen |-> d, elen |-> e]

\* GET_STATS, GET, and SET; a key that is too long; sections that are not read.
SomeHeaders == {H(0, 0, 0), H(2, 0, 0), H(1, 1, 1), H(3, 0, 0), H(0, 1, 0), H(1, 0, 1)}
=============================================================================

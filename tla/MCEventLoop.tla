----------------------------- MODULE MCEventLoop -----------------------------
(* Instances of EventLoop for TLC, with model values for the names.        *)
EXTENDS EventLoop

CONSTANTS c1, c2, s1, s2
=============================================================================

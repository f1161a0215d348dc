---------------------------- MODULE MCMemoryOutbox ----------------------------
(* Instances of MemoryOutbox for TLC. *)
EXTENDS MemoryOutbox

CONSTANTS i1, i2, w1, w2
=============================================================================

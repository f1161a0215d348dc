-------------------------- MODULE MCMemoryProjection --------------------------
(* Instances of MemoryProjection for TLC. *)
EXTENDS MemoryProjection, TLC

CONSTANTS w1, r1, r2

\* Requests are alike.
Symmetric == Permutations(Requests)
=============================================================================

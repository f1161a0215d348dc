------------------------- MODULE MCMemoryEventStore -------------------------
(* Instances of MemoryEventStore for TLC. *)
EXTENDS MemoryEventStore, TLC

CONSTANTS s1, s2, s3, a, b, c

Symmetric == Permutations(Sessions) \cup Permutations(Names)
=============================================================================

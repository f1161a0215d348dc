------------------------- MODULE MCMemoryExtraction -------------------------
(* Instances of MemoryExtraction for TLC. *)
EXTENDS MemoryExtraction, TLC

CONSTANTS c1, c2

Symmetric == Permutations({c1, c2})

\* Little is promised after a claim or a reset that rests on an outdated row: what
\* follows a claim is not explored, and what follows a reset only with room for
\* trouble left and without an outdated window.
RowIsFresh ==
    /\ "row" \notin overtaken
    /\ "reset" \in overtaken => "window" \notin overtaken /\ trouble <= 1
=============================================================================

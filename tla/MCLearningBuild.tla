--------------------------- MODULE MCLearningBuild ---------------------------
(* Instances of LearningBuild for TLC. *)
EXTENDS LearningBuild, TLC

CONSTANTS w1, w2

\* The first generating stage checkpoints what it gets as it arrives (stages 1
\* and 3 of the code), the second only at its end (stages 0, 2 and 4).
Stages    == (0 :> {"lesson"}) @@ (1 :> {"exam"})
Learnable == {"lesson"}
=============================================================================

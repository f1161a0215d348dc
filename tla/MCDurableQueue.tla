--------------------------- MODULE MCDurableQueue ---------------------------
(* Instances of DurableQueue for TLC. *)
EXTENDS DurableQueue, TLC

CONSTANTS w1, w2

A1 == [ws |-> "a", key |-> "k", work |-> "build"]
A2 == [ws |-> "a", key |-> "k", work |-> "index"]
A3 == [ws |-> "a", key |-> NoKey, work |-> "index"]
B1 == [ws |-> "b", key |-> "k", work |-> "extract"]

AllWorks == {"build", "index", "extract"}
\* A learning build is never retried by the queue; the others once.
Budgets == [w \in AllWorks |-> IF w = "build" THEN 1 ELSE 2]

Symmetric == Permutations({w1, w2})

ReqEnqueue == {A1, A2, A3, B1}
ReqTenants == {A3, B1}
ReqBoth == {A1, B1}
=============================================================================

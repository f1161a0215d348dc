---------------------------- MODULE MCSandboxExec ----------------------------
(* Instances of SandboxExec for TLC. *)
EXTENDS SandboxExec, TLC

CONSTANTS c1, c2

Symmetric == Permutations({c1, c2})
=============================================================================

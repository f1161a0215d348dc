------------------------- MODULE MCSandboxLifecycle -------------------------
(* Instances of SandboxLifecycle for TLC. *)
EXTENDS SandboxLifecycle, TLC

CONSTANTS s1, s2, s3, t1, t2

Body(session, key, profile) ==
    [session |-> session, key |-> key, profile |-> profile]

\* The backend's key is a function of the session and the egress policy.
PoolRequests == {Body("u", "k1", "offline"), Body("u", "k1", "bigger"),
                 Body("u", "k2", "egress")}
\* Two keys for the same work, and another session.
KeyRequests == {Body("u", "k1", "offline"), Body("u", "k2", "offline"),
                Body("v", "k1", "offline")}

BothRequests == PoolRequests \cup KeyRequests

\* Bound for the runs about create: at most one sandbox is expired or
\* reclaimed or leaves a volume behind, and nobody stops or uses a sandbox.
FewReclaimed ==
    /\ Cardinality({s \in Sandboxes :
            \/ s \in expired
            \/ state[s] \in {"DELETING", "GONE"}
            \/ s \in vol /\ ctr[s] = 0}) <= 1
    /\ \A t \in Callers : pc[t] # "ensure"
    /\ \A s \in Sandboxes : state[s] # "STOPPED"

CallersSym == Permutations({t1, t2})
Symmetric == Permutations({s1, s2}) \cup Permutations({t1, t2})
=============================================================================

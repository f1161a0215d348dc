--------------------------- MODULE MCSandboxScenes ---------------------------
(* Two scenes for one run, chosen at the start.  In the first, everything can   *)
(* happen to one sandbox, whose container is built up to three times.  In the   *)
(* second, callers race to create up to three sandboxes, each built once and    *)
(* never lost, with two keys for the same work and two sessions.  The steps are *)
(* those of Next that stay within the scene.                                    *)
EXTENDS MCSandboxLifecycle

VARIABLE scene

Taken == {s \in Sandboxes : made[s] > 0 \/ s \in vol}

AsksFor(R) == \A t \in Callers : ask'[t] # ask[t] => ask'[t] \in R

\* The engine fails to make another sandbox only before there is one.
OneSandbox ==
    /\ Taken' \subseteq {s1}
    /\ AsksFor(PoolRequests)
    /\ \A t \in Callers : pc[t] = "launch" /\ pc'[t] = "failing" => Taken = {}

\* Ids come in turn: which comes next makes no difference.  Nothing expires: a
\* deleted sandbox is as gone as a swept one.
ManyCreates ==
    /\ s2 \in Taken' \ Taken => s1 \in Taken
    /\ s3 \in Taken' \ Taken => {s1, s2} \subseteq Taken
    /\ AsksFor(KeyRequests)
    /\ \A s \in Sandboxes : /\ made'[s] <= 1
                           /\ ctr[s] # 0 /\ s \in vol' => ctr'[s] # 0
    /\ expired' = {} /\ FewReclaimed'

\* All is made within one second, so that the latest of a session is any of them.
SameSecond == \A t \in Callers : pc[t] = "insert" => seen[t] = 0

InScene ==
    /\ SameSecond' /\ UNCHANGED scene
    /\ scene = "one" => OneSandbox
    /\ scene = "many" => ManyCreates

SceneInit == Init /\ scene \in {"one", "many"}

SceneNext ==
    \/ \E t \in Callers :
          \/ \E r \in Requests : CreateLookup(t, r) /\ InScene
          \/ CreateBegin(t)  /\ InScene
          \/ CreateCount(t)  /\ InScene
          \/ CreateLaunch(t) /\ InScene
          \/ CreateInsert(t) /\ InScene
          \/ CreateSettle(t) /\ InScene
          \/ CreateFail(t)   /\ InScene
          \/ \E s \in Sandboxes : EnsureCheck(t, s) /\ InScene
          \/ EnsureRun(t)    /\ InScene
    \/ \E s \in Sandboxes :
          \/ Resume(s)        /\ InScene
          \/ Use(s)           /\ InScene
          \/ UseFails(s)      /\ InScene
          \/ Stop(s)          /\ InScene
          \/ DeleteBegin(s)   /\ InScene
          \/ Sweep(s)         /\ InScene
          \/ Expire(s)        /\ InScene
          \/ ContainerLost(s) /\ InScene
    \/ DeleteFinish /\ InScene
    \/ \E old \in SUBSET Orphans : Restart(old) /\ InScene

SceneSpec == SceneInit /\ [][SceneNext]_<<vars, scene>>
=============================================================================

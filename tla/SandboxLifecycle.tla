-------------------------- MODULE SandboxLifecycle --------------------------
(***************************************************************************)
(* The life of a sandbox in sandboxd/sandboxd/controller.py: its record in *)
(* the daemon's store, the ledger of create requests, and the container    *)
(* and the volume the Docker engine keeps for it.                          *)
(*                                                                         *)
(* create runs without the controller's lock and ensure_directories too:   *)
(* each of their store and engine calls is a step of the calling thread.   *)
(* The other operations hold the lock from their check to their last       *)
(* write, so each is one step, except delete: a crash of the daemon can    *)
(* separate the DELETING mark from the rest.                               *)
(*                                                                         *)
(* No caller sends a fence (the backend's client has no such header), so a *)
(* record with a positive fence_generation, that is one in state DELETING, *)
(* admits nobody.                                                          *)
(***************************************************************************)
EXTENDS Integers, FiniteSets

CONSTANTS
    Sandboxes, \* sandbox ids (uuid4): an id is used once
    Callers,   \* threads that serve create and ensure_directories
    Requests,  \* create bodies: session, key (idempotency_key) and profile
               \* (limits and egress policy)
    MaxActive, \* config.max_active
    MaxBuilds, \* bound: containers made for one sandbox
    None

ASSUME LifecycleAssumption ==
    /\ IsFiniteSet(Sandboxes) /\ IsFiniteSet(Callers)
    /\ Requests # {}
    /\ MaxActive \in Nat \ {0} /\ MaxBuilds \in Nat \ {0}
    /\ None \notin Sandboxes

VARIABLES
    state,    \* state column of each record; "NEW" before, "GONE" after it
    asked,    \* the request each record was made for
    cid,      \* container_id column of each record
    born,     \* created_at column of each record
    expired,  \* records whose expires_at has passed
    ledger,   \* the idempotency table, by scope and key
    ctr,      \* the engine's container of each sandbox; 0 if it has none
    made,     \* containers made so far for each sandbox
    up,       \* sandboxes whose container runs
    vol,      \* sandboxes whose workspace volume exists
    pc,       \* where each caller is
    ask,      \* the request it serves
    mine,     \* the sandbox it is making or using
    seen,     \* what it read before: created_at or container_id
    ans,      \* what it answered last
    deleting  \* the record whose delete holds the lock

records == <<state, asked, cid, born, expired>>
engine  == <<ctr, made, up, vol>>
calls   == <<pc, ask, mine, seen, ans>>
vars    == <<records, ledger, engine, calls, deleting>>

States == {"NEW", "RUNNING", "STOPPED", "DELETING", "GONE"}
PCs == {"idle", "begin", "count", "launch", "insert", "settle", "failing",
        "ensure"}
\* "refused" stands for the error codes after which a caller gives up:
\* idempotency_conflict, capacity_exceeded, runtime_unavailable and those of a
\* failed creation.
Answers == {"none", "view", "indeterminate", "refused"}

\* Key of the idempotency table: owner scope (one per session) and key.
Slot(r) == <<r.session, r.key>>
Slots == {Slot(r) : r \in Requests}

Entries == [state : {"absent", "in_progress", "succeeded", "failed"},
            hash : {r.profile : r \in Requests} \cup {None},
            sandbox : Sandboxes \cup {None}]
NoEntry == [state |-> "absent", hash |-> None, sandbox |-> None]

TypeOK ==
    /\ state \in [Sandboxes -> States]
    /\ asked \in [Sandboxes -> Requests]
    /\ cid \in [Sandboxes -> Nat]
    /\ born \in [Sandboxes -> Nat]
    /\ expired \subseteq Sandboxes
    /\ ledger \in [Slots -> Entries]
    /\ ctr \in [Sandboxes -> Nat]
    /\ made \in [Sandboxes -> Nat]
    /\ up \subseteq Sandboxes
    /\ vol \subseteq Sandboxes
    /\ pc \in [Callers -> PCs]
    /\ ask \in [Callers -> Requests]
    /\ mine \in [Callers -> Sandboxes \cup {None}]
    /\ seen \in [Callers -> Nat]
    /\ ans \in [Callers -> Answers]
    /\ deleting \in Sandboxes \cup {None}

AnyRequest == CHOOSE r \in Requests : TRUE

Init ==
    /\ state = [s \in Sandboxes |-> "NEW"]
    /\ asked = [s \in Sandboxes |-> AnyRequest]
    /\ cid = [s \in Sandboxes |-> 0]
    /\ born = [s \in Sandboxes |-> 0]
    /\ expired = {}
    /\ ledger = [k \in Slots |-> NoEntry]
    /\ ctr = [s \in Sandboxes |-> 0]
    /\ made = [s \in Sandboxes |-> 0]
    /\ up = {}
    /\ vol = {}
    /\ pc = [t \in Callers |-> "idle"]
    /\ ask = [t \in Callers |-> AnyRequest]
    /\ mine = [t \in Callers |-> None]
    /\ seen = [t \in Callers |-> 0]
    /\ ans = [t \in Callers |-> "none"]
    /\ deleting = None

-----------------------------------------------------------------------------
(* The store and the engine. *)

Recorded(s) == state[s] \in {"RUNNING", "STOPPED", "DELETING"}

\* count_active
Active == {s \in Sandboxes : state[s] \in {"RUNNING", "STOPPED"}}

\* get_sandbox_by_session: created_at has a resolution of one second, so
\* several records can be the latest.
Latest(session) ==
    {s \in Sandboxes :
        /\ Recorded(s) /\ asked[s].session = session
        /\ \A q \in Sandboxes : Recorded(q) /\ asked[q].session = session
                                  => born[q] <= born[s]}

\* delete_sandbox
DeleteRecord(s) ==
    /\ state' = [state EXCEPT ![s] = "GONE"]
    /\ cid' = [cid EXCEPT ![s] = 0]
    /\ born' = [born EXCEPT ![s] = 0]
    /\ expired' = expired \ {s}
    /\ UNCHANGED asked

\* _require for a caller without a fence.
Admits(s) == Recorded(s) /\ state[s] # "DELETING" /\ s \notin expired

\* DockerRuntime.create: the container's name is taken from the sandbox, so
\* the engine refuses a second one.
RuntimeCreate(s) ==
    /\ ctr[s] = 0 /\ made[s] < MaxBuilds
    /\ made' = [made EXCEPT ![s] = made[s] + 1]
    /\ ctr' = [ctr EXCEPT ![s] = made[s] + 1]
    /\ up' = up \cup {s}
    /\ vol' = vol \cup {s}

\* It fails before or after it has made the volume; a container that does not
\* start is removed again.
RuntimeCreateFails(s) ==
    /\ \/ UNCHANGED vol
       \/ vol' = vol \cup {s}
    /\ UNCHANGED <<ctr, made, up>>

\* DockerRuntime.delete, for each sandbox in S: it removes the container with
\* the id it is given, if the engine knows it, and then the volume, which the
\* engine keeps while a container mounts it.
RuntimeDelete(S, id) ==
    LET cleared == {s \in S : ctr[s] \in {0, id[s]}} IN
    /\ ctr' = [s \in Sandboxes |-> IF s \in cleared THEN 0 ELSE ctr[s]]
    /\ up' = up \ cleared
    /\ vol' = vol \ cleared
    /\ UNCHANGED made

\* The delete of one sandbox, whether it returns or raises: its calls fail one
\* by one, and one that fails after the volume is gone raises all the same.
RuntimeDeleteTry(s) ==
    \/ RuntimeDelete({s}, cid)
    \/ /\ ctr[s] = cid[s]
       /\ ctr' = [ctr EXCEPT ![s] = 0]
       /\ up' = up \ {s}
       /\ UNCHANGED <<made, vol>>
    \/ UNCHANGED engine

-----------------------------------------------------------------------------
(* create *)

Answer(t, a) ==
    /\ pc' = [pc EXCEPT ![t] = "idle"]
    /\ ans' = [ans EXCEPT ![t] = a]

Goto(t, p) ==
    /\ pc' = [pc EXCEPT ![t] = p]
    /\ ans' = [ans EXCEPT ![t] = "none"]

\* Mutant: a warm sandbox is reused whatever its limits and policy.
ReusableAnyProfile(s, r) == state[s] # "DELETING" /\ s \notin expired

\* A warm sandbox of the session can serve the request.
Reusable(s, r) ==
    /\ state[s] # "DELETING" /\ s \notin expired
    /\ asked[s].profile = r.profile

CreateLookup(t, r) ==
    /\ pc[t] = "idle"
    /\ ask' = [ask EXCEPT ![t] = r]
    /\ IF Latest(r.session) = {}
       THEN Goto(t, "begin") /\ mine' = [mine EXCEPT ![t] = None]
       ELSE \E s \in Latest(r.session) :
              IF Reusable(s, r)
              THEN Answer(t, "view") /\ mine' = [mine EXCEPT ![t] = s]
              ELSE Goto(t, "begin") /\ mine' = [mine EXCEPT ![t] = None]
    /\ UNCHANGED <<records, ledger, engine, seen, deleting>>

\* Mutant: a create that has not succeeded may be tried again.
ClaimableUnlessDone(e) == e.state # "succeeded"

\* begin_idempotent lets the caller go on.
Claimable(e) == e.state = "absent"

\* begin_idempotent, and the answer to a key that was used before.
CreateBegin(t) ==
    LET r == ask[t]
        e == ledger[Slot(r)]
    IN
    /\ pc[t] = "begin"
    /\ IF Claimable(e)
       THEN /\ ledger' = [ledger EXCEPT ![Slot(r)] =
                 [state |-> "in_progress", hash |-> r.profile, sandbox |-> None]]
            /\ Goto(t, "count")
            /\ UNCHANGED mine
       ELSE /\ UNCHANGED ledger
            /\ IF e.hash # r.profile
               THEN Answer(t, "refused") /\ UNCHANGED mine
               ELSE IF e.state = "succeeded" /\ Recorded(e.sandbox)
                    THEN /\ Answer(t, "view")
                         /\ mine' = [mine EXCEPT ![t] = e.sandbox]
                    ELSE Answer(t, "indeterminate") /\ UNCHANGED mine
    /\ UNCHANGED <<records, engine, ask, seen, deleting>>

\* Mutant: the capacity test is off by one.
FullLate == Cardinality(Active) > MaxActive

Full == Cardinality(Active) >= MaxActive

\* The capacity and image tests leave the ledger entry in progress.
CreateCount(t) ==
    /\ pc[t] = "count"
    /\ IF Full THEN Answer(t, "refused")
               ELSE Goto(t, "launch") \/ Answer(t, "refused")
    /\ UNCHANGED <<records, ledger, engine, ask, mine, seen, deleting>>

\* created_at of every record, made or about to be inserted.
Stamps == {born[s] : s \in Sandboxes}
          \cup {seen[t] : t \in {u \in Callers : pc[u] = "insert"}}

\* The present second: the one the youngest was made in, or a later one.
Now == {now \in 0..(Cardinality(Sandboxes) + 1) :
            /\ \A b \in Stamps : b <= now
            /\ \E b \in Stamps : now <= b + 1}

\* _create_impl makes a new id, reads the clock and calls the engine.
CreateLaunch(t) ==
    /\ pc[t] = "launch"
    /\ \E s \in Sandboxes :
          /\ state[s] = "NEW" /\ made[s] = 0 /\ s \notin vol
          /\ \/ /\ RuntimeCreate(s)
                /\ asked' = [asked EXCEPT ![s] = ask[t]]
                /\ Goto(t, "insert")
                /\ mine' = [mine EXCEPT ![t] = s]
                /\ \E now \in Now : seen' = [seen EXCEPT ![t] = now]
             \/ /\ RuntimeCreateFails(s)
                /\ Goto(t, "failing")
                /\ UNCHANGED <<asked, mine, seen>>
    /\ UNCHANGED <<state, cid, born, expired, ledger, ask, deleting>>

\* insert_sandbox; when the store fails the container is left behind.
CreateInsert(t) ==
    LET s == mine[t] IN
    /\ pc[t] = "insert"
    /\ \/ /\ state' = [state EXCEPT ![s] = "RUNNING"]
          /\ cid' = [cid EXCEPT ![s] = 1]
          /\ born' = [born EXCEPT ![s] = seen[t]]
          /\ Goto(t, "settle")
       \/ /\ Goto(t, "failing")
          /\ UNCHANGED <<state, cid, born>>
    /\ seen' = [seen EXCEPT ![t] = 0]
    /\ UNCHANGED <<asked, expired, ledger, engine, ask, mine, deleting>>

\* complete_idempotent after a success.
CreateSettle(t) ==
    /\ pc[t] = "settle"
    /\ ledger' = [ledger EXCEPT ![Slot(ask[t])] =
         [state |-> "succeeded", hash |-> ask[t].profile, sandbox |-> mine[t]]]
    /\ Answer(t, "view")
    /\ UNCHANGED <<records, engine, ask, mine, seen, deleting>>

\* complete_idempotent after an exception.
CreateFail(t) ==
    /\ pc[t] = "failing"
    /\ ledger' = [ledger EXCEPT ![Slot(ask[t])] =
         [state |-> "failed", hash |-> ask[t].profile, sandbox |-> None]]
    /\ Answer(t, "refused")
    /\ UNCHANGED <<records, engine, ask, mine, seen, deleting>>

-----------------------------------------------------------------------------
(* Operations under the lock. *)

\* _ensure_runtime for a record whose container_id was read as c.
EnsureRuntime(s, c) ==
    \/ /\ ctr[s] = c
       /\ up' = up \cup {s}
       /\ UNCHANGED <<ctr, made, vol>>
    \/ ctr[s] # c /\ RuntimeCreate(s)

Unlocked == deleting = None

\* Mutant: resume does not check the record's state.
ResumeAny(s) ==
    /\ Unlocked /\ Recorded(s)
    /\ EnsureRuntime(s, cid[s])
    /\ state' = [state EXCEPT ![s] = "RUNNING"]
    /\ cid' = [cid EXCEPT ![s] = ctr'[s]]
    /\ UNCHANGED <<asked, born, expired, ledger, calls, deleting>>

Resume(s) ==
    /\ Unlocked /\ Admits(s)
    /\ EnsureRuntime(s, cid[s])
    /\ state' = [state EXCEPT ![s] = "RUNNING"]
    /\ cid' = [cid EXCEPT ![s] = ctr'[s]]
    /\ UNCHANGED <<asked, born, expired, ledger, calls, deleting>>

\* exec, file and kernel operations resume the runtime; the record keeps its
\* state and its container_id.
Use(s) ==
    /\ Unlocked /\ Admits(s)
    /\ EnsureRuntime(s, cid[s])
    /\ UNCHANGED <<records, ledger, calls, deleting>>

\* Any of them can fail half-way through making the container anew.
UseFails(s) ==
    /\ Unlocked /\ Admits(s)
    /\ ctr[s] # cid[s]
    /\ RuntimeCreateFails(s)
    /\ UNCHANGED <<records, ledger, calls, deleting>>

\* stop: a container that is missing counts as stopped.
Stop(s) ==
    /\ Unlocked /\ Admits(s) /\ state[s] = "RUNNING"
    /\ up' = IF ctr[s] = cid[s] THEN up \ {s} ELSE up
    /\ state' = [state EXCEPT ![s] = "STOPPED"]
    /\ UNCHANGED <<asked, cid, born, expired, ledger, ctr, made, vol, calls,
                   deleting>>

DeleteBegin(s) ==
    /\ Unlocked /\ Recorded(s)
    /\ state' = [state EXCEPT ![s] = "DELETING"]
    /\ deleting' = s
    /\ UNCHANGED <<asked, cid, born, expired, ledger, engine, calls>>

\* The record goes even when the engine fails.
DeleteFinish ==
    /\ deleting # None
    /\ RuntimeDeleteTry(deleting)
    /\ DeleteRecord(deleting)
    /\ deleting' = None
    /\ UNCHANGED <<ledger, calls>>

\* Mutant: the sweep does not look at expires_at.
SweepAny(s) ==
    /\ Unlocked /\ Recorded(s)
    /\ RuntimeDeleteTry(s)
    /\ DeleteRecord(s) \/ UNCHANGED records
    /\ UNCHANGED <<ledger, calls, deleting>>

\* sweep_expired, one record of its loop: the record goes once the engine's
\* delete returns, also when it had to leave something behind.  When delete
\* raises the record stays, whatever is gone already.
Sweep(s) ==
    /\ Unlocked /\ Recorded(s) /\ s \in expired
    /\ RuntimeDeleteTry(s)
    /\ DeleteRecord(s) \/ UNCHANGED records
    /\ UNCHANGED <<ledger, calls, deleting>>

-----------------------------------------------------------------------------
(* ensure_directories *)

\* _require, without the lock.
EnsureCheck(t, s) ==
    /\ pc[t] = "idle" /\ Admits(s)
    /\ mine' = [mine EXCEPT ![t] = s]
    /\ seen' = [seen EXCEPT ![t] = cid[s]]
    /\ pc' = [pc EXCEPT ![t] = "ensure"]
    /\ ans' = [ans EXCEPT ![t] = "none"]
    /\ UNCHANGED <<records, ledger, engine, ask, deleting>>

EnsureRun(t) ==
    /\ pc[t] = "ensure"
    /\ EnsureRuntime(mine[t], seen[t]) \/ RuntimeCreateFails(mine[t])
    /\ pc' = [pc EXCEPT ![t] = "idle"]
    /\ mine' = [mine EXCEPT ![t] = None]
    /\ seen' = [seen EXCEPT ![t] = 0]
    /\ UNCHANGED <<records, ledger, ask, ans, deleting>>

-----------------------------------------------------------------------------
(* The world. *)

\* ttl_seconds pass.
Expire(s) ==
    /\ Recorded(s) /\ s \notin expired
    /\ expired' = expired \cup {s}
    /\ UNCHANGED <<state, asked, cid, born, ledger, engine, calls, deleting>>

\* Somebody removes a container behind the daemon's back; volumes stay.
ContainerLost(s) ==
    /\ ctr[s] # 0 /\ made[s] < MaxBuilds
    /\ ctr' = [ctr EXCEPT ![s] = 0]
    /\ up' = up \ {s}
    /\ UNCHANGED <<records, ledger, made, vol, calls, deleting>>

Orphans == {s \in Sandboxes : ctr[s] # 0 /\ ~Recorded(s)}

\* runtime_reconcile_orphans deletes the orphans older than the grace period.
\* Their handle has no container id.
Reconcile(old) == RuntimeDelete(old, [s \in Sandboxes |-> 0])

\* The daemon dies and starts again.
Restart(old) ==
    /\ pc' = [t \in Callers |-> "idle"]
    /\ ans' = [t \in Callers |-> "none"]
    /\ mine' = [t \in Callers |-> None]
    /\ deleting' = None
    /\ seen' = [t \in Callers |-> 0]
    /\ Reconcile(old)
    /\ UNCHANGED <<records, ledger, ask>>

CreateStep(t) ==
    \/ \E r \in Requests : CreateLookup(t, r)
    \/ CreateBegin(t) \/ CreateCount(t) \/ CreateLaunch(t)
    \/ CreateInsert(t) \/ CreateSettle(t) \/ CreateFail(t)

Next ==
    \/ \E t \in Callers :
          \/ CreateStep(t)
          \/ \E s \in Sandboxes : EnsureCheck(t, s)
          \/ EnsureRun(t)
    \/ \E s \in Sandboxes :
          \/ Resume(s) \/ Use(s) \/ UseFails(s) \/ Stop(s)
          \/ DeleteBegin(s) \/ Sweep(s) \/ Expire(s) \/ ContainerLost(s)
    \/ DeleteFinish
    \/ \E old \in SUBSET Orphans : Restart(old)

Spec == Init /\ [][Next]_vars

-----------------------------------------------------------------------------
(* Properties. *)

\* begin_idempotent (store.py:299-328) makes a retried create harmless: in
\* whatever order callers, failures and restarts come, one key of one session
\* never makes the engine build a second sandbox.
AtMostOncePerKey ==
    \A s, q \in Sandboxes :
        made[s] > 0 /\ made[q] > 0 /\ Slot(asked[s]) = Slot(asked[q]) => s = q

\* A create that answers with a sandbox (controller.py:331-366, 385-388), by
\* reuse, by replay or by making one, answers with a sandbox of the caller's
\* session with the limits and the policy asked for.
ViewIsOwn ==
    \A t \in Callers : ans[t] = "view" =>
        /\ state[mine[t]] # "NEW"
        /\ asked[mine[t]].session = ask[t].session
        /\ asked[mine[t]].profile = ask[t].profile

\* A sandbox that still admits callers has its workspace, although its container
\* may be removed, rebuilt or half rebuilt: no delete or reconcile takes the
\* volume and leaves such a record, and the record that outlives its volume, left
\* by a sweep that failed half-way, has expired and admits nobody
\* (controller.py:465-489, 516-585, 1075-1123).
WorkspaceKept == \A s \in Sandboxes : Admits(s) => s \in vol

\* A delete survives a restart half-way: the record left as DELETING is never
\* revived by a resume, stop or create (controller.py:465-489, 542-585).
DeleteIsFinal ==
    [][\A s \in Sandboxes :
         state[s] \in {"DELETING", "GONE"}
         => state'[s] \in {"DELETING", "GONE"}]_vars

\* create tests the capacity without the lock (controller.py:372), so callers
\* that pass the test together overshoot max_active, but by no more than all
\* threads but one.
OvershootIsBounded ==
    Cardinality(Active) <= MaxActive - 1 + Cardinality(Callers)

\* "The sandbox record may have been swept by the TTL sweep while the
\* idempotency ledger survived; re-create in that case" (controller.py:361-363).
SweptIsRecreated ==
    [][\A t \in Callers :
         LET e == ledger[Slot(ask[t])] IN
         /\ pc[t] = "begin" /\ pc'[t] = "idle"
         /\ e.state = "succeeded" /\ e.hash = ask[t].profile
         /\ ~Recorded(e.sandbox)
         => ans'[t] # "indeterminate"]_vars
=============================================================================

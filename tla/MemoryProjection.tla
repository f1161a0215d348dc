-------------------------- MODULE MemoryProjection --------------------------
(***************************************************************************)
(* One memory and its copy at the workspace's memory provider.             *)
(*                                                                         *)
(* A request (backend/app/services/memory.py) commits a change of the      *)
(* record, with an outbox row for it, and then carries the change to the   *)
(* provider itself, best effort: the fast path.  The outbox worker calls   *)
(* MemoryProviderProjector.handle for every row that is still waiting.     *)
(*                                                                         *)
(* Items are the record's events, in the order of their commits.  There is *)
(* one process (docker-compose.yml:38-39): Workers has one element, and a  *)
(* crash takes the requests with it.  A copy is the number of the revision *)
(* it shows.  The path the provider derives from a memory stays the same   *)
(* (it changes with the record's zone only).  Both databases give writers  *)
(* one lock, taken with a transaction's first write, so everything a       *)
(* transaction does from then on is one step.                              *)
(***************************************************************************)
EXTENDS MemoryOutbox

CONSTANTS
    Requests, \* threads that serve requests
    Ops       \* what they may be asked: "update", "delete"

ASSUME ProjectionAssumption ==
    /\ Items = 1..Cardinality(Items)
    /\ Cardinality(Workers) = 1
    /\ Ops \subseteq {"update", "delete"}

VARIABLES
    fast,   \* the rows' kind is that of the workspace's provider, which the
            \* fast path serves; if not, they are for the local Markdown copy
            \* kept beside a remote provider, which the worker alone serves
    rev,    \* revision of the record; 0 before it is created
    canon,  \* the revision whose content is active; 0 if there is none
    ref,    \* record.provider_binding_id is set
    bind,   \* memory_provider_bindings: the row of each revision
    tombs,  \* revisions whose DELETE event has been appended
    file,   \* the provider's copy; 0 if there is none
    rpc,    \* where each request is
    mind,   \* what it read and decided: operation, revision, ref
    hpc,    \* where the worker's handler is
    saw     \* what the handler read: revision, and the bindings it acts on

record   == <<fast, rev, canon, ref, bind, tombs>>
requests == <<rpc, mind>>
handler  == <<hpc, saw>>
vars     == <<outbox, record, file, requests, handler>>

Revs == Items
NoMind == [op |-> "none", rev |-> 0, ref |-> FALSE]
NoSaw == [rev |-> 0, binds |-> {}]

\* "open" stands for verified, pending_delete and orphaned.
ProjectionTypeOK ==
    /\ TypeOK
    /\ fast \in BOOLEAN
    /\ rev \in Revs \cup {0} /\ canon \in {0, rev}
    /\ ref \in BOOLEAN
    /\ bind \in [Revs -> {"absent", "open", "deleted"}]
    /\ tombs \subseteq Revs
    /\ file \in 0..rev
    /\ rpc \in [Requests -> {"idle", "commit", "upsert", "bind", "erase", "unbind"}]
    /\ mind \in [Requests -> [op : {"none", "create", "update", "delete"},
                              rev : Revs \cup {0}, ref : BOOLEAN]]
    /\ hpc \in {"idle", "read", "bindings", "apply", "report"}
    /\ saw \in [rev : Revs \cup {0}, binds : SUBSET Revs]
    /\ \A w \in Workers : pc[w] = "running" <=> hpc # "idle"

Init ==
    /\ OutboxInit
    /\ fast \in BOOLEAN
    /\ rev = 0 /\ canon = 0 /\ ref = FALSE
    /\ bind = [r \in Revs |-> "absent"]
    /\ tombs = {} /\ file = 0
    /\ rpc = [r \in Requests |-> "idle"]
    /\ mind = [r \in Requests |-> NoMind]
    /\ hpc = "idle" /\ saw = NoSaw

-----------------------------------------------------------------------------
(* Requests *)

Bound == {r \in Revs : bind[r] # "absent"}

\* Mutant of Append: one open row is thought to be enough for the memory, and
\* that of a further event counts as done.
AppendUnlessOpen ==
    \E i \in Items :
        /\ \A k \in 1..(i - 1) : status[k] # "absent"
        /\ IF \E k \in Items : status[k] \in Open
           THEN /\ status[i] = "absent"
                /\ status' = [status EXCEPT ![i] = "succeeded"]
                /\ UNCHANGED <<attempts, avail, left, gen>>
           ELSE Post(i)

\* The event of a change and its outbox row; the first free number is next.
Append == \E i \in Items : /\ Post(i)
                           /\ \A k \in 1..(i - 1) : status[k] # "absent"

Goto(r, p) ==
    /\ rpc' = [rpc EXCEPT ![r] = p]
    /\ mind' = IF p = "idle" THEN [mind EXCEPT ![r] = NoMind] ELSE mind

\* update and delete load the record (_require_active) before they write.
Load(r, op) ==
    /\ rpc[r] = "idle" /\ canon # 0
    /\ rpc' = [rpc EXCEPT ![r] = "commit"]
    /\ mind' = [mind EXCEPT ![r] = [op |-> op, rev |-> rev, ref |-> ref]]
    /\ UNCHANGED <<outbox, record, file, handler>>

\* create, up to its commit.
Create(r) ==
    /\ rpc[r] = "idle" /\ rev = 0
    /\ Append
    /\ rev' = 1 /\ canon' = 1
    /\ rpc' = [rpc EXCEPT ![r] = IF fast THEN "upsert" ELSE "idle"]
    /\ mind' = [mind EXCEPT ![r] = IF fast
                                   THEN [op |-> "create", rev |-> 1, ref |-> FALSE]
                                   ELSE NoMind]
    /\ UNCHANGED <<fast, ref, bind, tombs, file, workers, faults, handler>>

\* Mutant of Update: the record keeps its old revision number.
UpdateKeepsRevision(r) ==
    /\ rpc[r] = "commit" /\ mind[r].op = "update"
    /\ canon # 0 /\ rev = mind[r].rev
    /\ Append
    /\ canon' = rev + 1
    /\ Goto(r, "idle")
    /\ UNCHANGED <<fast, rev, ref, bind, tombs, file, workers, faults, handler>>

\* update commits: the compare-and-swap on state and revision, the new
\* revision and its event.
Update(r) ==
    /\ rpc[r] = "commit" /\ mind[r].op = "update"
    /\ canon # 0 /\ rev = mind[r].rev
    /\ Append
    /\ rev' = rev + 1 /\ canon' = rev + 1
    /\ rpc' = [rpc EXCEPT ![r] = IF fast THEN "upsert" ELSE "idle"]
    /\ mind' = [mind EXCEPT ![r] = IF fast THEN [@ EXCEPT !.rev = rev + 1] ELSE NoMind]
    /\ UNCHANGED <<fast, ref, bind, tombs, file, workers, faults, handler>>

\* The compare-and-swap fails: memory_revision_conflict.
Conflict(r) ==
    /\ rpc[r] = "commit" /\ mind[r].op = "update"
    /\ canon = 0 \/ rev # mind[r].rev
    /\ Goto(r, "idle")
    /\ UNCHANGED <<outbox, record, file, handler>>

\* delete commits: contents are scrubbed and bindings await deletion.  The
\* event's idempotency key names the revision that was loaded, so a second
\* DELETE of it appends nothing.
Delete(r) ==
    /\ rpc[r] = "commit" /\ mind[r].op = "delete"
    /\ canon' = 0 /\ ref' = FALSE
    /\ bind' = [k \in Revs |-> IF k \in Bound THEN "open" ELSE "absent"]
    /\ tombs' = tombs \cup {mind[r].rev}
    /\ IF mind[r].rev \in tombs THEN UNCHANGED rows ELSE Append
    /\ Goto(r, IF fast /\ mind[r].ref THEN "erase" ELSE "idle")
    /\ UNCHANGED <<fast, rev, file, workers, faults, handler>>

\* _project_after_commit writes the provider's copy ...
FastUpsert(r) ==
    /\ rpc[r] = "upsert"
    /\ file' = mind[r].rev
    /\ Goto(r, "bind")
    /\ UNCHANGED <<outbox, record, handler>>

\* Mutant of FastBind: the rows of the memory are settled whatever they are.
FastBindAll(r) ==
    /\ rpc[r] = "bind"
    /\ bind[mind[r].rev] = "absent"
    /\ bind' = [bind EXCEPT ![mind[r].rev] = "open"]
    /\ ref' = (ref \/ ~mind[r].ref)
    /\ SettleElsewhere({i \in Items : status[i] # "absent"})
    /\ Goto(r, "idle")
    /\ UNCHANGED <<fast, rev, canon, tombs, file, workers, faults, handler>>

\* ... and commits the binding and the outcome of every row that waits.  The
\* binding of a revision is unique, and provider_binding_id is written only
\* if the request loaded another value.
FastBind(r) ==
    /\ rpc[r] = "bind"
    /\ bind[mind[r].rev] = "absent"
    /\ bind' = [bind EXCEPT ![mind[r].rev] = "open"]
    /\ ref' = (ref \/ ~mind[r].ref)
    /\ SettleElsewhere(Waiting)
    /\ Goto(r, "idle")
    /\ UNCHANGED <<fast, rev, canon, tombs, file, workers, faults, handler>>

\* _delete_projection_after_commit.
FastErase(r) ==
    /\ rpc[r] = "erase"
    /\ file' = 0
    /\ Goto(r, "unbind")
    /\ UNCHANGED <<outbox, record, handler>>

FastUnbind(r) ==
    /\ rpc[r] = "unbind"
    /\ bind' = [k \in Revs |-> IF k \in Bound THEN "deleted" ELSE "absent"]
    /\ Goto(r, "idle")
    /\ UNCHANGED <<fast, rev, canon, ref, tombs, outbox, file, handler>>

\* The provider or the database raises: rollback, and the rows stay queued.
FastFails(r) ==
    /\ rpc[r] \in {"upsert", "bind", "erase", "unbind"}
    /\ Goto(r, "idle")
    /\ UNCHANGED <<outbox, record, file, handler>>

-----------------------------------------------------------------------------
(* The outbox worker and its handler *)

\* The worker's steps outside the handler.
Between(w) ==
    /\ Poll(w) \/ \E i \in Items : Skip(w, i)
    /\ UNCHANGED <<record, file, requests, handler>>

Start(w) ==
    /\ \E i \in Items : Claim(w, i)
    /\ hpc' = "read"
    /\ UNCHANGED <<record, file, requests, saw>>

\* handle reads the record and its active revision, after the claim ...
HandlerRead ==
    /\ hpc = "read"
    /\ saw' = [rev |-> canon, binds |-> {}]
    /\ hpc' = "bindings"
    /\ UNCHANGED <<outbox, record, file, requests>>

Highest(S) == {k \in S : \A l \in S : l <= k}

\* ... then its binding: the latest one to write, or all open ones to delete.
HandlerBindings ==
    /\ hpc = "bindings"
    /\ saw' = [saw EXCEPT !.binds = IF saw.rev # 0 THEN Highest(Bound)
                                    ELSE {k \in Revs : bind[k] = "open"}]
    /\ hpc' = "apply"
    /\ UNCHANGED <<outbox, record, file, requests>>

\* provider.upsert, or provider.delete for each binding found.
HandlerApply ==
    /\ hpc = "apply"
    /\ file' = IF saw.rev # 0 THEN saw.rev
               ELSE IF saw.binds # {} THEN 0 ELSE file
    /\ hpc' = "report"
    /\ UNCHANGED <<outbox, record, requests, saw>>

\* Mutant of Rebind: a copy that has no binding yet gets none.
RebindMovesOnly ==
    bind' = [k \in Revs |-> IF k \in saw.binds
                            THEN IF saw.rev = 0 THEN "deleted" ELSE "open"
                            ELSE bind[k]]

\* The flush of the bindings: a new one, the latest one moved to the revision
\* projected, or the deleted ones.
Rebind ==
    IF saw.rev = 0
    THEN bind' = [k \in Revs |-> IF k \in saw.binds THEN "deleted" ELSE bind[k]]
    ELSE /\ saw.rev \in saw.binds \/ bind[saw.rev] = "absent"
         /\ bind' = [k \in Revs |-> IF k = saw.rev THEN "open"
                                    ELSE IF k \in saw.binds THEN "absent"
                                    ELSE bind[k]]

\* The handler returned: its bindings commit with the row's outcome, or
\* without it when the claim was lost.
Succeed(w) ==
    /\ hpc = "report"
    /\ MarkSucceeded(w) /\ Rebind
    /\ hpc' = "idle" /\ saw' = NoSaw
    /\ UNCHANGED <<fast, rev, canon, ref, tombs, file, requests>>

\* The handler raised, before or after the provider did its part.
Failed(w) ==
    /\ hpc # "idle"
    /\ MarkFailed(w, FALSE)
    /\ hpc' = "idle" /\ saw' = NoSaw
    /\ UNCHANGED <<record, file, requests>>

\* run_once raises: the worker drops its batch, requests go on.
RunAborts(w) ==
    /\ hpc # "idle" \/ pc[w] = "claiming"
    /\ Crash(w)
    /\ hpc' = "idle" /\ saw' = NoSaw
    /\ UNCHANGED <<record, file, requests>>

\* The process dies with its worker and its requests, and starts again.
ProcessCrash(w) ==
    /\ Crash(w)
    /\ rpc' = [r \in Requests |-> "idle"]
    /\ mind' = [r \in Requests |-> NoMind]
    /\ hpc' = "idle" /\ saw' = NoSaw
    /\ UNCHANGED <<record, file>>

-----------------------------------------------------------------------------
RequestStep(r) ==
    \/ Create(r) \/ Update(r) \/ Conflict(r) \/ Delete(r)
    \/ FastUpsert(r) \/ FastBind(r) \/ FastErase(r) \/ FastUnbind(r)
    \/ FastFails(r)

WorkerGoesOn(w) ==
    \/ Between(w) \/ Start(w) \/ HandlerRead \/ HandlerBindings \/ HandlerApply
    \/ Succeed(w) \/ Failed(w)

Passes == (Tick \/ \E w \in Workers : Renew(w))
          /\ UNCHANGED <<record, file, requests, handler>>

Next ==
    \/ \E r \in Requests : RequestStep(r) \/ \E op \in Ops : Load(r, op)
    \/ \E w \in Workers : WorkerGoesOn(w) \/ RunAborts(w) \/ ProcessCrash(w)
    \/ Passes

Spec == Init /\ [][Next]_vars

-----------------------------------------------------------------------------
(* Properties *)

\* Nothing is left to do: every row is settled well and nobody is at work.
Quiet ==
    /\ \A i \in Items : status[i] \in {"absent", "succeeded"}
    /\ \A r \in Requests : rpc[r] = "idle"
    /\ hpc = "idle"

\* When all rows of a memory have succeeded, the copy that only the outbox
\* worker writes shows its latest revision: handlers that failed or died after
\* their effect are run again and read the record anew.
MirrorIsCurrent == ~fast /\ Quiet /\ canon # 0 => file = canon

\* When all rows of a deleted memory have succeeded at their first attempt, its
\* copy is gone: the worker that deletes it finds the binding of every copy that
\* was made, however it and the requests interleaved.
MirrorIsErased ==
    ~fast /\ faults = 0 /\ Quiet /\ canon = 0 /\ (\A i \in Items : attempts[i] = 0)
        => file = 0
=============================================================================

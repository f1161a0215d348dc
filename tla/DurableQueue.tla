---------------------------- MODULE DurableQueue ----------------------------
(***************************************************************************)
(* The database-backed job queue of backend/app/services/durable_queue.py: *)
(* rows of the durable_jobs table, the worker loops that claim, run and    *)
(* report on them, the producers that enqueue them, and the users that     *)
(* cancel or restart them.                                                 *)
(*                                                                         *)
(* Every database transaction is one step.  A call that spans several      *)
(* transactions, or that reads in one statement and writes in another, is  *)
(* several steps, so other processes run in between.                       *)
(*                                                                         *)
(* Time.  A timestamp column is kept as its distance from the present, so  *)
(* "available_at <= now" is "avail <= 0"; Tick moves every timestamp one   *)
(* unit into the past.  MaxLag bounds how far the past is told apart, and  *)
(* how old the `now` of a half-done claim can become.                      *)
(***************************************************************************)
EXTENDS Integers, FiniteSets

CONSTANTS
    Jobs,        \* identities of rows the table may come to hold
    Workers,     \* worker processes; a restarted process is a new worker
    Producers,   \* concurrent callers of enqueue
    Tokens,      \* lease tokens (uuid4)
    Works,       \* kind and payload of a job
    Requests,    \* arguments of enqueue: workspace, dedupe key, work
    MaxAttempts, \* max_attempts of each work
    Renewing,    \* works that run under learning_lease_heartbeat
    Continuous,  \* works whose handler may ask to be re-armed
    Restartable, \* works a user can cancel or restart by its build row
    Debounced,   \* works enqueue_memory_extraction postpones
    Lease,       \* lease_seconds
    BackoffCap,  \* the 60 s cap of the retry backoff
    Delay,       \* longest requested delay (rearm, debounce)
    MaxLag,      \* bound: oldest timestamp told apart
    MaxSpent,    \* bound: re-arms, restarts and postponements of one row
    Timely,      \* TRUE: a claimed job is finished or renewed within its lease
    NoKey,       \* dedupe_key is None
    None         \* a NULL column or a None variable

ASSUME QueueAssumption ==
    /\ IsFiniteSet(Tokens) /\ IsFiniteSet(Jobs) /\ IsFiniteSet(Workers)
    /\ Cardinality(Tokens) > Cardinality(Jobs) + 2 * Cardinality(Workers)
    /\ Requests # {}
    /\ \A r \in Requests : r.work \in Works
    /\ MaxAttempts \in [Works -> Nat \ {0}]
    /\ Lease \in Nat \ {0} /\ BackoffCap \in Nat \ {0} /\ Delay \in Nat
    /\ MaxLag \in Nat /\ MaxSpent \in Nat
    /\ Timely \in BOOLEAN
    /\ None \notin Jobs \cup Workers \cup Tokens
    /\ None \notin {r.ws : r \in Requests}

VARIABLES
    req,      \* what each row of durable_jobs asks for
    status,   \* its status; "absent" before it is inserted
    lease,    \* its lease_owner, lease_token and lease_expires_at
    avail,    \* its available_at
    attempts, \* its attempt_count
    spent,    \* how much of MaxSpent it has used
    pc,       \* where each worker is in run_one_durable_job
    held,     \* the worker's claim and its copy of the row
    age,      \* time since the worker's lease (or its `now`) began
    served,   \* workspace a worker claimed for last; the code forgets it
    producer  \* local state of each caller of enqueue

rows    == <<req, status, lease, avail, attempts, spent>>
workers == <<pc, held, age, served>>
vars    == <<rows, workers, producer>>

Workspaces == {r.ws : r \in Requests}

Statuses == {"absent", "queued", "leased", "completed", "failed", "cancelled"}
Settled  == {"completed", "failed", "cancelled"}

LeaseColumns == [owner : Workers \cup {None}, token : Tokens \cup {None},
                 expires : Int]
NoLease == [owner |-> None, token |-> None, expires |-> 0]

\* The job a worker selected, the token it minted, and the lease_token and
\* attempt_count of the row as it read them back.
Claims == [job : Jobs \cup {None}, token : Tokens \cup {None},
           copyToken : Tokens \cup {None}, copyAttempts : Nat]
NoClaim == [job |-> None, token |-> None, copyToken |-> None,
            copyAttempts |-> 0]

PCs == {"idle", "selected", "claimed", "running", "dead"}

\* Inside enqueue or not, the request, and the row the caller was given.
ProducerState == [pc : {"idle", "insert", "done", "refused"},
                  req : Requests, got : Jobs \cup {None}]

TypeOK ==
    /\ req \in [Jobs -> Requests]
    /\ status \in [Jobs -> Statuses]
    /\ lease \in [Jobs -> LeaseColumns]
    /\ avail \in [Jobs -> Int]
    /\ attempts \in [Jobs -> Nat]
    /\ spent \in [Jobs -> Nat]
    /\ pc \in [Workers -> PCs]
    /\ held \in [Workers -> Claims]
    /\ age \in [Workers -> Nat]
    /\ served \in [Workers -> Workspaces \cup {None}]
    /\ producer \in [Producers -> ProducerState]

AnyRequest == CHOOSE r \in Requests : TRUE

Init ==
    /\ req = [j \in Jobs |-> AnyRequest]
    /\ status = [j \in Jobs |-> "absent"]
    /\ lease = [j \in Jobs |-> NoLease]
    /\ avail = [j \in Jobs |-> 0]
    /\ attempts = [j \in Jobs |-> 0]
    /\ spent = [j \in Jobs |-> 0]
    /\ pc = [w \in Workers |-> "idle"]
    /\ held = [w \in Workers |-> NoClaim]
    /\ age = [w \in Workers |-> 0]
    /\ served = [w \in Workers |-> None]
    /\ producer = [p \in Producers |->
                     [pc |-> "idle", req |-> AnyRequest, got |-> None]]

-----------------------------------------------------------------------------
(* Enqueue. *)

\* The row, if any, that the unique index (workspace_id, dedupe_key) holds for
\* a request.  NULL keys never collide.
SameKey(r) ==
    {j \in Jobs : /\ status[j] # "absent"
                  /\ r.key # NoKey
                  /\ req[j].ws = r.ws /\ req[j].key = r.key}

\* Mutant: the IntegrityError path returns the row without comparing the work.
ExistingUnchecked(p, r, j) ==
    producer' = [producer EXCEPT ![p] = [pc |-> "done", req |-> r, got |-> j]]

\* Give the caller the row that already has its key, or refuse it when that
\* row is other work.  The row's status is not looked at.
Existing(p, r, j) ==
    producer' = [producer EXCEPT ![p] =
        IF req[j].work = r.work
        THEN [pc |-> "done", req |-> r, got |-> j]
        ELSE [pc |-> "refused", req |-> r, got |-> None]]

\* enqueue looks the key up; it returns at once when the key is taken.
EnqueueCheck(p, r) ==
    /\ producer[p].pc # "insert"
    /\ \/ \E j \in SameKey(r) : Existing(p, r, j)
       \/ /\ SameKey(r) = {}
          /\ \E j \in Jobs : status[j] = "absent"
          /\ producer' = [producer EXCEPT ![p] =
                            [pc |-> "insert", req |-> r, got |-> None]]
    /\ UNCHANGED <<rows, workers>>

\* enqueue inserts; on IntegrityError it rolls back and looks again.
EnqueueInsert(p) ==
    LET r == producer[p].req IN
    /\ producer[p].pc = "insert"
    /\ \/ /\ \E j \in SameKey(r) : Existing(p, r, j)
          /\ UNCHANGED <<req, status>>
       \/ /\ SameKey(r) = {}
          /\ \E j \in Jobs :
                /\ status[j] = "absent"
                /\ req' = [req EXCEPT ![j] = r]
                /\ status' = [status EXCEPT ![j] = "queued"]
                /\ producer' = [producer EXCEPT ![p] =
                     [pc |-> "done", req |-> r, got |-> j]]
    /\ UNCHANGED <<lease, avail, attempts, spent, workers>>

-----------------------------------------------------------------------------
(* Claim. *)

\* Mutant: an expired lease is never claimed again.
EligibleQueuedOnly(j, lag) == status[j] = "queued" /\ avail[j] <= -lag

\* Mutant: a lease is taken for expired one unit early.
EligibleEarly(j, lag) ==
    \/ status[j] = "queued" /\ avail[j] <= -lag
    \/ status[j] = "leased" /\ lease[j].expires <= 1 - lag

\* The `eligible` condition of claim_next for a `now` that is `lag` old.
Eligible(j, lag) ==
    \/ status[j] = "queued" /\ avail[j] <= -lag
    \/ status[j] = "leased" /\ lease[j].expires <= -lag

\* ORDER BY of claim_next: other workspaces than the one claimed last, then
\* available_at.  created_at separates rows with equal available_at; the model
\* leaves that choice open.
ClaimedBefore(last, i, j) ==
    IF last # None /\ (req[i].ws = last) # (req[j].ws = last)
    THEN req[i].ws # last
    ELSE avail[i] < avail[j]

\* run_one_durable_job makes a new DurableQueue for every job, so
\* _last_claimed_workspace is None whenever claim_next reads it.
LastClaimedWorkspace(w) == None

\* claim_next takes `now` and selects a candidate.
ClaimSelect(w) ==
    /\ pc[w] = "idle"
    /\ \E j \in Jobs :
          /\ Eligible(j, 0)
          /\ \A i \in Jobs :
                Eligible(i, 0) => ~ClaimedBefore(LastClaimedWorkspace(w), i, j)
          /\ held' = [held EXCEPT ![w] = [NoClaim EXCEPT !.job = j]]
    /\ pc' = [pc EXCEPT ![w] = "selected"]
    /\ UNCHANGED <<rows, age, served, producer>>

\* Tokens some row or some worker still holds.  uuid4 never repeats one.
TokensInUse == {lease[j].token : j \in Jobs}
               \cup {held[w].token : w \in Workers}
               \cup {held[w].copyToken : w \in Workers}

FreshToken == CHOOSE t \in Tokens : t \notin TokensInUse

\* The worker is done with its job and polls again.
Return(w) ==
    /\ pc' = [pc EXCEPT ![w] = "idle"]
    /\ held' = [held EXCEPT ![w] = NoClaim]
    /\ age' = [age EXCEPT ![w] = 0]

\* attempt_count has no bound in the code (a lease that expires is claimed
\* again whatever the count), but it is only compared with max_attempts: one
\* value above it stands for all of them.
Bumped(j) == IF attempts[j] <= MaxAttempts[req[j].work]
             THEN attempts[j] + 1 ELSE attempts[j]

\* The UPDATE repeats the eligibility test, with the same `now`; when it
\* touches no row the claim is given up.
ClaimUpdate(w) ==
    LET j == held[w].job IN
    /\ pc[w] = "selected"
    /\ \/ /\ Eligible(j, age[w])
          /\ status' = [status EXCEPT ![j] = "leased"]
          /\ lease' = [lease EXCEPT ![j] =
               [owner |-> w, token |-> FreshToken, expires |-> Lease - age[w]]]
          /\ attempts' = [attempts EXCEPT ![j] = Bumped(j)]
          /\ pc' = [pc EXCEPT ![w] = "claimed"]
          /\ held' = [held EXCEPT ![w] =
               [job |-> j, token |-> FreshToken,
                copyToken |-> None, copyAttempts |-> 0]]
          /\ served' = [served EXCEPT ![w] = req[j].ws]
          /\ UNCHANGED age
       \/ /\ ~Eligible(j, age[w])
          /\ Return(w)
          /\ UNCHANGED <<status, lease, attempts, served>>
    /\ UNCHANGED <<req, avail, spent, producer>>

\* After the commit the row is read again: the lease token and the attempts
\* the worker goes on with are the ones found now.
ClaimReload(w) ==
    LET j == held[w].job IN
    /\ pc[w] = "claimed"
    /\ pc' = [pc EXCEPT ![w] = "running"]
    /\ held' = [held EXCEPT ![w] =
         [job |-> j, token |-> held[w].token,
          copyToken |-> lease[j].token, copyAttempts |-> attempts[j]]]
    /\ UNCHANGED <<rows, age, served, producer>>

-----------------------------------------------------------------------------
(* Run and report. *)

\* Mutant: reports are fenced by the token only.
FencedByToken(w) ==
    LET j == held[w].job IN
    status[j] = "leased" /\ lease[j].token = held[w].copyToken

\* Mutant: reports do not look at the status of the row.
FencedAnyStatus(w) ==
    LET j == held[w].job IN
    lease[j].owner = w /\ lease[j].token = held[w].copyToken

\* WHERE clause shared by complete, fail and rearm.
Fenced(w) ==
    LET j == held[w].job IN
    /\ status[j] = "leased" /\ lease[j].owner = w
    /\ lease[j].token = held[w].copyToken

\* A handler that heartbeats extends the lease while it holds (lease_fence:
\* by token, before the lease expires).
Renew(w) ==
    LET j == held[w].job IN
    /\ pc[w] = "running"
    /\ req[j].work \in Renewing
    /\ status[j] = "leased" /\ lease[j].token = held[w].copyToken
    /\ lease[j].expires > 0
    /\ lease' = [lease EXCEPT ![j].expires = Lease]
    /\ age' = [age EXCEPT ![w] = 0]
    /\ UNCHANGED <<req, status, avail, attempts, spent, pc, held, served, producer>>

\* What every report has in common: it ends the job for the worker, and it
\* leaves the table alone when the fence keeps it out.
Report(w) ==
    /\ pc[w] = "running"
    /\ Return(w)
    /\ ~Fenced(w) => UNCHANGED <<status, lease, avail, attempts, spent>>
    /\ UNCHANGED <<req, served, producer>>

\* The timestamps of a settled row are never read again: they are dropped.
Complete(w) ==
    LET j == held[w].job IN
    /\ Report(w)
    /\ Fenced(w) =>
         /\ status' = [status EXCEPT ![j] = "completed"]
         /\ lease' = [lease EXCEPT ![j].expires = 0]
         /\ avail' = [avail EXCEPT ![j] = 0]
         /\ UNCHANGED <<attempts, spent>>

\* min(60, 2 ** (attempt_count - 1))
Backoff(a) == IF a <= 1 THEN 1
              ELSE IF 2 ^ (a - 1) < BackoffCap THEN 2 ^ (a - 1)
                   ELSE BackoffCap

\* Mutant: off by one.
FinalLate(a, work) == a > MaxAttempts[work]

\* `terminal` of fail.
Final(a, work) == a >= MaxAttempts[work]

\* The copy the worker holds decides whether the failure is final.
Fail(w) ==
    LET j == held[w].job
        final == Final(held[w].copyAttempts, req[j].work)
    IN
    /\ Report(w)
    /\ Fenced(w) =>
         /\ status' = [status EXCEPT ![j] = IF final THEN "failed" ELSE "queued"]
         /\ lease' = [lease EXCEPT ![j] = NoLease]
         /\ \E d \in 0..BackoffCap :
              /\ d = IF final THEN 0 ELSE Backoff(held[w].copyAttempts)
              /\ avail' = [avail EXCEPT ![j] = d]
         /\ UNCHANGED <<attempts, spent>>

Rearm(w) ==
    LET j == held[w].job IN
    /\ Report(w)
    /\ req[j].work \in Continuous
    /\ spent[j] < MaxSpent
    /\ Fenced(w) =>
         /\ status' = [status EXCEPT ![j] = "queued"]
         /\ lease' = [lease EXCEPT ![j] = NoLease]
         /\ \E d \in 0..Delay : avail' = [avail EXCEPT ![j] = d]
         /\ attempts' = [attempts EXCEPT ![j] = 0]
         /\ spent' = [spent EXCEPT ![j] = @ + 1]

\* The process dies, wherever it is; its claim stays in the table.  The last
\* live worker stands for the restarted one.
Crash(w) ==
    /\ pc[w] # "dead"
    /\ \E v \in Workers \ {w} : pc[v] # "dead"
    /\ pc' = [pc EXCEPT ![w] = "dead"]
    /\ held' = [held EXCEPT ![w] = NoClaim]
    /\ age' = [age EXCEPT ![w] = 0]
    /\ UNCHANGED <<rows, served, producer>>

-----------------------------------------------------------------------------
(* Other writers of the table. *)

\* cancel keeps owner and token and only takes live rows.
Cancel(j) ==
    /\ status[j] \in {"queued", "leased"}
    /\ status' = [status EXCEPT ![j] = "cancelled"]
    /\ lease' = [lease EXCEPT ![j].expires = 0]
    /\ avail' = [avail EXCEPT ![j] = 0]
    /\ UNCHANGED <<req, attempts, spent, workers, producer>>

\* A user cancels the learning build behind the row: the row is cancelled and
\* loses its token whatever its status, provided the build is still active
\* (so the row has not been cancelled by an earlier call).
CancelBuild(j) ==
    /\ req[j].work \in Restartable
    /\ status[j] \in {"queued", "leased", "failed", "completed"}
    /\ status' = [status EXCEPT ![j] = "cancelled"]
    /\ lease' = [lease EXCEPT ![j] =
                   [owner |-> @.owner, token |-> None, expires |-> 0]]
    /\ avail' = [avail EXCEPT ![j] = 0]
    /\ UNCHANGED <<req, attempts, spent, workers, producer>>

\* The row is made as good as new and ready at once.
Requeue(j, st) ==
    /\ status' = [status EXCEPT ![j] = st]
    /\ lease' = [lease EXCEPT ![j] = NoLease]
    /\ avail' = [avail EXCEPT ![j] = 0]
    /\ attempts' = [attempts EXCEPT ![j] = 0]
    /\ spent' = [spent EXCEPT ![j] = @ + 1]
    /\ UNCHANGED <<req, workers, producer>>

\* A user restarts a failed learning build.  The build is shown as failed when
\* it recorded a failure (its row is then completed, or about to be) or when
\* the row settled under an active build.
RetryBuild(j) ==
    /\ req[j].work \in Restartable
    /\ status[j] \in {"leased", "failed", "completed"}
    /\ spent[j] < MaxSpent
    /\ Requeue(j, "queued")

\* enqueue_memory_extraction moves the start of work still queued.
Debounce(j) ==
    /\ status[j] = "queued" /\ req[j].work \in Debounced
    /\ spent[j] < MaxSpent
    /\ \E d \in 0..Delay : avail' = [avail EXCEPT ![j] = d]
    /\ spent' = [spent EXCEPT ![j] = @ + 1]
    /\ UNCHANGED <<req, status, lease, attempts, workers, producer>>

-----------------------------------------------------------------------------
(* Time. *)

Sink(x) == IF x > -MaxLag THEN x - 1 ELSE x

\* Under Timely no lease runs out while its worker is alive and at work.
MeetsLease(w) ==
    pc[w] \in {"selected", "claimed", "running"} => age[w] + 1 < Lease

\* A lease older than Lease is over: how much older is not told apart.
Tick ==
    /\ \A w \in Workers : pc[w] = "selected" => age[w] < MaxLag
    /\ Timely => \A w \in Workers : MeetsLease(w)
    /\ lease' = [j \in Jobs |->
         IF status[j] = "leased" THEN [lease[j] EXCEPT !.expires = Sink(@)]
                                 ELSE lease[j]]
    /\ avail' = [j \in Jobs |->
         IF status[j] \in {"queued", "leased"} THEN Sink(avail[j]) ELSE avail[j]]
    /\ age' = [w \in Workers |->
         IF \/ pc[w] = "selected"
            \/ pc[w] \in {"claimed", "running"} /\ age[w] < Lease
         THEN age[w] + 1 ELSE age[w]]
    /\ UNCHANGED <<req, status, attempts, spent, pc, held, served, producer>>

-----------------------------------------------------------------------------
WorkerStep(w) ==
    \/ ClaimSelect(w) \/ ClaimUpdate(w) \/ ClaimReload(w)
    \/ Complete(w) \/ Fail(w) \/ Rearm(w)

Next ==
    \/ \E p \in Producers : \/ \E r \in Requests : EnqueueCheck(p, r)
                            \/ EnqueueInsert(p)
    \/ \E w \in Workers : WorkerStep(w) \/ Renew(w) \/ Crash(w)
    \/ \E j \in Jobs : Cancel(j) \/ CancelBuild(j) \/ RetryBuild(j) \/ Debounce(j)
    \/ Tick

Spec == Init /\ [][Next]_vars

\* A live worker keeps polling and its handlers return (durable_queue_worker);
\* time passes.
FairSpec == Spec /\ WF_vars(Tick) /\ \A w \in Workers : WF_vars(WorkerStep(w))

-----------------------------------------------------------------------------
(* Properties. *)

\* Worker w, between ClaimSelect and its report, wrote the latest claim of j.
HoldsLatestClaim(w, j) ==
    /\ held[w].job = j
    /\ status[j] = "leased" /\ lease[j].owner = w
    /\ lease[j].token = held[w].token

\* complete, fail and rearm (durable_queue.py:146-232) change a row only for
\* the worker whose own claim is the latest one: a worker that was overtaken
\* after its lease ran out, or whose job was cancelled or restarted, cannot
\* report, even when the row it read back after the claim (line 144) already
\* carried somebody else's token.
ReportsAreFenced ==
    [][\A w \in Workers, j \in Jobs :
         /\ pc[w] = "running" /\ pc'[w] = "idle"
         /\ <<status[j], lease[j], avail[j], attempts[j]>>'
            # <<status[j], lease[j], avail[j], attempts[j]>>
         => HoldsLatestClaim(w, j)]_vars

\* A cancelled job never comes back, and a completed or failed one only by a
\* user's restart of its build: no late claim, report or debounce revives it
\* (durable_queue.py:126-143, 146-197, 289-294).
SettledIsFinal ==
    [][\A j \in Jobs :
         status[j] \in Settled /\ status'[j] # status[j]
         => /\ status[j] # "cancelled"
            /\ req[j].work \in Restartable
            /\ status'[j] \in {"queued", "cancelled"}
            /\ UNCHANGED workers]_vars

\* The retry budget (durable_queue.py:160-184): a job given up as failed has
\* used all its attempts and a job waiting in the queue has some left, although
\* fail decides from the worker's old copy of the row.
RetryBudget ==
    \A j \in Jobs :
        LET max == MaxAttempts[req[j].work] IN
        /\ status[j] = "failed" => attempts[j] >= max
        /\ status[j] = "queued" => attempts[j] < max

\* Only a user takes a job from a worker that has it and is inside its lease, the
\* renewed one included: by cancelling it, or by restarting its build.  No other
\* worker can claim it before the lease is over, however old the `now` of either
\* claim (durable_queue.py:96-144, learning_packages.py:815-821).
HolderKeepsLease ==
    [][\A w \in Workers, j \in Jobs :
         /\ pc[w] \in {"claimed", "running"} /\ age[w] < Lease
         /\ HoldsLatestClaim(w, j)
         => \/ HoldsLatestClaim(w, j)'
            \/ pc'[w] # pc[w]
            \/ /\ UNCHANGED workers
               /\ \/ status'[j] = "cancelled"
                  \/ req[j].work \in Restartable /\ status'[j] = "queued"]_vars

\* Whatever the race between two enqueue calls (durable_queue.py:46-94), a
\* caller is given a row of its workspace with exactly its work, and there is
\* one row per dedupe key.
EnqueueGivesOwnWork ==
    \A p \in Producers :
        /\ producer[p].pc = "done" =>
              LET r == req[producer[p].got] IN
              /\ status[producer[p].got] # "absent"
              /\ r.ws = producer[p].req.ws /\ r.work = producer[p].req.work
        /\ Cardinality(SameKey(producer[p].req)) <= 1

\* Every job is settled in the end: a crashed worker's lease runs out and the
\* job is claimed again, a failed attempt is retried until the budget is used.
EveryJobSettles ==
    \A j \in Jobs : status[j] \in {"queued", "leased"}
                      ~> status[j] \in Settled

\* The refinement: what FencedWork calls an item is a row, a worker works from
\* the commit of its claim to its report, and it is current as long as the
\* row carries the token of that claim.
RowState == [j \in Jobs |->
    CASE status[j] = "absent" -> "none"
      [] status[j] = "queued" -> "open"
      [] status[j] = "leased" -> "held"
      [] OTHER -> "settled"]

WorkOf == [w \in Workers |->
    IF pc[w] \in {"claimed", "running"} THEN held[w].job ELSE None]

Current == {w \in Workers : /\ pc[w] \in {"claimed", "running"}
                            /\ HoldsLatestClaim(w, held[w].job)}

Fence == INSTANCE FencedWork
         WITH Items <- Jobs, state <- RowState, work <- WorkOf, current <- Current

\* The queue as a whole (durable_queue.py:96-232): whatever the races between
\* claims, reports, cancels and restarts, each job is with one worker at a time
\* and ends only as the worker that took it last, or a user, says.
ImplementsFencedWork == Fence!FencedSpec
=============================================================================

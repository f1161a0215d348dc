---------------------------- MODULE MemoryOutbox ----------------------------
(***************************************************************************)
(* The projection outbox of backend/app/services/memory_outbox.py: rows of *)
(* memory_projection_outbox, written with the event they stand for, and    *)
(* the workers that lease a row, run its handler and record the outcome.   *)
(*                                                                         *)
(* What a handler does is left open here: it ends, or it raises.           *)
(*                                                                         *)
(* Every transaction is one step.  lease_owner is fresh for each run_once  *)
(* and lease_generation for each claim, so the generation alone tells      *)
(* claims apart and the owner column is left out.  Timestamps are          *)
(* distances from the present; Tick moves them one unit into the past.     *)
(***************************************************************************)
EXTENDS Integers, FiniteSets

CONSTANTS
    Items,       \* rows the outbox may come to hold
    Workers,     \* processes that run memory_outbox_scheduler
    MaxAttempts, \* max_attempts
    Lease,       \* lease_seconds
    BackoffCap,  \* the 3600 s cap of the retry delay
    Limit,       \* the limit of run_once
    MaxFaults,   \* bound: crashes, missed renewals and operator retries
    None

ASSUME OutboxAssumption ==
    /\ IsFiniteSet(Items) /\ IsFiniteSet(Workers)
    /\ MaxAttempts \in Nat \ {0} /\ Lease \in Nat \ {0}
    /\ BackoffCap \in Nat \ {0} /\ Limit \in Nat \ {0}
    /\ MaxFaults \in Nat
    /\ None \notin Items

VARIABLES
    status,   \* status of each row; "absent" before its event is appended
    attempts, \* attempt_count
    avail,    \* available_at: time left until the row may be claimed
    left,     \* lease_until: time left; 0 when there is no lease
    gen,      \* lease_generation
    pc,       \* where each worker is in run_once
    batch,    \* the candidates it has not tried yet
    claim,    \* the row it works on and the generation it claimed
    faults    \* how much of MaxFaults has been used

rows    == <<status, attempts, avail, left, gen>>
workers == <<pc, batch, claim>>
outbox  == <<rows, workers, faults>>

Open     == {"queued", "leased", "failed"}
Statuses == {"absent", "succeeded", "dead_letter"} \cup Open
NoClaim  == [item |-> None, gen |-> 0]

TypeOK ==
    /\ status \in [Items -> Statuses]
    /\ attempts \in [Items -> Nat]
    /\ avail \in [Items -> 0..BackoffCap]
    /\ left \in [Items -> -1..Lease]
    /\ gen \in [Items -> Nat]
    /\ pc \in [Workers -> {"idle", "claiming", "running"}]
    /\ batch \in [Workers -> SUBSET Items]
    /\ claim \in [Workers -> [item : Items \cup {None}, gen : Nat]]
    /\ faults \in 0..MaxFaults
    /\ \A i \in Items : status[i] # "leased" => left[i] = 0
    /\ \A w \in Workers : pc[w] = "running" <=> claim[w].item # None

OutboxInit ==
    /\ status = [i \in Items |-> "absent"]
    /\ attempts = [i \in Items |-> 0]
    /\ avail = [i \in Items |-> 0]
    /\ left = [i \in Items |-> 0]
    /\ gen = [i \in Items |-> 0]
    /\ pc = [w \in Workers |-> "idle"]
    /\ batch = [w \in Workers |-> {}]
    /\ claim = [w \in Workers |-> NoClaim]
    /\ faults = 0

-----------------------------------------------------------------------------
(* The rows *)

\* MemoryEventStore.append adds the row in the transaction of its event.
Post(i) ==
    /\ status[i] = "absent"
    /\ status' = [status EXCEPT ![i] = "queued"]
    /\ UNCHANGED <<attempts, avail, left, gen>>

\* Mutant of Eligible: a claim does not look at the lease.
EligibleAnyLease(i) ==
    avail[i] <= 0 /\ status[i] \in Open

\* Mutant of Eligible: failed rows are not taken again.
EligibleUnlessFailed(i) ==
    /\ avail[i] <= 0
    /\ status[i] = "queued" \/ (status[i] = "leased" /\ left[i] < 0)

\* _claim_eligibility, and the same condition in run_once's query.
Eligible(i) ==
    /\ avail[i] <= 0
    /\ \/ status[i] \in {"queued", "failed"}
       \/ status[i] = "leased" /\ left[i] < 0

\* Rows the fast path of a request takes for done (memory.py).
Waiting == {i \in Items : status[i] \in {"queued", "failed"}}

\* That fast path sets them to succeeded, without a claim.
SettleElsewhere(S) ==
    /\ status' = [i \in Items |-> IF i \in S THEN "succeeded" ELSE status[i]]
    /\ UNCHANGED <<attempts, avail, left, gen>>

\* Mutant of Retriable: a lease may be taken away while it runs.
RetriableAnyLease(i) ==
    status[i] \in {"failed", "dead_letter", "succeeded", "leased"}

Retriable(i) ==
    \/ status[i] \in {"failed", "dead_letter", "succeeded"}
    \/ status[i] = "leased" /\ left[i] < 0

\* retry: an operator queues a row again; attempts and generation stay.
Retry(i) ==
    /\ faults < MaxFaults
    /\ faults' = faults + 1
    /\ Retriable(i)
    /\ status' = [status EXCEPT ![i] = "queued"]
    /\ avail' = [avail EXCEPT ![i] = 0]
    /\ left' = [left EXCEPT ![i] = 0]
    /\ UNCHANGED <<attempts, gen, workers>>

-----------------------------------------------------------------------------
(* A worker: run_once *)

\* The candidates, at most Limit of them.  They are tried in any order: the
\* query orders rows by available_at, which a retry or a failure may move.
Poll(w) ==
    LET ready == {i \in Items : Eligible(i)} IN
    /\ pc[w] = "idle"
    /\ \E B \in SUBSET ready :
         /\ B # {}
         /\ \/ Cardinality(B) = Limit
            \/ B = ready /\ Cardinality(B) < Limit
         /\ batch' = [batch EXCEPT ![w] = B]
    /\ pc' = [pc EXCEPT ![w] = "claiming"]
    /\ UNCHANGED <<rows, claim, faults>>

\* What is left of the worker's loop after its current candidate.
NextCandidate(w, B) ==
    pc' = [pc EXCEPT ![w] = IF B = {} THEN "idle" ELSE "claiming"]

\* _claim: the conditional UPDATE of one candidate at a fresh `now`.
Claim(w, i) ==
    /\ pc[w] = "claiming" /\ i \in batch[w]
    /\ Eligible(i)
    /\ status' = [status EXCEPT ![i] = "leased"]
    /\ left' = [left EXCEPT ![i] = Lease]
    /\ gen' = [gen EXCEPT ![i] = gen[i] + 1]
    /\ claim' = [claim EXCEPT ![w] = [item |-> i, gen |-> gen[i] + 1]]
    /\ batch' = [batch EXCEPT ![w] = @ \ {i}]
    /\ pc' = [pc EXCEPT ![w] = "running"]
    /\ UNCHANGED <<attempts, avail, faults>>

\* The candidate was taken or settled since the query.
Skip(w, i) ==
    /\ pc[w] = "claiming" /\ i \in batch[w]
    /\ ~Eligible(i)
    /\ batch' = [batch EXCEPT ![w] = @ \ {i}]
    /\ NextCandidate(w, batch[w] \ {i})
    /\ UNCHANGED <<rows, claim, faults>>

\* Mutant of Holds: the generation is not compared.
HoldsAnyGeneration(w) == status[claim[w].item] = "leased"

\* _claim_condition.  It does not test lease_until.
Holds(w) ==
    LET i == claim[w].item
    IN  status[i] = "leased" /\ gen[i] = claim[w].gen

\* One beat of _heartbeat.
Renew(w) ==
    LET i == claim[w].item IN
    /\ pc[w] = "running"
    /\ Holds(w) /\ left[i] > 0
    /\ left' = [left EXCEPT ![i] = Lease]
    /\ UNCHANGED <<status, attempts, avail, gen, workers, faults>>

\* The worker is done with its candidate, whatever came of it.
Finish(w) ==
    /\ pc[w] = "running"
    /\ claim' = [claim EXCEPT ![w] = NoClaim]
    /\ NextCandidate(w, batch[w])
    /\ UNCHANGED <<batch, faults>>

\* A row leaves its lease with an outcome.
Record(i, outcome) ==
    /\ status' = [status EXCEPT ![i] = outcome]
    /\ left' = [left EXCEPT ![i] = 0]
    /\ UNCHANGED gen

\* The handler returned and _mark_succeeded found the claim, or not
\* (ownership_lost).
MarkSucceeded(w) ==
    /\ Finish(w)
    /\ IF Holds(w)
       THEN Record(claim[w].item, "succeeded") /\ UNCHANGED <<attempts, avail>>
       ELSE UNCHANGED rows

\* min(3600, 2 ** min(attempts, 10))
Backoff(a) == IF a > 10 \/ 2^a > BackoffCap THEN BackoffCap ELSE 2^a

\* The handler raised: _mark_failed.  Its read and its fenced UPDATE are one
\* step: when the UPDATE matches, nothing has changed since the read.
MarkFailed(w, permanent) ==
    LET i == claim[w].item
        a == attempts[i] + 1
    IN  /\ Finish(w)
        /\ IF ~Holds(w)
           THEN UNCHANGED rows
           ELSE /\ attempts' = [attempts EXCEPT ![i] = a]
                /\ IF permanent \/ a >= MaxAttempts
                   THEN Record(i, "dead_letter") /\ UNCHANGED avail
                   ELSE /\ Record(i, "failed")
                        /\ avail' = [avail EXCEPT ![i] = Backoff(a)]

\* A process dies and is started again, or the database fails and run_once
\* raises: the lease stays in the table.
Crash(w) ==
    /\ faults < MaxFaults
    /\ faults' = faults + 1
    /\ pc' = [pc EXCEPT ![w] = "idle"]
    /\ batch' = [batch EXCEPT ![w] = {}]
    /\ claim' = [claim EXCEPT ![w] = NoClaim]
    /\ UNCHANGED rows

-----------------------------------------------------------------------------
(* Time *)

\* Workers whose lease runs out with the next tick: their heartbeat, three
\* beats in every lease, has failed all the while.
Missing == {w \in Workers : /\ pc[w] = "running" /\ Holds(w)
                            /\ left[claim[w].item] = 1}

Tick ==
    /\ \E i \in Items : avail[i] > 0 \/ (status[i] = "leased" /\ left[i] >= 0)
    /\ faults' = IF Missing = {} THEN faults ELSE faults + 1
    /\ faults' <= MaxFaults
    /\ avail' = [i \in Items |-> IF avail[i] > 0 THEN avail[i] - 1 ELSE 0]
    /\ left' = [i \in Items |-> IF status[i] = "leased" /\ left[i] >= 0
                                THEN left[i] - 1 ELSE left[i]]
    /\ UNCHANGED <<status, attempts, gen, workers>>

-----------------------------------------------------------------------------
WorkerStep(w) ==
    \/ Poll(w)
    \/ \E i \in Items : Claim(w, i) \/ Skip(w, i)
    \/ MarkSucceeded(w)
    \/ \E permanent \in BOOLEAN : MarkFailed(w, permanent)

OutboxNext ==
    \/ \E i \in Items : Post(i) /\ UNCHANGED <<workers, faults>>
    \/ \E S \in SUBSET Waiting : SettleElsewhere(S) /\ UNCHANGED <<workers, faults>>
    \/ \E i \in Items : Retry(i)
    \/ \E w \in Workers : WorkerStep(w) \/ Renew(w) \/ Crash(w)
    \/ Tick

OutboxSpec == OutboxInit /\ [][OutboxNext]_outbox

\* Time passes, and a scheduler goes on: the handler it calls returns or
\* raises.
OutboxFairSpec ==
    /\ OutboxSpec
    /\ WF_outbox(Tick)
    /\ \A w \in Workers : WF_outbox(WorkerStep(w))

-----------------------------------------------------------------------------
(* Properties *)

\* A leased row gets an outcome only from the worker that made its latest
\* claim, and only once: a worker whose lease was taken over reports
\* ownership_lost and changes nothing.
OutcomesAreFenced ==
    [][\A i \in Items :
         status[i] = "leased" /\ status'[i] \in {"succeeded", "failed", "dead_letter"}
           => \E w \in Workers : /\ claim[w] = [item |-> i, gen |-> gen[i]]
                                 /\ claim'[w] = NoClaim]_outbox

\* While its lease lasts, the worker with the latest claim has the row to
\* itself: polls, an operator's retry and the fast path of a request keep off.
LeaseIsRespected ==
    [][\A w \in Workers, i \in Items :
         (/\ claim[w] = [item |-> i, gen |-> gen[i]] /\ claim'[w] = claim[w]
          /\ status[i] = "leased" /\ left[i] >= 0)
           => status'[i] = "leased" /\ gen'[i] = gen[i]]_outbox

\* A handler may run twice at a time for one row, but only after a crash, a
\* heartbeat that failed for a whole lease, or an operator's retry.
HandledOnceUnlessFaulty ==
    faults = 0 =>
        \A v, w \in Workers :
            pc[v] = "running" /\ claim[v].item = claim[w].item => v = w

\* Every row ends up succeeded or dead-lettered, whatever its handler does and
\* although processes crash and leases run out.
EveryItemSettles ==
    \A i \in Items : status[i] \in Open ~> status[i] \in {"succeeded", "dead_letter"}

\* The refinement: an item is a row, and a worker is current as long as the
\* row is leased under the generation it claimed.
RowState == [i \in Items |->
    CASE status[i] = "absent" -> "none"
      [] status[i] \in {"queued", "failed"} -> "open"
      [] status[i] = "leased" -> "held"
      [] OTHER -> "settled"]

Current == {w \in Workers : pc[w] = "running" /\ Holds(w)}

Fence == INSTANCE FencedWork
         WITH state <- RowState, work <- [w \in Workers |-> claim[w].item],
              current <- Current

\* The outbox as a whole (memory_outbox.py): although leases are taken over,
\* operators retry rows and requests settle them on the side, a worker settles
\* or reopens a row only while the claim it works under is the latest.
ImplementsFencedWork == Fence!FencedSpec
=============================================================================

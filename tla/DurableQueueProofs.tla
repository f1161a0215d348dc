------------------------- MODULE DurableQueueProofs -------------------------
(***************************************************************************)
(* Proofs about DurableQueue, for any number of workers, producers, jobs   *)
(* and tokens and any lease, backoff and bounds: type correctness, the     *)
(* retry budget, the fencing of reports and the finality of settled jobs.  *)
(***************************************************************************)
EXTENDS DurableQueue, FiniteSetTheorems, TLAPS

(* The values a function takes on a finite set are at most as many. *)
LEMMA ImageBound ==
    ASSUME NEW S, IsFiniteSet(S), NEW f, DOMAIN f = S, f = [x \in S |-> f[x]]
    PROVE  /\ IsFiniteSet({f[x] : x \in S})
           /\ Cardinality({f[x] : x \in S}) \in Nat
           /\ Cardinality({f[x] : x \in S}) <= Cardinality(S)
<1> DEFINE T == {f[x] : x \in S}
<1>1. f \in Surjection(S, T)
    BY DEF Surjection
<1>2. IsFiniteSet(T) /\ Cardinality(T) <= Cardinality(S)
    BY <1>1, FS_Surjection
<1> QED
    BY <1>2, FS_CardinalityType

(* A new uuid4: there are more tokens than rows and workers can hold, so the
   claim's UPDATE (durable_queue.py:126) always finds an unused one. *)
LEMMA FreshTokenExists ==
    TypeOK => FreshToken \in Tokens /\ FreshToken \notin TokensInUse
<1> SUFFICES ASSUME TypeOK PROVE \E t \in Tokens : t \notin TokensInUse
    BY DEF FreshToken
<1> DEFINE f == [j \in Jobs |-> lease[j].token]
           g == [w \in Workers |-> held[w].token]
           h == [w \in Workers |-> held[w].copyToken]
           A == {f[j] : j \in Jobs}
           B == {g[w] : w \in Workers}
           C == {h[w] : w \in Workers}
<1>1. TokensInUse = (A \cup B) \cup C
    BY DEF TokensInUse
<1>2. /\ IsFiniteSet(Jobs) /\ IsFiniteSet(Workers) /\ IsFiniteSet(Tokens)
      /\ Cardinality(Tokens) > Cardinality(Jobs) + 2 * Cardinality(Workers)
    BY QueueAssumption
<1>3. /\ Cardinality(Jobs) \in Nat /\ Cardinality(Workers) \in Nat
      /\ Cardinality(Tokens) \in Nat
    BY <1>2, FS_CardinalityType
<1>4. IsFiniteSet(A) /\ Cardinality(A) \in Nat /\ Cardinality(A) <= Cardinality(Jobs)
    <2> HIDE DEF f
    <2> QED BY <1>2, ImageBound DEF f
<1>5. IsFiniteSet(B) /\ Cardinality(B) \in Nat /\ Cardinality(B) <= Cardinality(Workers)
    <2> HIDE DEF g
    <2> QED BY <1>2, ImageBound DEF g
<1>6. IsFiniteSet(C) /\ Cardinality(C) \in Nat /\ Cardinality(C) <= Cardinality(Workers)
    <2> HIDE DEF h
    <2> QED BY <1>2, ImageBound DEF h
<1> HIDE DEF A, B, C
<1>7. /\ IsFiniteSet(A \cup B)
      /\ Cardinality(A \cup B) \in Nat
      /\ Cardinality(A \cup B) <= Cardinality(A) + Cardinality(B)
    <2>1. /\ IsFiniteSet(A \cup B)
          /\ Cardinality(A \cup B)
                = Cardinality(A) + Cardinality(B) - Cardinality(A \cap B)
        BY <1>4, <1>5, FS_Union
    <2>2. Cardinality(A \cap B) \in Nat
        <3>1. IsFiniteSet(A \cap B)
            BY <1>4, FS_Subset
        <3> QED BY <3>1, FS_CardinalityType
    <2>3. Cardinality(A \cup B) \in Nat
        BY <2>1, FS_CardinalityType
    <2> QED BY <2>1, <2>2, <2>3, <1>4, <1>5
<1>8. /\ IsFiniteSet(TokensInUse)
      /\ Cardinality(TokensInUse) \in Nat
      /\ Cardinality(TokensInUse) <= Cardinality(A \cup B) + Cardinality(C)
    <2>1. /\ IsFiniteSet((A \cup B) \cup C)
          /\ Cardinality((A \cup B) \cup C)
                = Cardinality(A \cup B) + Cardinality(C)
                    - Cardinality((A \cup B) \cap C)
        BY <1>6, <1>7, FS_Union
    <2>2. Cardinality((A \cup B) \cap C) \in Nat
        <3>1. IsFiniteSet((A \cup B) \cap C)
            BY <1>7, FS_Subset
        <3> QED BY <3>1, FS_CardinalityType
    <2>3. Cardinality((A \cup B) \cup C) \in Nat
        BY <2>1, FS_CardinalityType
    <2> QED BY <2>1, <2>2, <2>3, <1>1, <1>6, <1>7
<1>9. Cardinality(TokensInUse) < Cardinality(Tokens)
    BY <1>2, <1>3, <1>4, <1>5, <1>6, <1>7, <1>8
<1> QED
    <2> SUFFICES ASSUME Tokens \subseteq TokensInUse PROVE FALSE
        OBVIOUS
    <2>1. Cardinality(Tokens) <= Cardinality(TokensInUse)
        BY <1>8, FS_Subset
    <2> QED BY <2>1, <1>9, <1>3, <1>8

-----------------------------------------------------------------------------
(* A worker that selected a job has one. *)
ActiveHasJob ==
    \A w \in Workers :
        pc[w] \in {"selected", "claimed", "running"} => held[w].job \in Jobs

TypeInv == TypeOK /\ ActiveHasJob

LEMMA InitType == Init => TypeInv
<1> AnyRequest \in Requests
    BY QueueAssumption DEF AnyRequest
<1> QED
    BY DEF Init, TypeInv, TypeOK, ActiveHasJob, LeaseColumns, NoLease, Claims,
           NoClaim, PCs, ProducerState, Statuses

(* Setting lease_expires_at of one row keeps the lease columns' types. *)
LEMMA SetExpiry ==
    ASSUME lease \in [Jobs -> LeaseColumns], NEW j \in Jobs, NEW e \in Int
    PROVE  [lease EXCEPT ![j].expires = e] \in [Jobs -> LeaseColumns]
<1>1. [lease[j] EXCEPT !.expires = e] \in LeaseColumns
    BY DEF LeaseColumns
<1> QED BY <1>1

LEMMA ClearExpiry ==
    ASSUME lease \in [Jobs -> LeaseColumns], NEW j \in Jobs
    PROVE  [lease EXCEPT ![j].expires = 0] \in [Jobs -> LeaseColumns]
<1>1. [lease[j] EXCEPT !.expires = 0] \in LeaseColumns
    BY DEF LeaseColumns
<1> QED BY <1>1

(* The local state of a worker after Return. *)
LEMMA ReturnType ==
    ASSUME TypeInv, NEW w \in Workers, Return(w)
    PROVE  /\ pc' \in [Workers -> PCs]
           /\ held' \in [Workers -> Claims]
           /\ age' \in [Workers -> Nat]
           /\ ActiveHasJob'
BY DEF TypeInv, TypeOK, ActiveHasJob, Return, Claims, NoClaim, PCs

LEMMA StepType == TypeInv /\ [Next]_vars => TypeInv'
<1> SUFFICES ASSUME TypeInv, [Next]_vars PROVE TypeInv'
    OBVIOUS
<1> USE DEF TypeInv, rows, workers
<1>1. ASSUME NEW p \in Producers, NEW r \in Requests, EnqueueCheck(p, r)
      PROVE  TypeInv'
    BY <1>1 DEF EnqueueCheck, Existing, SameKey, TypeOK, ActiveHasJob, ProducerState
<1>2. ASSUME NEW p \in Producers, EnqueueInsert(p)
      PROVE  TypeInv'
    <2>1. producer' \in [Producers -> ProducerState]
        BY <1>2 DEF EnqueueInsert, Existing, SameKey, TypeOK, ProducerState
    <2>2. req' \in [Jobs -> Requests] /\ status' \in [Jobs -> Statuses]
        BY <1>2 DEF EnqueueInsert, TypeOK, ProducerState, Statuses
    <2> QED BY <1>2, <2>1, <2>2 DEF EnqueueInsert, TypeOK, ActiveHasJob
<1>3. ASSUME NEW w \in Workers, ClaimSelect(w)
      PROVE  TypeInv'
    BY <1>3 DEF ClaimSelect, TypeOK, ActiveHasJob, Claims, NoClaim, PCs
<1>4. ASSUME NEW w \in Workers, ClaimUpdate(w)
      PROVE  TypeInv'
    <2> DEFINE j == held[w].job
    <2>1. FreshToken \in Tokens
        BY FreshTokenExists
    <2>2. j \in Jobs /\ Lease - age[w] \in Int
        BY <1>4, QueueAssumption DEF ClaimUpdate, ActiveHasJob, TypeOK
    <2>3. Bumped(j) \in Nat /\ req[j].ws \in Workspaces
        BY <2>2 DEF Bumped, TypeOK, Workspaces
    <2>4. CASE Eligible(j, age[w])
        <3>1. lease' \in [Jobs -> LeaseColumns]
            BY <1>4, <2>1, <2>2, <2>4 DEF ClaimUpdate, TypeOK, LeaseColumns
        <3>2. held' \in [Workers -> Claims]
            <4>1. [job |-> j, token |-> FreshToken, copyToken |-> None,
                   copyAttempts |-> 0] \in Claims
                BY <2>1, <2>2 DEF Claims
            <4> QED BY <1>4, <2>4, <4>1 DEF ClaimUpdate, TypeOK
        <3>3. ActiveHasJob'
            BY <1>4, <2>2, <2>4 DEF ClaimUpdate, TypeOK, ActiveHasJob
        <3> QED
            BY <1>4, <2>2, <2>3, <2>4, <3>1, <3>2, <3>3
               DEF ClaimUpdate, TypeOK, Statuses, PCs
    <2>5. CASE ~Eligible(j, age[w])
        BY <1>4, <2>5, ReturnType DEF ClaimUpdate, TypeOK
    <2> QED BY <2>4, <2>5
<1>5. ASSUME NEW w \in Workers, ClaimReload(w)
      PROVE  TypeInv'
    BY <1>5 DEF ClaimReload, TypeOK, ActiveHasJob, Claims, LeaseColumns, PCs
<1>6. ASSUME NEW w \in Workers, Complete(w)
      PROVE  TypeInv'
    <2>1. held[w].job \in Jobs
        BY <1>6 DEF Complete, Report, ActiveHasJob
    <2>2. lease' \in [Jobs -> LeaseColumns]
        <3>1. [lease EXCEPT ![held[w].job].expires = 0] \in [Jobs -> LeaseColumns]
            BY <2>1, ClearExpiry DEF TypeOK
        <3> QED BY <1>6, <3>1 DEF Complete, Report, TypeOK
    <2>3. /\ status' \in [Jobs -> Statuses] /\ avail' \in [Jobs -> Int]
          /\ attempts' = attempts /\ spent' = spent
        BY <1>6, <2>1 DEF Complete, Report, TypeOK, Statuses
    <2> QED BY <1>6, <2>2, <2>3, ReturnType DEF Complete, Report, TypeOK
<1>7. ASSUME NEW w \in Workers, Fail(w)
      PROVE  TypeInv'
    <2>1. held[w].job \in Jobs
        BY <1>7 DEF Fail, Report, ActiveHasJob
    <2>2. lease' \in [Jobs -> LeaseColumns]
        BY <1>7, <2>1 DEF Fail, Report, TypeOK, LeaseColumns, NoLease
    <2>3. /\ status' \in [Jobs -> Statuses] /\ attempts' = attempts
          /\ spent' = spent
        BY <1>7, <2>1 DEF Fail, Report, TypeOK, Statuses
    <2>4. avail' \in [Jobs -> Int]
        BY <1>7, <2>1, QueueAssumption DEF Fail, Report, TypeOK
    <2> QED BY <1>7, <2>2, <2>3, <2>4, ReturnType DEF Fail, Report, TypeOK
<1>8. ASSUME NEW w \in Workers, Rearm(w)
      PROVE  TypeInv'
    <2>1. held[w].job \in Jobs
        BY <1>8 DEF Rearm, Report, ActiveHasJob
    <2>2. lease' \in [Jobs -> LeaseColumns]
        BY <1>8, <2>1 DEF Rearm, Report, TypeOK, LeaseColumns, NoLease
    <2>3. /\ status' \in [Jobs -> Statuses] /\ attempts' \in [Jobs -> Nat]
          /\ spent' \in [Jobs -> Nat]
        BY <1>8, <2>1 DEF Rearm, Report, TypeOK, Statuses
    <2>4. avail' \in [Jobs -> Int]
        BY <1>8, <2>1, QueueAssumption DEF Rearm, Report, TypeOK
    <2> QED BY <1>8, <2>2, <2>3, <2>4, ReturnType DEF Rearm, Report, TypeOK
<1>9. ASSUME NEW w \in Workers, Renew(w)
      PROVE  TypeInv'
    <2>1. held[w].job \in Jobs /\ Lease \in Int
        BY <1>9, QueueAssumption DEF Renew, ActiveHasJob
    <2>2. lease' \in [Jobs -> LeaseColumns]
        BY <1>9, <2>1, SetExpiry DEF Renew, TypeOK
    <2> QED BY <1>9, <2>2 DEF Renew, TypeOK, ActiveHasJob
<1>10. ASSUME NEW w \in Workers, Crash(w)
       PROVE  TypeInv'
    BY <1>10 DEF Crash, TypeOK, ActiveHasJob, Claims, NoClaim, PCs
<1>11. ASSUME NEW j \in Jobs,
              Cancel(j) \/ CancelBuild(j) \/ RetryBuild(j) \/ Debounce(j)
       PROVE  TypeInv'
    <2>1. CASE Cancel(j)
        <3>1. [lease EXCEPT ![j].expires = 0] \in [Jobs -> LeaseColumns]
            BY ClearExpiry DEF TypeOK
        <3> QED BY <2>1, <3>1 DEF Cancel, TypeOK, ActiveHasJob, Statuses
    <2>2. CASE CancelBuild(j)
        BY <2>2 DEF CancelBuild, TypeOK, ActiveHasJob, LeaseColumns, Statuses
    <2>3. CASE RetryBuild(j)
        BY <2>3 DEF RetryBuild, Requeue, TypeOK, ActiveHasJob, LeaseColumns,
                    NoLease, Statuses
    <2>4. CASE Debounce(j)
        BY <2>4, QueueAssumption DEF Debounce, TypeOK, ActiveHasJob
    <2> QED BY <1>11, <2>1, <2>2, <2>3, <2>4
<1>12. CASE Tick
    <2>1. \A x \in Int : Sink(x) \in Int
        BY QueueAssumption DEF Sink
    <2>2. lease' \in [Jobs -> LeaseColumns]
        BY <1>12, <2>1 DEF Tick, TypeOK, LeaseColumns
    <2>3. avail' \in [Jobs -> Int] /\ age' \in [Workers -> Nat]
        BY <1>12, <2>1 DEF Tick, TypeOK
    <2> QED BY <1>12, <2>2, <2>3 DEF Tick, TypeOK, ActiveHasJob
<1>13. CASE UNCHANGED vars
    BY <1>13 DEF vars, TypeOK, ActiveHasJob
<1> QED
    BY <1>1, <1>2, <1>3, <1>4, <1>5, <1>6, <1>7, <1>8, <1>9, <1>10, <1>11,
       <1>12, <1>13 DEF Next, WorkerStep

LEMMA TypeInvariant == Spec => []TypeInv
BY InitType, StepType, PTL DEF Spec

(* Every reachable state has the types of the table's columns and of the local
   variables of workers and producers; in particular no status outside the
   column's vocabulary is ever written (models.py:1181-1211). *)
THEOREM TypeCorrect == Spec => []TypeOK
<1>1. TypeInv => TypeOK
    BY DEF TypeInv
<1> QED BY <1>1, TypeInvariant, PTL

-----------------------------------------------------------------------------
(* The inductive invariant.  Active(w): the worker has a claim in the table
   or had one. *)
Active(w) == pc[w] \in {"claimed", "running"}

\* A worker never works on a row that does not exist.
ActivePresent ==
    \A w \in Workers :
        pc[w] \in {"selected", "claimed", "running"} => status[held[w].job] # "absent"

\* A row leased to an active worker carries the token that worker minted.
OwnLatest ==
    \A w \in Workers :
        /\ Active(w) /\ status[held[w].job] = "leased"
        /\ lease[held[w].job].owner = w
        => lease[held[w].job].token = held[w].token

\* The token an active worker minted is in its row only while the row is its
\* own.
TokenOwner ==
    \A w \in Workers :
        Active(w) =>
          /\ held[w].token \in Tokens
          /\ lease[held[w].job].token = held[w].token
             => lease[held[w].job].owner = w

\* While the row is leased to the worker, its copy of the attempts is current.
CopyCurrent ==
    \A w \in Workers :
        /\ pc[w] = "running" /\ status[held[w].job] = "leased"
        /\ lease[held[w].job].owner = w
        => held[w].copyAttempts = attempts[held[w].job]

AbsentBlank == \A j \in Jobs : status[j] = "absent" => attempts[j] = 0

\* A worker that has its job and is inside its lease has the rest of it left.
HolderInv ==
    \A w \in Workers :
        /\ Active(w) /\ age[w] < Lease
        /\ HoldsLatestClaim(w, held[w].job)
        => lease[held[w].job].expires >= Lease - age[w]

QueueInv ==
    /\ TypeInv /\ ActivePresent /\ OwnLatest /\ TokenOwner /\ CopyCurrent
    /\ AbsentBlank /\ RetryBudget /\ HolderInv

LEMMA InitInv == Init => QueueInv
<1> SUFFICES ASSUME Init PROVE QueueInv
    OBVIOUS
<1>1. TypeInv
    BY InitType
<1>2. ActivePresent /\ OwnLatest /\ TokenOwner /\ CopyCurrent /\ HolderInv
    BY DEF Init, ActivePresent, OwnLatest, TokenOwner, CopyCurrent, HolderInv, Active
<1>3. AbsentBlank /\ RetryBudget
    BY DEF Init, AbsentBlank, RetryBudget
<1> QED BY <1>1, <1>2, <1>3 DEF QueueInv

(* What a report does to the worker and to the rows: it is kept out by the
   fence, or it takes one row out of "leased". *)
ReportChange(v) ==
    /\ pc'[v] = "idle"
    /\ \A w \in Workers \ {v} :
         pc'[w] = pc[w] /\ held'[w] = held[w] /\ age'[w] = age[w]
    /\ req' = req
    /\ \A j \in Jobs :
         \/ /\ status'[j] = status[j] /\ attempts'[j] = attempts[j]
            /\ lease'[j] = lease[j]
         \/ /\ j = held[v].job /\ status[j] = "leased" /\ lease[j].owner = v
            /\ status'[j] \in {"completed", "failed", "queued"}
            /\ \/ lease'[j].token = None
               \/ lease'[j].token = lease[j].token /\ lease'[j].owner = v

LEMMA ReportEffect ==
    ASSUME TypeInv, NEW v \in Workers, Complete(v) \/ Fail(v) \/ Rearm(v)
    PROVE  ReportChange(v)
<1> USE DEF TypeInv, TypeOK, ActiveHasJob, LeaseColumns, NoLease, Report,
            Return, Fenced, ReportChange
<1>1. CASE Complete(v)
    BY <1>1 DEF Complete
<1>2. CASE Fail(v)
    BY <1>2 DEF Fail
<1>3. CASE Rearm(v)
    BY <1>3 DEF Rearm
<1> QED BY <1>1, <1>2, <1>3

LEMMA StepActivePresent == QueueInv /\ [Next]_vars => ActivePresent'
<1> SUFFICES ASSUME QueueInv, [Next]_vars PROVE ActivePresent'
    OBVIOUS
<1>0. ASSUME NEW v \in Workers, Complete(v) \/ Fail(v) \/ Rearm(v)
      PROVE  ReportChange(v)
    BY <1>0, ReportEffect DEF QueueInv
<1> USE DEF QueueInv, TypeInv, TypeOK, LeaseColumns, rows, workers
<1>1. CASE UNCHANGED <<req, status, lease, attempts, pc, held, age>>
    BY <1>1 DEF ActivePresent, ActiveHasJob
<1>2. ASSUME NEW p \in Producers, EnqueueInsert(p)
      PROVE  ActivePresent'
    BY <1>2
       DEF EnqueueInsert, SameKey, ActivePresent, ActiveHasJob
<1>3. ASSUME NEW v \in Workers, ClaimSelect(v)
      PROVE  ActivePresent'
    BY <1>3
       DEF ClaimSelect, NoClaim, Eligible, ActivePresent, ActiveHasJob
<1>4. ASSUME NEW v \in Workers, ClaimUpdate(v)
      PROVE  ActivePresent'
    BY <1>4, FreshTokenExists
       DEF ClaimUpdate, Return, NoClaim, Eligible, ActivePresent, ActiveHasJob
<1>5. ASSUME NEW v \in Workers, ClaimReload(v)
      PROVE  ActivePresent'
    BY <1>5
       DEF ClaimReload, ActivePresent, ActiveHasJob
<1>6. ASSUME NEW v \in Workers, Complete(v) \/ Fail(v) \/ Rearm(v)
      PROVE  ActivePresent'
    <2>1. ReportChange(v)
        BY <1>6, <1>0
    <2> QED
        BY <2>1 DEF ReportChange, ActivePresent, ActiveHasJob
<1>7. ASSUME NEW v \in Workers, Renew(v)
      PROVE  ActivePresent'
    BY <1>7
       DEF Renew, ActivePresent, ActiveHasJob
<1>8. ASSUME NEW v \in Workers, Crash(v)
      PROVE  ActivePresent'
    BY <1>8
       DEF Crash, NoClaim, ActivePresent, ActiveHasJob
<1>9. ASSUME NEW j \in Jobs, Cancel(j)
      PROVE  ActivePresent'
    BY <1>9
       DEF Cancel, ActivePresent, ActiveHasJob
<1>10. ASSUME NEW j \in Jobs, CancelBuild(j)
      PROVE  ActivePresent'
    BY <1>10
       DEF CancelBuild, ActivePresent, ActiveHasJob
<1>11. ASSUME NEW j \in Jobs, RetryBuild(j)
      PROVE  ActivePresent'
    BY <1>11
       DEF RetryBuild, Requeue, NoLease, ActivePresent, ActiveHasJob
<1>12. ASSUME Tick
      PROVE  ActivePresent'
    BY <1>12
       DEF Tick, Sink, ActivePresent, ActiveHasJob
<1> QED
    BY <1>1, <1>2, <1>3, <1>4, <1>5, <1>6, <1>7, <1>8, <1>9, <1>10, <1>11, <1>12
       DEF Next, WorkerStep, EnqueueCheck, Debounce, vars

LEMMA StepOwnLatest == QueueInv /\ [Next]_vars => OwnLatest'
<1> SUFFICES ASSUME QueueInv, [Next]_vars PROVE OwnLatest'
    OBVIOUS
<1>0. ASSUME NEW v \in Workers, Complete(v) \/ Fail(v) \/ Rearm(v)
      PROVE  ReportChange(v)
    BY <1>0, ReportEffect DEF QueueInv
<1> USE DEF QueueInv, TypeInv, TypeOK, LeaseColumns, rows, workers
<1>1. CASE UNCHANGED <<req, status, lease, attempts, pc, held, age>>
    BY <1>1 DEF OwnLatest, Active, ActiveHasJob
<1>2. ASSUME NEW p \in Producers, EnqueueInsert(p)
      PROVE  OwnLatest'
    BY <1>2
       DEF EnqueueInsert, SameKey, OwnLatest, Active, ActiveHasJob
<1>3. ASSUME NEW v \in Workers, ClaimSelect(v)
      PROVE  OwnLatest'
    BY <1>3
       DEF ClaimSelect, NoClaim, Eligible, OwnLatest, Active, ActiveHasJob
<1>4. ASSUME NEW v \in Workers, ClaimUpdate(v)
      PROVE  OwnLatest'
    BY <1>4, FreshTokenExists
       DEF ClaimUpdate, Return, NoClaim, Eligible, OwnLatest, Active, ActiveHasJob
<1>5. ASSUME NEW v \in Workers, ClaimReload(v)
      PROVE  OwnLatest'
    BY <1>5
       DEF ClaimReload, OwnLatest, Active, ActiveHasJob
<1>6. ASSUME NEW v \in Workers, Complete(v) \/ Fail(v) \/ Rearm(v)
      PROVE  OwnLatest'
    <2>1. ReportChange(v)
        BY <1>6, <1>0
    <2> QED
        BY <2>1 DEF ReportChange, OwnLatest, Active, ActiveHasJob
<1>7. ASSUME NEW v \in Workers, Renew(v)
      PROVE  OwnLatest'
    BY <1>7
       DEF Renew, OwnLatest, Active, ActiveHasJob
<1>8. ASSUME NEW v \in Workers, Crash(v)
      PROVE  OwnLatest'
    BY <1>8
       DEF Crash, NoClaim, OwnLatest, Active, ActiveHasJob
<1>9. ASSUME NEW j \in Jobs, Cancel(j)
      PROVE  OwnLatest'
    BY <1>9
       DEF Cancel, OwnLatest, Active, ActiveHasJob
<1>10. ASSUME NEW j \in Jobs, CancelBuild(j)
      PROVE  OwnLatest'
    BY <1>10
       DEF CancelBuild, OwnLatest, Active, ActiveHasJob
<1>11. ASSUME NEW j \in Jobs, RetryBuild(j)
      PROVE  OwnLatest'
    BY <1>11
       DEF RetryBuild, Requeue, NoLease, OwnLatest, Active, ActiveHasJob
<1>12. ASSUME Tick
      PROVE  OwnLatest'
    BY <1>12
       DEF Tick, Sink, OwnLatest, Active, ActiveHasJob
<1> QED
    BY <1>1, <1>2, <1>3, <1>4, <1>5, <1>6, <1>7, <1>8, <1>9, <1>10, <1>11, <1>12
       DEF Next, WorkerStep, EnqueueCheck, Debounce, vars

LEMMA StepTokenOwner == QueueInv /\ [Next]_vars => TokenOwner'
<1> SUFFICES ASSUME QueueInv, [Next]_vars PROVE TokenOwner'
    OBVIOUS
<1>0. ASSUME NEW v \in Workers, Complete(v) \/ Fail(v) \/ Rearm(v)
      PROVE  ReportChange(v)
    BY <1>0, ReportEffect DEF QueueInv
<1> USE DEF QueueInv, TypeInv, TypeOK, LeaseColumns, rows, workers
<1>1. CASE UNCHANGED <<req, status, lease, attempts, pc, held, age>>
    BY <1>1 DEF TokenOwner, Active, ActiveHasJob
<1>2. ASSUME NEW p \in Producers, EnqueueInsert(p)
      PROVE  TokenOwner'
    BY <1>2, QueueAssumption
       DEF EnqueueInsert, SameKey, TokenOwner, Active, ActiveHasJob
<1>3. ASSUME NEW v \in Workers, ClaimSelect(v)
      PROVE  TokenOwner'
    BY <1>3, QueueAssumption
       DEF ClaimSelect, NoClaim, Eligible, TokenOwner, Active, ActiveHasJob
<1>4. ASSUME NEW v \in Workers, ClaimUpdate(v)
      PROVE  TokenOwner'
    <2>1. FreshToken \in Tokens /\ \A w \in Workers : held[w].token # FreshToken
        BY FreshTokenExists DEF TokensInUse
    <2>2. CASE Eligible(held[v].job, age[v])
        <3> SUFFICES ASSUME NEW w \in Workers, Active(w)'
                     PROVE  /\ held'[w].token \in Tokens
                            /\ lease'[held'[w].job].token = held'[w].token
                               => lease'[held'[w].job].owner = w
            BY DEF TokenOwner
        <3>1. CASE w = v
            <4>1. lease'[held'[v].job].owner = v /\ held'[v].token = FreshToken
                BY <1>4, <2>2 DEF ClaimUpdate, ActiveHasJob
            <4> QED BY <2>1, <3>1, <4>1
        <3>2. CASE w # v
            <4>1. Active(w) /\ held'[w] = held[w]
                BY <1>4, <2>2, <3>2 DEF ClaimUpdate, Active
            <4>2. /\ held[w].token \in Tokens /\ held[w].token # FreshToken
                  /\ lease[held[w].job].token = held[w].token
                     => lease[held[w].job].owner = w
                BY <2>1, <4>1 DEF TokenOwner
            <4>3. \/ lease'[held[w].job] = lease[held[w].job]
                  \/ lease'[held[w].job].token = FreshToken
                BY <1>4, <2>2, <4>1 DEF ClaimUpdate, ActiveHasJob, Active
            <4> QED BY <4>1, <4>2, <4>3
        <3> QED BY <3>1, <3>2
    <2>3. CASE ~Eligible(held[v].job, age[v])
        BY <1>4, <2>3 DEF ClaimUpdate, Return, NoClaim, TokenOwner, Active
    <2> QED BY <2>2, <2>3
<1>5. ASSUME NEW v \in Workers, ClaimReload(v)
      PROVE  TokenOwner'
    BY <1>5, QueueAssumption
       DEF ClaimReload, TokenOwner, Active, ActiveHasJob
<1>6. ASSUME NEW v \in Workers, Complete(v) \/ Fail(v) \/ Rearm(v)
      PROVE  TokenOwner'
    <2>1. ReportChange(v)
        BY <1>6, <1>0
    <2>2. ASSUME NEW w \in Workers, Active(w)' PROVE
              /\ held'[w].token \in Tokens
              /\ lease'[held'[w].job].token = held'[w].token
                 => lease'[held'[w].job].owner = w
        <3>1. w # v /\ Active(w) /\ held'[w] = held[w]
            BY <2>1, <2>2 DEF ReportChange, Active
        <3>2. held[w].token \in Tokens /\ held[w].token # None
            BY <3>1, QueueAssumption DEF TokenOwner
        <3> QED
            BY <2>1, <3>1, <3>2 DEF ReportChange, TokenOwner, Active, ActiveHasJob
    <2> QED BY <2>2 DEF TokenOwner
<1>7. ASSUME NEW v \in Workers, Renew(v)
      PROVE  TokenOwner'
    BY <1>7, QueueAssumption
       DEF Renew, TokenOwner, Active, ActiveHasJob
<1>8. ASSUME NEW v \in Workers, Crash(v)
      PROVE  TokenOwner'
    BY <1>8, QueueAssumption
       DEF Crash, NoClaim, TokenOwner, Active, ActiveHasJob
<1>9. ASSUME NEW j \in Jobs, Cancel(j)
      PROVE  TokenOwner'
    BY <1>9, QueueAssumption
       DEF Cancel, TokenOwner, Active, ActiveHasJob
<1>10. ASSUME NEW j \in Jobs, CancelBuild(j)
      PROVE  TokenOwner'
    BY <1>10, QueueAssumption
       DEF CancelBuild, TokenOwner, Active, ActiveHasJob
<1>11. ASSUME NEW j \in Jobs, RetryBuild(j)
      PROVE  TokenOwner'
    BY <1>11, QueueAssumption
       DEF RetryBuild, Requeue, NoLease, TokenOwner, Active, ActiveHasJob
<1>12. ASSUME Tick
      PROVE  TokenOwner'
    BY <1>12, QueueAssumption
       DEF Tick, Sink, TokenOwner, Active, ActiveHasJob
<1> QED
    BY <1>1, <1>2, <1>3, <1>4, <1>5, <1>6, <1>7, <1>8, <1>9, <1>10, <1>11, <1>12
       DEF Next, WorkerStep, EnqueueCheck, Debounce, vars

LEMMA StepCopyCurrent == QueueInv /\ [Next]_vars => CopyCurrent'
<1> SUFFICES ASSUME QueueInv, [Next]_vars PROVE CopyCurrent'
    OBVIOUS
<1>0. ASSUME NEW v \in Workers, Complete(v) \/ Fail(v) \/ Rearm(v)
      PROVE  ReportChange(v)
    BY <1>0, ReportEffect DEF QueueInv
<1> USE DEF QueueInv, TypeInv, TypeOK, LeaseColumns, rows, workers
<1>1. CASE UNCHANGED <<req, status, lease, attempts, pc, held, age>>
    BY <1>1 DEF CopyCurrent, Active, ActiveHasJob
<1>2. ASSUME NEW p \in Producers, EnqueueInsert(p)
      PROVE  CopyCurrent'
    BY <1>2
       DEF EnqueueInsert, SameKey, CopyCurrent, Active, ActiveHasJob
<1>3. ASSUME NEW v \in Workers, ClaimSelect(v)
      PROVE  CopyCurrent'
    BY <1>3
       DEF ClaimSelect, NoClaim, Eligible, CopyCurrent, Active, ActiveHasJob
<1>4. ASSUME NEW v \in Workers, ClaimUpdate(v)
      PROVE  CopyCurrent'
    <2>1. CASE Eligible(held[v].job, age[v])
        BY <1>4, <2>1
           DEF ClaimUpdate, Return, NoClaim, CopyCurrent, Active,
               ActiveHasJob
    <2>2. CASE ~Eligible(held[v].job, age[v])
        BY <1>4, <2>2
           DEF ClaimUpdate, Return, NoClaim, CopyCurrent, Active,
               ActiveHasJob
    <2> QED BY <2>1, <2>2
<1>5. ASSUME NEW v \in Workers, ClaimReload(v)
      PROVE  CopyCurrent'
    BY <1>5
       DEF ClaimReload, CopyCurrent, Active, ActiveHasJob
<1>6. ASSUME NEW v \in Workers, Complete(v) \/ Fail(v) \/ Rearm(v)
      PROVE  CopyCurrent'
    <2>1. ReportChange(v)
        BY <1>6, <1>0
    <2> QED
        BY <2>1 DEF ReportChange, CopyCurrent, ActiveHasJob
<1>7. ASSUME NEW v \in Workers, Renew(v)
      PROVE  CopyCurrent'
    BY <1>7
       DEF Renew, CopyCurrent, Active, ActiveHasJob
<1>8. ASSUME NEW v \in Workers, Crash(v)
      PROVE  CopyCurrent'
    BY <1>8
       DEF Crash, NoClaim, CopyCurrent, Active, ActiveHasJob
<1>9. ASSUME NEW j \in Jobs, Cancel(j)
      PROVE  CopyCurrent'
    BY <1>9
       DEF Cancel, CopyCurrent, Active, ActiveHasJob
<1>10. ASSUME NEW j \in Jobs, CancelBuild(j)
      PROVE  CopyCurrent'
    BY <1>10
       DEF CancelBuild, CopyCurrent, Active, ActiveHasJob
<1>11. ASSUME NEW j \in Jobs, RetryBuild(j)
      PROVE  CopyCurrent'
    BY <1>11
       DEF RetryBuild, Requeue, NoLease, CopyCurrent, Active, ActiveHasJob
<1>12. ASSUME Tick
      PROVE  CopyCurrent'
    BY <1>12
       DEF Tick, Sink, CopyCurrent, Active, ActiveHasJob
<1> QED
    BY <1>1, <1>2, <1>3, <1>4, <1>5, <1>6, <1>7, <1>8, <1>9, <1>10, <1>11, <1>12
       DEF Next, WorkerStep, EnqueueCheck, Debounce, vars

LEMMA StepAbsentBlank == QueueInv /\ [Next]_vars => AbsentBlank'
<1> SUFFICES ASSUME QueueInv, [Next]_vars PROVE AbsentBlank'
    OBVIOUS
<1>0. ASSUME NEW v \in Workers, Complete(v) \/ Fail(v) \/ Rearm(v)
      PROVE  ReportChange(v)
    BY <1>0, ReportEffect DEF QueueInv
<1> USE DEF QueueInv, TypeInv, TypeOK, LeaseColumns, rows, workers
<1>1. CASE UNCHANGED <<req, status, lease, attempts, pc, held, age>>
    BY <1>1 DEF AbsentBlank, ActiveHasJob, ActivePresent
<1>2. ASSUME NEW p \in Producers, EnqueueInsert(p)
      PROVE  AbsentBlank'
    BY <1>2
       DEF EnqueueInsert, SameKey, AbsentBlank, ActiveHasJob, ActivePresent
<1>3. ASSUME NEW v \in Workers, ClaimSelect(v)
      PROVE  AbsentBlank'
    BY <1>3
       DEF ClaimSelect, NoClaim, Eligible, AbsentBlank, ActiveHasJob, ActivePresent
<1>4. ASSUME NEW v \in Workers, ClaimUpdate(v)
      PROVE  AbsentBlank'
    BY <1>4, FreshTokenExists
       DEF ClaimUpdate, Return, NoClaim, Eligible, AbsentBlank, ActiveHasJob, ActivePresent
<1>5. ASSUME NEW v \in Workers, ClaimReload(v)
      PROVE  AbsentBlank'
    BY <1>5
       DEF ClaimReload, AbsentBlank, ActiveHasJob, ActivePresent
<1>6. ASSUME NEW v \in Workers, Complete(v) \/ Fail(v) \/ Rearm(v)
      PROVE  AbsentBlank'
    <2>1. ReportChange(v)
        BY <1>6, <1>0
    <2>2. ASSUME NEW i \in Jobs, status'[i] = "absent" PROVE attempts'[i] = 0
        BY <2>1, <2>2 DEF ReportChange, AbsentBlank
    <2> QED BY <2>2 DEF AbsentBlank
<1>7. ASSUME NEW v \in Workers, Renew(v)
      PROVE  AbsentBlank'
    BY <1>7
       DEF Renew, AbsentBlank, ActiveHasJob, ActivePresent
<1>8. ASSUME NEW v \in Workers, Crash(v)
      PROVE  AbsentBlank'
    BY <1>8
       DEF Crash, NoClaim, AbsentBlank, ActiveHasJob, ActivePresent
<1>9. ASSUME NEW j \in Jobs, Cancel(j)
      PROVE  AbsentBlank'
    BY <1>9
       DEF Cancel, AbsentBlank, ActiveHasJob, ActivePresent
<1>10. ASSUME NEW j \in Jobs, CancelBuild(j)
      PROVE  AbsentBlank'
    BY <1>10
       DEF CancelBuild, AbsentBlank, ActiveHasJob, ActivePresent
<1>11. ASSUME NEW j \in Jobs, RetryBuild(j)
      PROVE  AbsentBlank'
    BY <1>11
       DEF RetryBuild, Requeue, NoLease, AbsentBlank, ActiveHasJob, ActivePresent
<1>12. ASSUME Tick
      PROVE  AbsentBlank'
    BY <1>12
       DEF Tick, Sink, AbsentBlank, ActiveHasJob, ActivePresent
<1> QED
    BY <1>1, <1>2, <1>3, <1>4, <1>5, <1>6, <1>7, <1>8, <1>9, <1>10, <1>11, <1>12
       DEF Next, WorkerStep, EnqueueCheck, Debounce, vars

LEMMA StepRetryBudget == QueueInv /\ [Next]_vars => RetryBudget'
<1> SUFFICES ASSUME QueueInv, [Next]_vars PROVE RetryBudget'
    OBVIOUS
<1> USE DEF QueueInv, TypeInv, TypeOK, LeaseColumns, rows, workers
<1>1. CASE UNCHANGED <<req, status, lease, attempts, pc, held, age>>
    BY <1>1 DEF RetryBudget, AbsentBlank, CopyCurrent, ActiveHasJob, Final, Bumped
<1>2. ASSUME NEW p \in Producers, EnqueueInsert(p)
      PROVE  RetryBudget'
    BY <1>2, QueueAssumption
       DEF EnqueueInsert, SameKey, ProducerState, RetryBudget, AbsentBlank, CopyCurrent, ActiveHasJob, Final, Bumped
<1>3. ASSUME NEW v \in Workers, ClaimSelect(v)
      PROVE  RetryBudget'
    BY <1>3, QueueAssumption
       DEF ClaimSelect, NoClaim, Eligible, RetryBudget, AbsentBlank, CopyCurrent, ActiveHasJob, Final, Bumped
<1>4. ASSUME NEW v \in Workers, ClaimUpdate(v)
      PROVE  RetryBudget'
    BY <1>4, QueueAssumption, FreshTokenExists
       DEF ClaimUpdate, Return, NoClaim, Eligible, RetryBudget, AbsentBlank, CopyCurrent, ActiveHasJob, Final, Bumped
<1>5. ASSUME NEW v \in Workers, ClaimReload(v)
      PROVE  RetryBudget'
    BY <1>5, QueueAssumption
       DEF ClaimReload, RetryBudget, AbsentBlank, CopyCurrent, ActiveHasJob, Final, Bumped
<1>6. ASSUME NEW v \in Workers, Complete(v)
      PROVE  RetryBudget'
    BY <1>6, QueueAssumption
       DEF Complete, Report, Return, Fenced, NoClaim, RetryBudget, AbsentBlank, CopyCurrent, ActiveHasJob, Final, Bumped
<1>7. ASSUME NEW v \in Workers, Fail(v)
      PROVE  RetryBudget'
    BY <1>7, QueueAssumption
       DEF Fail, Report, Return, Fenced, NoClaim, NoLease, RetryBudget, AbsentBlank, CopyCurrent, ActiveHasJob, Final, Bumped
<1>8. ASSUME NEW v \in Workers, Rearm(v)
      PROVE  RetryBudget'
    BY <1>8, QueueAssumption
       DEF Rearm, Report, Return, Fenced, NoClaim, NoLease, RetryBudget, AbsentBlank, CopyCurrent, ActiveHasJob, Final, Bumped
<1>9. ASSUME NEW v \in Workers, Renew(v)
      PROVE  RetryBudget'
    BY <1>9, QueueAssumption
       DEF Renew, RetryBudget, AbsentBlank, CopyCurrent, ActiveHasJob, Final, Bumped
<1>10. ASSUME NEW v \in Workers, Crash(v)
      PROVE  RetryBudget'
    BY <1>10, QueueAssumption
       DEF Crash, NoClaim, RetryBudget, AbsentBlank, CopyCurrent, ActiveHasJob, Final, Bumped
<1>11. ASSUME NEW j \in Jobs, Cancel(j)
      PROVE  RetryBudget'
    BY <1>11, QueueAssumption
       DEF Cancel, RetryBudget, AbsentBlank, CopyCurrent, ActiveHasJob, Final, Bumped
<1>12. ASSUME NEW j \in Jobs, CancelBuild(j)
      PROVE  RetryBudget'
    BY <1>12, QueueAssumption
       DEF CancelBuild, RetryBudget, AbsentBlank, CopyCurrent, ActiveHasJob, Final, Bumped
<1>13. ASSUME NEW j \in Jobs, RetryBuild(j)
      PROVE  RetryBudget'
    BY <1>13, QueueAssumption
       DEF RetryBuild, Requeue, NoLease, RetryBudget, AbsentBlank, CopyCurrent, ActiveHasJob, Final, Bumped
<1>14. ASSUME Tick
      PROVE  RetryBudget'
    BY <1>14, QueueAssumption
       DEF Tick, Sink, RetryBudget, AbsentBlank, CopyCurrent, ActiveHasJob, Final, Bumped
<1> QED
    BY <1>1, <1>2, <1>3, <1>4, <1>5, <1>6, <1>7, <1>8, <1>9, <1>10, <1>11, <1>12, <1>13, <1>14
       DEF Next, WorkerStep, EnqueueCheck, Debounce, vars

LEMMA StepHolderInv == QueueInv /\ [Next]_vars => HolderInv'
<1> SUFFICES ASSUME QueueInv, [Next]_vars PROVE HolderInv'
    OBVIOUS
<1>0. ASSUME NEW v \in Workers, Complete(v) \/ Fail(v) \/ Rearm(v)
      PROVE  ReportChange(v)
    BY <1>0, ReportEffect DEF QueueInv
<1> USE DEF QueueInv, TypeInv, TypeOK, LeaseColumns, rows, workers
<1>1. CASE UNCHANGED <<req, status, lease, attempts, pc, held, age>>
    BY <1>1 DEF HolderInv, HoldsLatestClaim, OwnLatest, TokenOwner, ActivePresent, Active, ActiveHasJob
<1>2. ASSUME NEW p \in Producers, EnqueueInsert(p)
      PROVE  HolderInv'
    BY <1>2, QueueAssumption
       DEF EnqueueInsert, SameKey, HolderInv, HoldsLatestClaim, OwnLatest, TokenOwner, ActivePresent, Active, ActiveHasJob
<1>3. ASSUME NEW v \in Workers, ClaimSelect(v)
      PROVE  HolderInv'
    BY <1>3, QueueAssumption
       DEF ClaimSelect, NoClaim, Eligible, HolderInv, HoldsLatestClaim, OwnLatest, TokenOwner, ActivePresent, Active, ActiveHasJob
<1>4. ASSUME NEW v \in Workers, ClaimUpdate(v)
      PROVE  HolderInv'
    <2> SUFFICES ASSUME NEW w \in Workers, Active(w)', age'[w] < Lease,
                        HoldsLatestClaim(w, held[w].job)'
                 PROVE  lease'[held'[w].job].expires >= Lease - age'[w]
        BY DEF HolderInv
    <2>1. CASE ~Eligible(held[v].job, age[v])
        <3>1. v # w
            BY <1>4, <2>1 DEF ClaimUpdate, Return, Active
        <3>2. UNCHANGED <<status, lease, pc[w], held[w], age[w]>>
            BY <1>4, <2>1, <3>1 DEF ClaimUpdate, Return
        <3> QED BY <3>2 DEF HolderInv, HoldsLatestClaim, Active
    <2>2. CASE Eligible(held[v].job, age[v])
        <3>1. /\ held[v].job \in Jobs /\ age' = age /\ Lease \in Nat /\ age[v] \in Nat
              /\ lease' = [lease EXCEPT ![held[v].job] =
                    [owner |-> v, token |-> FreshToken, expires |-> Lease - age[v]]]
              /\ status' = [status EXCEPT ![held[v].job] = "leased"]
            BY <1>4, <2>2, QueueAssumption DEF ClaimUpdate, ActiveHasJob
        <3>2. CASE v = w
            BY <1>4, <2>2, <3>1, <3>2 DEF ClaimUpdate
        <3>3. CASE v # w
            <4>1. UNCHANGED <<pc[w], held[w], age[w]>>
                BY <1>4, <2>2, <3>3 DEF ClaimUpdate
            <4>2. held[w].job # held[v].job
                BY <3>1, <3>3, <4>1 DEF HoldsLatestClaim
            <4> QED
                BY <3>1, <4>1, <4>2 DEF HolderInv, HoldsLatestClaim, Active
        <3> QED BY <3>2, <3>3
    <2> QED BY <2>1, <2>2
<1>5. ASSUME NEW v \in Workers, ClaimReload(v)
      PROVE  HolderInv'
    BY <1>5, QueueAssumption
       DEF ClaimReload, HolderInv, HoldsLatestClaim, OwnLatest, TokenOwner, ActivePresent, Active, ActiveHasJob
<1>6. ASSUME NEW v \in Workers, Complete(v) \/ Fail(v) \/ Rearm(v)
      PROVE  HolderInv'
    <2>1. ReportChange(v)
        BY <1>6, <1>0
    <2> QED
        BY <2>1 DEF ReportChange, HolderInv, HoldsLatestClaim, Active, ActiveHasJob
<1>7. ASSUME NEW v \in Workers, Renew(v)
      PROVE  HolderInv'
    BY <1>7, QueueAssumption
       DEF Renew, HolderInv, HoldsLatestClaim, OwnLatest, TokenOwner, ActivePresent, Active, ActiveHasJob
<1>8. ASSUME NEW v \in Workers, Crash(v)
      PROVE  HolderInv'
    BY <1>8, QueueAssumption
       DEF Crash, NoClaim, HolderInv, HoldsLatestClaim, OwnLatest, TokenOwner, ActivePresent, Active, ActiveHasJob
<1>9. ASSUME NEW j \in Jobs, Cancel(j)
      PROVE  HolderInv'
    BY <1>9, QueueAssumption
       DEF Cancel, HolderInv, HoldsLatestClaim, OwnLatest, TokenOwner, ActivePresent, Active, ActiveHasJob
<1>10. ASSUME NEW j \in Jobs, CancelBuild(j)
      PROVE  HolderInv'
    BY <1>10, QueueAssumption
       DEF CancelBuild, HolderInv, HoldsLatestClaim, OwnLatest, TokenOwner, ActivePresent, Active, ActiveHasJob
<1>11. ASSUME NEW j \in Jobs, RetryBuild(j)
      PROVE  HolderInv'
    BY <1>11, QueueAssumption
       DEF RetryBuild, Requeue, NoLease, HolderInv, HoldsLatestClaim, OwnLatest, TokenOwner, ActivePresent, Active, ActiveHasJob
<1>12. ASSUME Tick
      PROVE  HolderInv'
    BY <1>12, QueueAssumption
       DEF Tick, Sink, HolderInv, HoldsLatestClaim, OwnLatest, TokenOwner, ActivePresent, Active, ActiveHasJob
<1> QED
    BY <1>1, <1>2, <1>3, <1>4, <1>5, <1>6, <1>7, <1>8, <1>9, <1>10, <1>11, <1>12
       DEF Next, WorkerStep, EnqueueCheck, Debounce, vars

LEMMA Invariant == Spec => []QueueInv
<1>1. QueueInv /\ [Next]_vars => QueueInv'
    BY StepType, StepActivePresent, StepOwnLatest, StepTokenOwner,
       StepCopyCurrent, StepAbsentBlank, StepRetryBudget, StepHolderInv
       DEF QueueInv
<1> QED BY <1>1, InitInv, PTL DEF Spec

(* A failed job has used its attempts and a queued one has some left, for any
   max_attempts and any number of workers (DurableQueue.fail,
   durable_queue.py:160-184).  The worker decides from the copy it read after
   its claim; CopyCurrent is what makes that copy good enough. *)
THEOREM RetryBudgetHolds == Spec => []RetryBudget
<1>1. QueueInv => RetryBudget
    BY DEF QueueInv
<1> QED BY <1>1, Invariant, PTL

(* Whoever has a job and is inside its lease keeps it until it reports, dies or a
   user steps in (DurableQueue.claim_next, durable_queue.py:96-144, and
   lease_fence, learning_packages.py:815-821), whatever the lease, however often
   it is renewed and however late each of the claim's statements runs. *)
THEOREM LeaseIsExclusive == Spec => HolderKeepsLease
<1>1. ASSUME QueueInv, [Next]_vars, NEW w \in Workers, NEW j \in Jobs,
             Active(w), age[w] < Lease, HoldsLatestClaim(w, j), pc'[w] = pc[w]
      PROVE  \/ HoldsLatestClaim(w, j)'
             \/ /\ UNCHANGED workers
                /\ \/ status'[j] = "cancelled"
                   \/ req[j].work \in Restartable /\ status'[j] = "queued"
    <2> USE DEF QueueInv, TypeInv, TypeOK, LeaseColumns, rows, workers
    <2>1. /\ held[w].job = j /\ lease[j].expires >= Lease - age[w]
          /\ age[w] \in Nat /\ Lease \in Nat /\ lease[j].expires \in Int
        BY <1>1, QueueAssumption DEF HolderInv, HoldsLatestClaim
    <2>2. CASE UNCHANGED <<status, lease, held>>
        BY <1>1, <2>2 DEF HoldsLatestClaim
    <2>3. ASSUME NEW p \in Producers, EnqueueInsert(p) PROVE HoldsLatestClaim(w, j)'
        BY <1>1, <2>3 DEF EnqueueInsert, HoldsLatestClaim
    <2>4. ASSUME NEW v \in Workers,
                 \/ ClaimSelect(v) \/ ClaimReload(v) \/ Renew(v) \/ Crash(v)
          PROVE  HoldsLatestClaim(w, j)'
        <3>1. CASE ClaimSelect(v)
            BY <1>1, <3>1 DEF ClaimSelect, HoldsLatestClaim, Active
        <3>2. CASE ClaimReload(v)
            BY <1>1, <3>2 DEF ClaimReload, HoldsLatestClaim, Active
        <3>3. CASE Renew(v)
            <4>1. /\ lease'[j].owner = lease[j].owner
                  /\ lease'[j].token = lease[j].token
                BY <1>1, <3>3 DEF Renew, ActiveHasJob
            <4> QED BY <1>1, <3>3, <4>1 DEF Renew, HoldsLatestClaim
        <3>4. CASE Crash(v)
            <4>1. v # w
                BY <1>1, <3>4 DEF Crash, Active
            <4> QED BY <1>1, <3>4, <4>1 DEF Crash, HoldsLatestClaim
        <3> QED BY <2>4, <3>1, <3>2, <3>3, <3>4
    <2>5. ASSUME NEW v \in Workers, ClaimUpdate(v) PROVE HoldsLatestClaim(w, j)'
        <3>1. v # w
            BY <1>1, <2>5 DEF ClaimUpdate, Active
        <3>2. CASE held[v].job # j \/ ~Eligible(held[v].job, age[v])
            BY <1>1, <2>5, <3>1, <3>2
               DEF ClaimUpdate, Return, HoldsLatestClaim, ActiveHasJob
        <3>3. CASE held[v].job = j /\ Eligible(j, age[v])
            BY <1>1, <2>1, <3>3, QueueAssumption DEF Eligible, HoldsLatestClaim
        <3> QED BY <3>2, <3>3
    <2>6. ASSUME NEW v \in Workers, Complete(v) \/ Fail(v) \/ Rearm(v)
          PROVE  HoldsLatestClaim(w, j)'
        BY <1>1, <2>1, <2>6, ReportEffect DEF ReportChange, HoldsLatestClaim, Active
    <2>7. ASSUME NEW i \in Jobs, Cancel(i) \/ CancelBuild(i) \/ RetryBuild(i)
          PROVE  \/ HoldsLatestClaim(w, j)'
                 \/ /\ UNCHANGED workers
                    /\ \/ status'[j] = "cancelled"
                       \/ req[j].work \in Restartable /\ status'[j] = "queued"
        BY <1>1, <2>7
           DEF Cancel, CancelBuild, RetryBuild, Requeue, HoldsLatestClaim
    <2>8. ASSUME Tick PROVE HoldsLatestClaim(w, j)'
        BY <1>1, <2>8 DEF Tick, HoldsLatestClaim
    <2> QED
        BY <1>1, <2>2, <2>3, <2>4, <2>5, <2>6, <2>7, <2>8
           DEF Next, WorkerStep, EnqueueCheck, Debounce, vars
<1>2. QueueInv /\ [Next]_vars =>
        [\A w \in Workers, j \in Jobs :
           /\ pc[w] \in {"claimed", "running"} /\ age[w] < Lease
           /\ HoldsLatestClaim(w, j)
           => \/ HoldsLatestClaim(w, j)'
              \/ pc'[w] # pc[w]
              \/ /\ UNCHANGED workers
                 /\ \/ status'[j] = "cancelled"
                    \/ req[j].work \in Restartable /\ status'[j] = "queued"]_vars
    BY <1>1 DEF Active
<1> QED BY <1>2, Invariant, PTL DEF Spec, HolderKeepsLease

(* No report of a worker that lost its claim changes the table (complete,
   fail and rearm, durable_queue.py:146-232). *)
THEOREM FencingHolds == Spec => ReportsAreFenced
<1>1. ASSUME QueueInv, [Next]_vars, NEW w \in Workers, NEW j \in Jobs,
             pc[w] = "running", pc'[w] = "idle",
             <<status[j], lease[j], avail[j], attempts[j]>>'
                # <<status[j], lease[j], avail[j], attempts[j]>>
      PROVE  HoldsLatestClaim(w, j)
    <2> USE DEF QueueInv, TypeInv, TypeOK, rows, workers
    <2>1. Complete(w) \/ Fail(w) \/ Rearm(w)
        <3>1. pc' # pc
            BY <1>1
        <3>2. PICK v \in Workers : WorkerStep(v) \/ Crash(v)
            BY <1>1, <3>1
               DEF Next, Renew, EnqueueCheck, EnqueueInsert, Cancel, CancelBuild,
                   RetryBuild, Requeue, Debounce, Tick, vars
        <3>3. CASE v # w
            BY <1>1, <3>2, <3>3
               DEF WorkerStep, ClaimSelect, ClaimUpdate, ClaimReload, Complete,
                   Fail, Rearm, Report, Return, Crash
        <3>4. CASE v = w
            BY <1>1, <3>2, <3>4
               DEF WorkerStep, ClaimSelect, ClaimUpdate, ClaimReload, Crash, PCs
        <3> QED BY <3>3, <3>4
    <2>2. Fenced(w) /\ j = held[w].job
        BY <1>1, <2>1 DEF Complete, Fail, Rearm, Report, ActiveHasJob
    <2> QED
        BY <1>1, <2>2 DEF Fenced, HoldsLatestClaim, OwnLatest, Active
<1>2. QueueInv /\ [Next]_vars =>
        [\A w \in Workers, j \in Jobs :
           /\ pc[w] = "running" /\ pc'[w] = "idle"
           /\ <<status[j], lease[j], avail[j], attempts[j]>>'
                # <<status[j], lease[j], avail[j], attempts[j]>>
           => HoldsLatestClaim(w, j)]_vars
    BY <1>1
<1> QED BY <1>2, Invariant, PTL DEF Spec, ReportsAreFenced

(* Cancelled is final, and a completed or failed row is only revived by a
   user's restart (durable_queue.py:126-143, 146-197, 289-294). *)
THEOREM FinalityHolds == Spec => SettledIsFinal
<1>1. ASSUME QueueInv, [Next]_vars, NEW j \in Jobs,
             status[j] \in Settled, status'[j] # status[j]
      PROVE  /\ status[j] # "cancelled"
             /\ req[j].work \in Restartable
             /\ status'[j] \in {"queued", "cancelled"}
             /\ UNCHANGED workers
    <2> USE DEF QueueInv, TypeInv, TypeOK, rows, Settled
    <2>1. ASSUME NEW p \in Producers, EnqueueInsert(p) PROVE FALSE
        BY <1>1, <2>1 DEF EnqueueInsert
    <2>2. ASSUME NEW w \in Workers, WorkerStep(w) PROVE FALSE
        BY <1>1, <2>2
           DEF WorkerStep, ClaimSelect, ClaimUpdate, ClaimReload, Complete, Fail,
               Rearm, Report, Fenced, Eligible, ActiveHasJob
    <2>3. PICK i \in Jobs : Cancel(i) \/ CancelBuild(i) \/ RetryBuild(i)
        BY <1>1, <2>1, <2>2
           DEF Next, EnqueueCheck, Renew, Crash, Debounce, Tick, vars
    <2> QED
        BY <1>1, <2>3 DEF Cancel, CancelBuild, RetryBuild, Requeue
<1>2. QueueInv /\ [Next]_vars =>
        [\A j \in Jobs :
           status[j] \in Settled /\ status'[j] # status[j]
           => /\ status[j] # "cancelled"
              /\ req[j].work \in Restartable
              /\ status'[j] \in {"queued", "cancelled"}
              /\ UNCHANGED workers]_vars
    BY <1>1
<1> QED BY <1>2, Invariant, PTL DEF Spec, SettledIsFinal
-----------------------------------------------------------------------------
(* The refinement. *)

(* A step that leaves status, claims and the tokens of the rows alone is no
   step of FencedWork. *)
LEMMA SameTableStutters ==
    ASSUME TypeOK, status' = status, pc' = pc, held' = held,
           \A j \in Jobs : /\ lease'[j].owner = lease[j].owner
                           /\ lease'[j].token = lease[j].token,
           ActiveHasJob
    PROVE  UNCHANGED <<RowState, WorkOf, Current>>
<1>1. RowState' = RowState /\ WorkOf' = WorkOf
    BY DEF RowState, WorkOf
<1>2. Current' = Current
    BY DEF Current, HoldsLatestClaim, ActiveHasJob
<1> QED BY <1>1, <1>2

(* Setting rows aside or up again by somebody else than a worker. *)
LEMMA DecideStep ==
    ASSUME TypeOK, ActiveHasJob, NEW j \in Jobs, NEW st \in {"queued", "cancelled"},
           status[j] # "absent", status' = [status EXCEPT ![j] = st],
           \A i \in Jobs \ {j} : lease'[i] = lease[i],
           UNCHANGED workers
    PROVE  \E o \in {"open", "settled"} : Fence!Decide({j}, o)
<1> USE DEF TypeOK, workers, ActiveHasJob
<1> DEFINE o == IF st = "queued" THEN "open" ELSE "settled"
<1>1. RowState' = [i \in Jobs |-> IF i \in {j} THEN o ELSE RowState[i]]
    BY DEF RowState
<1>2. WorkOf' = WorkOf
    BY DEF WorkOf
<1>3. Current' = {v \in Current : WorkOf[v] \notin {j}}
    BY DEF Current, WorkOf, HoldsLatestClaim
<1>4. \A i \in {j} : RowState[i] # "none"
    BY DEF RowState, Statuses
<1> QED BY <1>1, <1>2, <1>3, <1>4 DEF Fence!Decide

(* A claim that finds its row eligible takes it; the token nobody has yet
   makes the previous holder of the row out of date. *)
LEMMA TakeStep ==
    ASSUME QueueInv, NEW w \in Workers, ClaimUpdate(w), pc'[w] = "claimed"
    PROVE  Fence!Take(w, held[w].job)
<1> USE DEF QueueInv, TypeInv, TypeOK, ActiveHasJob, PCs
<1> DEFINE j == held[w].job
<1>1. /\ j \in Jobs /\ pc[w] = "selected"
      /\ status[j] \in {"queued", "leased"}
      /\ status' = [status EXCEPT ![j] = "leased"]
      /\ pc' = [pc EXCEPT ![w] = "claimed"]
      /\ held' = [held EXCEPT ![w] =
           [job |-> j, token |-> FreshToken, copyToken |-> None, copyAttempts |-> 0]]
      /\ lease' = [lease EXCEPT ![j] =
           [owner |-> w, token |-> FreshToken, expires |-> Lease - age[w]]]
    BY DEF ClaimUpdate, Return, Eligible
<1>2. FreshToken \notin TokensInUse
    BY FreshTokenExists
<1> HIDE DEF j
<1>3. WorkOf[w] = None /\ WorkOf' = [WorkOf EXCEPT ![w] = j]
    BY <1>1 DEF WorkOf, j
<1>4. RowState[j] \in {"open", "held"} /\ RowState' = [RowState EXCEPT ![j] = "held"]
    BY <1>1 DEF RowState
<1>5. Current' = {v \in Current : WorkOf[v] # j} \cup {w}
    <2>1. w \in Current'
        BY <1>1 DEF Current, HoldsLatestClaim
    <2>2. ASSUME NEW v \in Workers \ {w}
          PROVE  v \in Current' <=> v \in Current /\ WorkOf[v] # j
        <3>1. held'[v] = held[v] /\ pc'[v] = pc[v]
            BY <1>1
        <3>2. CASE pc[v] \in {"claimed", "running"} /\ held[v].job = j
            <4>1. held[v].token # FreshToken
                BY <1>2 DEF TokensInUse
            <4>2. v \notin Current'
                BY <3>1, <4>1, <3>2, <1>1 DEF Current, HoldsLatestClaim
            <4> QED BY <4>2, <3>2 DEF WorkOf
        <3>3. CASE pc[v] \in {"claimed", "running"} /\ held[v].job # j
            <4>1. /\ held[v].job \in Jobs
                  /\ lease'[held[v].job] = lease[held[v].job]
                  /\ status'[held[v].job] = status[held[v].job]
                BY <1>1, <3>3
            <4> QED BY <4>1, <3>1, <3>3 DEF Current, HoldsLatestClaim, WorkOf
        <3>4. CASE pc[v] \notin {"claimed", "running"}
            BY <3>1, <3>4 DEF Current
        <3> QED BY <3>2, <3>3, <3>4
    <2>3. Current' \subseteq Workers /\ Current \subseteq Workers
        BY DEF Current
    <2> QED BY <2>1, <2>2, <2>3
<1> QED BY <1>3, <1>4, <1>5 DEF Fence!Take, j

(* A report inside the fence comes from a current worker. *)
LEMMA DeliverStep ==
    ASSUME QueueInv, NEW w \in Workers, Complete(w) \/ Fail(w) \/ Rearm(w), Fenced(w)
    PROVE  \E o \in {"open", "settled"} : Fence!Deliver(w, held[w].job, o)
<1> USE DEF QueueInv, TypeInv, TypeOK, ActiveHasJob, PCs
<1> DEFINE j == held[w].job
<1>1. PICK st \in {"completed", "failed", "queued"} :
        /\ status' = [status EXCEPT ![j] = st]
        /\ \A i \in Jobs \ {j} : lease'[i] = lease[i]
    BY DEF Complete, Fail, Rearm
<1>2. /\ j \in Jobs /\ pc[w] = "running"
      /\ pc' = [pc EXCEPT ![w] = "idle"]
      /\ held' = [held EXCEPT ![w] = NoClaim]
      /\ status[j] = "leased" /\ lease[j].owner = w
    BY DEF Complete, Fail, Rearm, Report, Return, Fenced
<1>3. w \in Current /\ WorkOf[w] = j
    BY <1>2 DEF Current, HoldsLatestClaim, WorkOf, OwnLatest, Active
<1> HIDE DEF j
<1>4. WorkOf' = [WorkOf EXCEPT ![w] = None]
    BY <1>2 DEF WorkOf
<1> DEFINE o == IF st = "queued" THEN "open" ELSE "settled"
<1>5. RowState' = [RowState EXCEPT ![j] = o]
    BY <1>1, <1>2 DEF RowState
<1>6. Current' = Current \ {w}
    <2>1. ASSUME NEW v \in Workers \ {w}
          PROVE  v \in Current' <=> v \in Current
        <3>1. held'[v] = held[v] /\ pc'[v] = pc[v]
            BY <1>2
        <3>2. CASE pc[v] \in {"claimed", "running"} /\ held[v].job = j
            <4>1. v \notin Current
                BY <1>2, <3>2 DEF Current, HoldsLatestClaim
            <4>2. v \notin Current'
                BY <1>1, <1>2, <3>1, <3>2 DEF Current, HoldsLatestClaim
            <4> QED BY <4>1, <4>2
        <3>3. CASE pc[v] \in {"claimed", "running"} /\ held[v].job # j
            <4>1. /\ held[v].job \in Jobs
                  /\ lease'[held[v].job] = lease[held[v].job]
                  /\ status'[held[v].job] = status[held[v].job]
                BY <1>1, <3>3
            <4> QED BY <4>1, <3>1, <3>3 DEF Current, HoldsLatestClaim
        <3>4. CASE pc[v] \notin {"claimed", "running"}
            BY <3>1, <3>4 DEF Current
        <3> QED BY <3>2, <3>3, <3>4
    <2>2. Current' \subseteq Workers \ {w} /\ Current \subseteq Workers
        BY <1>2 DEF Current
    <2> QED BY <2>1, <2>2
<1>7. o \in {"open", "settled"}
    OBVIOUS
<1> QED BY <1>3, <1>4, <1>5, <1>6, <1>7 DEF Fence!Deliver, j

(* A worker that leaves its job without touching the table. *)
LEMMA DropStep ==
    ASSUME TypeOK, ActiveHasJob, NEW w \in Workers, UNCHANGED rows,
           NEW st \in {"idle", "dead"}, pc' = [pc EXCEPT ![w] = st],
           held' = [held EXCEPT ![w] = NoClaim]
    PROVE  Fence!Drop(w)
<1> USE DEF TypeOK, ActiveHasJob, rows
<1>1. RowState' = RowState
    BY DEF RowState
<1>2. WorkOf' = [WorkOf EXCEPT ![w] = None]
    BY DEF WorkOf
<1>3. Current' = Current \ {w}
    BY DEF Current, HoldsLatestClaim
<1> QED BY <1>1, <1>2, <1>3 DEF Fence!Drop

LEMMA StepRefines ==
    QueueInv /\ [Next]_vars => [Fence!FencedNext]_<<RowState, WorkOf, Current>>
<1> SUFFICES ASSUME QueueInv, [Next]_vars
             PROVE  Fence!FencedNext \/ UNCHANGED <<RowState, WorkOf, Current>>
    OBVIOUS
<1> USE DEF QueueInv, TypeInv, rows, workers
<1>1. CASE /\ status' = status /\ pc' = pc /\ held' = held
           /\ \A j \in Jobs : /\ lease'[j].owner = lease[j].owner
                              /\ lease'[j].token = lease[j].token
    BY <1>1, SameTableStutters
<1>2. ASSUME NEW p \in Producers, EnqueueInsert(p), status' # status
      PROVE  Fence!FencedNext
    <2>1. PICK j \in Jobs : status[j] = "absent" /\ status' = [status EXCEPT ![j] = "queued"]
        BY <1>2 DEF EnqueueInsert
    <2>2. UNCHANGED <<lease, pc, held>>
        BY <1>2 DEF EnqueueInsert
    <2>3. WorkOf' = WorkOf
        BY <2>2 DEF WorkOf
    <2>4. RowState[j] = "none" /\ RowState' = [RowState EXCEPT ![j] = "open"]
        BY <2>1 DEF RowState, TypeOK
    <2>5. Current' = Current
        BY <2>1, <2>2 DEF Current, HoldsLatestClaim, ActivePresent, ActiveHasJob, TypeOK
    <2> QED BY <2>3, <2>4, <2>5 DEF Fence!FencedNext, Fence!Offer
<1>3. ASSUME NEW w \in Workers, ClaimSelect(w)
      PROVE  UNCHANGED <<RowState, WorkOf, Current>>
    <2> USE <1>3 DEF ClaimSelect, TypeOK, PCs
    <2>1. RowState' = RowState
        BY DEF RowState
    <2>2. WorkOf' = WorkOf
        BY DEF WorkOf
    <2>3. Current' = Current
        BY DEF Current, HoldsLatestClaim
    <2> QED BY <2>1, <2>2, <2>3
<1>4. ASSUME NEW w \in Workers, ClaimUpdate(w)
      PROVE  Fence!FencedNext
    <2>1. held[w].job \in Jobs /\ pc[w] = "selected"
        BY <1>4 DEF ClaimUpdate, ActiveHasJob, PCs
    <2>2. CASE pc'[w] = "claimed"
        BY <1>4, <2>1, <2>2, TakeStep DEF Fence!FencedNext
    <2>3. CASE pc'[w] # "claimed"
        <3>1. Return(w) /\ UNCHANGED rows
            BY <1>4, <2>3 DEF ClaimUpdate, TypeOK
        <3>2. Fence!Drop(w)
            BY <3>1, DropStep DEF Return
        <3> QED BY <3>2 DEF Fence!FencedNext
    <2> QED BY <2>2, <2>3
<1>5. ASSUME NEW w \in Workers, ClaimReload(w)
      PROVE  UNCHANGED <<RowState, WorkOf, Current>>
    <2> USE <1>5 DEF ClaimReload, TypeOK, PCs
    <2>1. RowState' = RowState
        BY DEF RowState
    <2>2. WorkOf' = WorkOf
        BY DEF WorkOf
    <2>3. Current' = Current
        BY DEF Current, HoldsLatestClaim
    <2> QED BY <2>1, <2>2, <2>3
<1>6. ASSUME NEW w \in Workers, Complete(w) \/ Fail(w) \/ Rearm(w)
      PROVE  Fence!FencedNext
    <2>1. held[w].job \in Jobs
        BY <1>6 DEF Complete, Fail, Rearm, Report, ActiveHasJob
    <2>2. CASE Fenced(w)
        BY <1>6, <2>1, <2>2, DeliverStep DEF Fence!FencedNext
    <2>3. CASE ~Fenced(w)
        <3>1. Return(w) /\ UNCHANGED rows
            BY <1>6, <2>3 DEF Complete, Fail, Rearm, Report
        <3>2. Fence!Drop(w)
            BY <3>1, DropStep DEF Return
        <3> QED BY <3>2 DEF Fence!FencedNext
    <2> QED BY <2>2, <2>3
<1>7. ASSUME NEW w \in Workers, Renew(w)
      PROVE  UNCHANGED <<RowState, WorkOf, Current>>
    <2>1. \A j \in Jobs : /\ lease'[j].owner = lease[j].owner
                          /\ lease'[j].token = lease[j].token
        BY <1>7 DEF Renew, TypeOK, LeaseColumns
    <2> QED BY <1>7, <2>1, SameTableStutters DEF Renew
<1>8. ASSUME NEW w \in Workers, Crash(w)
      PROVE  Fence!FencedNext
    <2>1. Fence!Drop(w)
        BY <1>8, DropStep DEF Crash
    <2> QED BY <2>1 DEF Fence!FencedNext
<1>9. ASSUME NEW j \in Jobs, Cancel(j) \/ CancelBuild(j) \/ RetryBuild(j)
      PROVE  Fence!FencedNext
    <2>1. \E o \in {"open", "settled"} : Fence!Decide({j}, o)
        <3>1. PICK st \in {"queued", "cancelled"} : status' = [status EXCEPT ![j] = st]
            BY <1>9 DEF Cancel, CancelBuild, RetryBuild, Requeue
        <3>2. /\ status[j] # "absent" /\ UNCHANGED workers
              /\ \A i \in Jobs \ {j} : lease'[i] = lease[i]
            BY <1>9 DEF Cancel, CancelBuild, RetryBuild, Requeue, TypeOK
        <3> QED BY <3>1, <3>2, DecideStep
    <2>2. {j} \in SUBSET Jobs
        OBVIOUS
    <2> QED BY <2>1, <2>2 DEF Fence!FencedNext
<1>10. ASSUME Tick
       PROVE  UNCHANGED <<RowState, WorkOf, Current>>
    <2>1. \A j \in Jobs : /\ lease'[j].owner = lease[j].owner
                          /\ lease'[j].token = lease[j].token
        BY <1>10 DEF Tick, TypeOK, LeaseColumns
    <2> QED BY <1>10, <2>1, SameTableStutters DEF Tick
<1> QED
    BY <1>1, <1>2, <1>3, <1>4, <1>5, <1>6, <1>7, <1>8, <1>9, <1>10
       DEF Next, WorkerStep, EnqueueCheck, EnqueueInsert, Debounce, vars

(* The queue implements FencedWork for any number of jobs and workers, any
   lease and any order of the statements of claim_next, complete, fail, rearm
   and cancel (durable_queue.py:96-232, 289-294). *)
THEOREM QueueIsFencedWork == Spec => ImplementsFencedWork
<1>1. Init => Fence!FencedInit
    BY DEF Init, Fence!FencedInit, RowState, WorkOf, Current
<1>2. QueueInv /\ [Next]_vars => [Fence!FencedNext]_<<RowState, WorkOf, Current>>
    BY StepRefines
<1> QED
    BY <1>1, <1>2, Invariant, PTL
       DEF Spec, ImplementsFencedWork, Fence!FencedSpec, Fence!work_vars

-----------------------------------------------------------------------------
(* What enqueue gives its callers. *)

(* Rows of one workspace and dedupe key are one row, and a caller that was given
   a row was given one of its own workspace and work. *)
OneRowPerKey ==
    \A i, j \in Jobs :
        /\ status[i] # "absent" /\ status[j] # "absent"
        /\ req[i].key # NoKey
        /\ req[i].ws = req[j].ws /\ req[i].key = req[j].key
        => i = j

Given(p, j) ==
    /\ status[j] # "absent"
    /\ req[j].ws = producer[p].req.ws /\ req[j].work = producer[p].req.work

GivenOwnWork ==
    \A p \in Producers : producer[p].pc = "done" =>
        producer[p].got \in Jobs /\ Given(p, producer[p].got)

EnqueueInv == OneRowPerKey /\ GivenOwnWork

(* Nobody but enqueue inserts a row, deletes one or changes what it asks for. *)
LEMMA OnlyEnqueueInserts ==
    ASSUME TypeInv, [Next]_vars, ActivePresent,
           ~\E p \in Producers : EnqueueInsert(p)
    PROVE  /\ req' = req
           /\ \A j \in Jobs : status'[j] = "absent" <=> status[j] = "absent"
<1> USE DEF TypeInv, TypeOK
<1>1. CASE \E p \in Producers, r \in Requests : EnqueueCheck(p, r)
    BY <1>1 DEF EnqueueCheck, rows
<1>2. ASSUME NEW w \in Workers, ClaimSelect(w) \/ ClaimReload(w) \/ Renew(w) \/ Crash(w)
      PROVE  UNCHANGED <<req, status>>
    BY <1>2 DEF ClaimSelect, ClaimReload, Renew, Crash, rows
<1>3. ASSUME NEW w \in Workers, ClaimUpdate(w)
      PROVE  /\ req' = req
             /\ \A j \in Jobs : status'[j] = "absent" <=> status[j] = "absent"
    BY <1>3 DEF ClaimUpdate, Eligible
<1>4. ASSUME NEW w \in Workers, Complete(w) \/ Fail(w) \/ Rearm(w)
      PROVE  /\ req' = req
             /\ \A j \in Jobs : status'[j] = "absent" <=> status[j] = "absent"
    BY <1>4, ReportEffect DEF ReportChange
<1>5. ASSUME NEW j \in Jobs,
             Cancel(j) \/ CancelBuild(j) \/ RetryBuild(j) \/ Debounce(j)
      PROVE  /\ req' = req
             /\ \A i \in Jobs : status'[i] = "absent" <=> status[i] = "absent"
    BY <1>5 DEF Cancel, CancelBuild, RetryBuild, Requeue, Debounce
<1>6. CASE Tick
    BY <1>6 DEF Tick
<1>7. CASE UNCHANGED vars
    BY <1>7 DEF vars, rows
<1> QED
    BY <1>1, <1>2, <1>3, <1>4, <1>5, <1>6, <1>7 DEF Next, WorkerStep

LEMMA StepEnqueueInv == QueueInv /\ EnqueueInv /\ [Next]_vars => EnqueueInv'
<1> SUFFICES ASSUME QueueInv, EnqueueInv, [Next]_vars PROVE EnqueueInv'
    OBVIOUS
<1> USE DEF QueueInv, TypeInv, TypeOK, EnqueueInv
<1>1. ASSUME NEW p \in Producers, NEW r \in Requests, EnqueueCheck(p, r)
      PROVE  EnqueueInv'
    <2>1. UNCHANGED <<req, status>>
        BY <1>1 DEF EnqueueCheck, rows
    <2>2. GivenOwnWork'
        BY <1>1, <2>1 DEF EnqueueCheck, Existing, SameKey, GivenOwnWork, Given, ProducerState
    <2> QED BY <2>1, <2>2 DEF OneRowPerKey
<1>2. ASSUME NEW p \in Producers, EnqueueInsert(p)
      PROVE  EnqueueInv'
    <2> DEFINE r == producer[p].req
    <2>1. CASE UNCHANGED <<req, status>> /\ \E j \in SameKey(r) : Existing(p, r, j)
        BY <2>1 DEF EnqueueInsert, Existing, SameKey, GivenOwnWork, Given, OneRowPerKey, ProducerState
    <2>2. ASSUME NEW j \in Jobs, SameKey(r) = {}, status[j] = "absent",
                 req' = [req EXCEPT ![j] = r],
                 status' = [status EXCEPT ![j] = "queued"],
                 producer' = [producer EXCEPT ![p] = [pc |-> "done", req |-> r, got |-> j]]
          PROVE  EnqueueInv'
        <3>1. OneRowPerKey'
            BY <2>2 DEF OneRowPerKey, SameKey
        <3>2. GivenOwnWork'
            BY <2>2 DEF GivenOwnWork, Given, ProducerState
        <3> QED BY <3>1, <3>2
    <2> QED BY <1>2, <2>1, <2>2 DEF EnqueueInsert
<1>3. CASE ~\E p \in Producers : \/ EnqueueInsert(p)
                                 \/ \E r \in Requests : EnqueueCheck(p, r)
    <2>1. /\ req' = req
          /\ \A j \in Jobs : status'[j] = "absent" <=> status[j] = "absent"
        BY <1>3, OnlyEnqueueInserts
    <2>2. producer' = producer
        BY <1>3 DEF Next, vars, WorkerStep, ClaimSelect, ClaimUpdate, ClaimReload,
            Complete, Fail, Rearm, Report, Renew, Crash, Cancel, CancelBuild,
            RetryBuild, Requeue, Debounce, Tick
    <2> QED BY <2>1, <2>2 DEF OneRowPerKey, GivenOwnWork, Given
<1> QED BY <1>1, <1>2, <1>3

LEMMA EnqueueInvGives == TypeInv /\ EnqueueInv => EnqueueGivesOwnWork
<1> SUFFICES ASSUME TypeInv, EnqueueInv, NEW p \in Producers
             PROVE  /\ producer[p].pc = "done" =>
                          LET r == req[producer[p].got] IN
                          /\ status[producer[p].got] # "absent"
                          /\ r.ws = producer[p].req.ws /\ r.work = producer[p].req.work
                    /\ Cardinality(SameKey(producer[p].req)) <= 1
    BY DEF EnqueueGivesOwnWork
<1>1. producer[p].pc = "done" =>
          LET r == req[producer[p].got] IN
          /\ status[producer[p].got] # "absent"
          /\ r.ws = producer[p].req.ws /\ r.work = producer[p].req.work
    BY DEF EnqueueInv, GivenOwnWork, Given
<1> DEFINE S == SameKey(producer[p].req)
<1>2. \A i, j \in S : i = j
    BY DEF SameKey, EnqueueInv, OneRowPerKey
<1>3. CASE S = {}
    BY <1>1, <1>3, FS_EmptySet
<1>4. CASE S # {}
    <2>1. PICK i \in S : TRUE
        BY <1>4
    <2>2. S = {i}
        BY <1>2, <2>1
    <2>3. Cardinality(S) = 1
        BY <2>2, FS_Singleton
    <2> QED BY <1>1, <2>3
<1> QED BY <1>3, <1>4

(* Whatever the race between calls of enqueue, each is given a row of its own
   workspace and work, and there is one row per dedupe key
   (durable_queue.py:46-94). *)
THEOREM EnqueueIsOwn == Spec => []EnqueueGivesOwnWork
<1>1. Init => EnqueueInv
    BY DEF Init, EnqueueInv, OneRowPerKey, GivenOwnWork
<1>2. QueueInv /\ EnqueueInv /\ [Next]_vars => EnqueueInv'
    BY StepEnqueueInv
<1>3. QueueInv /\ EnqueueInv => EnqueueGivesOwnWork
    BY EnqueueInvGives DEF QueueInv
<1> QED BY <1>1, <1>2, <1>3, Invariant, PTL DEF Spec
=============================================================================

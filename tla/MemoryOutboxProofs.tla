------------------------- MODULE MemoryOutboxProofs -------------------------
(***************************************************************************)
(* Proofs about MemoryOutbox, for any number of rows and workers and any   *)
(* lease, budget and number of faults: type correctness, the fencing of    *)
(* outcomes, the respect of a running lease, and that a row is handled     *)
(* twice at a time only after a fault.                                     *)
(***************************************************************************)
EXTENDS MemoryOutbox, TLAPS

USE OutboxAssumption

(* 2 ** attempts is capped, so it is computed for 11 values at most. *)
LEMMA BackoffType ==
    ASSUME NEW a \in Nat
    PROVE  Backoff(a) \in 0..BackoffCap
<1>1. CASE a > 10
    BY <1>1 DEF Backoff
<1>2. CASE a <= 10
    <2>1. a \in {0, 1, 2, 3, 4, 5, 6, 7, 8, 9, 10}
        BY <1>2
    <2>2. 2^0 \in Nat /\ 2^1 \in Nat /\ 2^2 \in Nat /\ 2^3 \in Nat /\ 2^4 \in Nat
        OBVIOUS
    <2>3. 2^5 \in Nat /\ 2^6 \in Nat /\ 2^7 \in Nat /\ 2^8 \in Nat /\ 2^9 \in Nat
        OBVIOUS
    <2>4. 2^10 \in Nat
        OBVIOUS
    <2>5. 2^a \in Nat
        BY <2>1, <2>2, <2>3, <2>4, Zenon
    <2> QED BY <1>2, <2>5 DEF Backoff
<1> QED BY <1>1, <1>2

-----------------------------------------------------------------------------
(* Types, those of the table and those of the workers apart. *)

RowsOK ==
    /\ status \in [Items -> Statuses]
    /\ attempts \in [Items -> Nat]
    /\ avail \in [Items -> 0..BackoffCap]
    /\ left \in [Items -> -1..Lease]
    /\ gen \in [Items -> Nat]
    /\ \A i \in Items : status[i] # "leased" => left[i] = 0

WorkersOK ==
    /\ pc \in [Workers -> {"idle", "claiming", "running"}]
    /\ batch \in [Workers -> SUBSET Items]
    /\ claim \in [Workers -> [item : Items \cup {None}, gen : Nat]]
    /\ \A w \in Workers : pc[w] = "running" <=> claim[w].item # None

LEMMA TypeParts == TypeOK <=> RowsOK /\ WorkersOK /\ faults \in 0..MaxFaults
BY DEF TypeOK, RowsOK, WorkersOK

LEMMA TypePartsNext ==
    TypeOK' <=> RowsOK' /\ WorkersOK' /\ faults' \in 0..MaxFaults
BY DEF TypeOK, RowsOK, WorkersOK

LEMMA NoClaimType == NoClaim \in [item : Items \cup {None}, gen : Nat]
BY DEF NoClaim

LEMMA InitType == OutboxInit => TypeOK
<1> SUFFICES ASSUME OutboxInit PROVE TypeOK
    OBVIOUS
<1>1. RowsOK
    BY DEF OutboxInit, RowsOK, Statuses, Open
<1>2. WorkersOK
    BY NoClaimType DEF OutboxInit, WorkersOK, NoClaim
<1> QED BY <1>1, <1>2, TypeParts DEF OutboxInit

(* A worker that goes on to its next candidate. *)
LEMMA FinishType ==
    ASSUME TypeOK, NEW w \in Workers, Finish(w)
    PROVE  /\ claim[w].item \in Items
           /\ WorkersOK' /\ faults' \in 0..MaxFaults
<1>1. claim[w].item \in Items
    BY DEF TypeOK, Finish
<1>2. claim' \in [Workers -> [item : Items \cup {None}, gen : Nat]]
    BY NoClaimType DEF TypeOK, Finish
<1>3. /\ pc' \in [Workers -> {"idle", "claiming", "running"}]
      /\ pc'[w] # "running" /\ claim'[w].item = None
    BY DEF TypeOK, Finish, NextCandidate, NoClaim
<1>4. \A v \in Workers \ {w} : pc'[v] = pc[v] /\ claim'[v] = claim[v]
    BY DEF TypeOK, Finish, NextCandidate
<1>5. WorkersOK'
    BY <1>2, <1>3, <1>4 DEF TypeOK, WorkersOK, Finish
<1> QED BY <1>1, <1>5 DEF TypeOK, Finish

LEMMA RecordType ==
    ASSUME RowsOK, NEW i \in Items,
           NEW outcome \in {"succeeded", "failed", "dead_letter"},
           Record(i, outcome),
           attempts' \in [Items -> Nat], avail' \in [Items -> 0..BackoffCap]
    PROVE  RowsOK'
<1>1. status' \in [Items -> Statuses]
    BY DEF RowsOK, Record, Statuses, Open
<1>2. left' \in [Items -> -1..Lease] /\ gen' \in [Items -> Nat]
    BY DEF RowsOK, Record
<1>3. \A k \in Items : status'[k] # "leased" => left'[k] = 0
    BY DEF RowsOK, Record
<1> QED BY <1>1, <1>2, <1>3 DEF RowsOK

LEMMA StepType == TypeOK /\ [OutboxNext]_outbox => TypeOK'
<1> SUFFICES ASSUME TypeOK, [OutboxNext]_outbox PROVE TypeOK'
    OBVIOUS
<1>0. RowsOK /\ WorkersOK /\ faults \in 0..MaxFaults
    BY TypeParts
<1>1. ASSUME NEW i \in Items, Post(i), UNCHANGED <<workers, faults>>
      PROVE  TypeOK'
    BY <1>1 DEF Post, TypeOK, Statuses, Open, workers
<1>2. ASSUME NEW S \in SUBSET Waiting, SettleElsewhere(S),
             UNCHANGED <<workers, faults>>
      PROVE  TypeOK'
    BY <1>2 DEF SettleElsewhere, Waiting, TypeOK, Statuses, Open, workers
<1>3. ASSUME NEW i \in Items, Retry(i)
      PROVE  TypeOK'
    BY <1>3 DEF Retry, TypeOK, Statuses, Open, workers
<1>4. ASSUME NEW w \in Workers, Poll(w)
      PROVE  TypeOK'
    BY <1>4 DEF Poll, TypeOK, rows
<1>5. ASSUME NEW w \in Workers, NEW i \in Items, Claim(w, i)
      PROVE  TypeOK'
    <2>1. [item |-> i, gen |-> gen[i] + 1] \in [item : Items \cup {None}, gen : Nat]
        BY DEF TypeOK
    <2>2. claim' \in [Workers -> [item : Items \cup {None}, gen : Nat]]
        BY <1>5, <2>1 DEF Claim, TypeOK
    <2>3. WorkersOK'
        BY <1>5, <2>2 DEF Claim, TypeOK, WorkersOK
    <2>4. RowsOK'
        BY <1>5 DEF Claim, TypeOK, RowsOK, Statuses, Open
    <2> QED BY <1>5, <2>3, <2>4, <1>0, TypePartsNext DEF Claim
<1>6. ASSUME NEW w \in Workers, NEW i \in Items, Skip(w, i)
      PROVE  TypeOK'
    BY <1>6 DEF Skip, NextCandidate, TypeOK, rows
<1>7. ASSUME NEW w \in Workers, MarkSucceeded(w)
      PROVE  TypeOK'
    <2>1. Finish(w)
        BY <1>7 DEF MarkSucceeded
    <2>2. RowsOK'
        <3>1. CASE Holds(w)
            BY <1>0, <1>7, <2>1, <3>1, FinishType, RecordType
               DEF MarkSucceeded, RowsOK
        <3>2. CASE ~Holds(w)
            BY <1>0, <1>7, <3>2 DEF MarkSucceeded, RowsOK, rows
        <3> QED BY <3>1, <3>2
    <2> QED BY <2>1, <2>2, FinishType, TypePartsNext
<1>8. ASSUME NEW w \in Workers, NEW permanent \in BOOLEAN,
             MarkFailed(w, permanent)
      PROVE  TypeOK'
    <2>1. Finish(w)
        BY <1>8 DEF MarkFailed
    <2>2. claim[w].item \in Items
        BY <2>1, FinishType
    <2>3. RowsOK'
        <3>1. CASE Holds(w)
            <4> DEFINE i == claim[w].item
                       a == attempts[i] + 1
            <4>1. a \in Nat /\ Backoff(a) \in 0..BackoffCap
                BY <2>2, BackoffType DEF TypeOK
            <4>2. attempts' \in [Items -> Nat]
                BY <1>8, <2>2, <3>1 DEF MarkFailed, TypeOK
            <4>3. \/ Record(i, "dead_letter") /\ UNCHANGED avail
                  \/ Record(i, "failed") /\ avail' = [avail EXCEPT ![i] = Backoff(a)]
                BY <1>8, <3>1 DEF MarkFailed
            <4>4. avail' \in [Items -> 0..BackoffCap]
                BY <2>2, <4>1, <4>3 DEF TypeOK
            <4> QED BY <1>0, <2>2, <4>2, <4>3, <4>4, RecordType
        <3>2. CASE ~Holds(w)
            BY <1>0, <1>8, <3>2 DEF MarkFailed, RowsOK, rows
        <3> QED BY <3>1, <3>2
    <2> QED BY <2>1, <2>3, FinishType, TypePartsNext
<1>9. ASSUME NEW w \in Workers, Renew(w)
      PROVE  TypeOK'
    BY <1>9 DEF Renew, Holds, TypeOK, workers
<1>10. ASSUME NEW w \in Workers, Crash(w)
       PROVE  TypeOK'
    <2>1. claim' \in [Workers -> [item : Items \cup {None}, gen : Nat]]
        BY <1>10, NoClaimType DEF Crash, TypeOK
    <2>2. WorkersOK' /\ faults' \in 0..MaxFaults
        BY <1>10, <2>1 DEF Crash, TypeOK, WorkersOK, NoClaim
    <2>3. RowsOK'
        BY <1>0, <1>10 DEF Crash, RowsOK, rows
    <2> QED BY <2>2, <2>3, TypePartsNext
<1>11. CASE Tick
    <2>1. faults' \in 0..MaxFaults
        BY <1>11 DEF Tick, TypeOK
    <2>2. RowsOK'
        BY <1>11 DEF Tick, TypeOK, RowsOK
    <2>3. WorkersOK'
        BY <1>0, <1>11 DEF Tick, WorkersOK, workers
    <2> QED BY <2>1, <2>2, <2>3, TypePartsNext
<1>12. CASE UNCHANGED outbox
    BY <1>12 DEF outbox, rows, workers, TypeOK
<1> QED
    BY <1>1, <1>2, <1>3, <1>4, <1>5, <1>6, <1>7, <1>8, <1>9, <1>10, <1>11,
       <1>12 DEF OutboxNext, WorkerStep

(* Every reachable state has the types of the table's columns; in particular a
   row that is not leased has no lease left over, whichever of the six writers
   changed it (memory_outbox.py:140-265, memory.py:393-408). *)
THEOREM OutboxTypeCorrect == OutboxSpec => []TypeOK
BY InitType, StepType, PTL DEF OutboxSpec

-----------------------------------------------------------------------------
(* The inductive invariant. *)

Running(w) == pc[w] = "running"

\* Generations only grow, so a claim is at most as new as its row.
ClaimsKnown ==
    \A w \in Workers : Running(w) => claim[w].gen <= gen[claim[w].item]

\* No two workers have made the same claim.
ClaimsDiffer ==
    \A v, w \in Workers : Running(v) /\ Running(w) /\ claim[v] = claim[w] => v = w

\* Before the first fault, a worker that runs a handler has its row: the claim
\* is the latest, the lease has time left, and nobody else runs it.
SoleUnlessFaulty ==
    faults = 0 =>
        \A w \in Workers : Running(w) =>
            /\ Holds(w) /\ left[claim[w].item] >= 1
            /\ \A v \in Workers :
                  Running(v) /\ claim[v].item = claim[w].item => v = w

OutboxInv == TypeOK /\ ClaimsKnown /\ ClaimsDiffer /\ SoleUnlessFaulty

LEMMA InitInv == OutboxInit => OutboxInv
<1> SUFFICES ASSUME OutboxInit PROVE OutboxInv
    OBVIOUS
<1>1. \A w \in Workers : ~Running(w)
    BY DEF OutboxInit, Running
<1> QED
    BY <1>1, InitType DEF OutboxInv, ClaimsKnown, ClaimsDiffer, SoleUnlessFaulty

(* What a worker that is running or not keeps of its claim in a step: either it
   goes on with it, or it has none afterwards, or it has just made it. *)
Made(w) ==
    \E i \in Items :
        /\ Eligible(i)
        /\ claim'[w] = [item |-> i, gen |-> gen[i] + 1]
        /\ status' = [status EXCEPT ![i] = "leased"]
        /\ left' = [left EXCEPT ![i] = Lease]
        /\ gen' = [gen EXCEPT ![i] = gen[i] + 1]

GoesOn(w) == Running(w) /\ claim'[w] = claim[w]

\* Every other worker is left alone.
Alone(w) ==
    \A v \in Workers \ {w} : pc'[v] = pc[v] /\ claim'[v] = claim[v]

(* Generations in a step. *)
LEMMA GenGrows ==
    ASSUME TypeOK, [OutboxNext]_outbox
    PROVE  \A i \in Items : gen'[i] >= gen[i]
<1>1. CASE \E w \in Workers, i \in Items : Claim(w, i)
    BY <1>1 DEF Claim, TypeOK
<1>2. CASE UNCHANGED gen
    BY <1>2 DEF TypeOK
<1>3. CASE \E w \in Workers : MarkSucceeded(w)
    BY <1>3, <1>2 DEF MarkSucceeded, Record, rows
<1>4. CASE \E w \in Workers, permanent \in BOOLEAN : MarkFailed(w, permanent)
    BY <1>4, <1>2 DEF MarkFailed, Record, rows
<1>5. CASE \E i \in Items : Post(i) \/ Retry(i)
    BY <1>5, <1>2 DEF Post, Retry
<1>6. CASE \E S \in SUBSET Waiting : SettleElsewhere(S)
    BY <1>6, <1>2 DEF SettleElsewhere
<1>7. CASE \E w \in Workers : Poll(w) \/ Renew(w) \/ Crash(w) \/ \E i \in Items : Skip(w, i)
    BY <1>7, <1>2 DEF Poll, Renew, Crash, Skip, rows
<1>8. CASE Tick \/ UNCHANGED outbox
    BY <1>8, <1>2 DEF Tick, outbox, rows
<1> QED
    BY <1>1, <1>3, <1>4, <1>5, <1>6, <1>7, <1>8 DEF OutboxNext, WorkerStep

(* A step that makes no claim leaves the workers the claims they had, or
   ends them. *)
LEMMA NoClaimStep ==
    ASSUME TypeOK, [OutboxNext]_outbox,
           \A w \in Workers, i \in Items : ~Claim(w, i)
    PROVE  \A w \in Workers : Running(w)' => GoesOn(w)
<1>1. CASE UNCHANGED workers
    BY <1>1 DEF workers, Running, GoesOn
<1>2. ASSUME NEW w \in Workers, Finish(w)
      PROVE  \A v \in Workers : Running(v)' => GoesOn(v)
    BY <1>2 DEF Finish, NextCandidate, Running, GoesOn, TypeOK
<1>3. CASE \E w \in Workers : MarkSucceeded(w)
    BY <1>2, <1>3 DEF MarkSucceeded
<1>4. CASE \E w \in Workers, permanent \in BOOLEAN : MarkFailed(w, permanent)
    BY <1>2, <1>4 DEF MarkFailed
<1>5. CASE \E i \in Items : (Post(i) /\ UNCHANGED <<workers, faults>>) \/ Retry(i)
    BY <1>1, <1>5 DEF Retry
<1>6. CASE \E S \in SUBSET Waiting : SettleElsewhere(S) /\ UNCHANGED <<workers, faults>>
    BY <1>1, <1>6
<1>7. ASSUME NEW w \in Workers, Poll(w) \/ \E i \in Items : Skip(w, i)
      PROVE  \A v \in Workers : Running(v)' => GoesOn(v)
    BY <1>7 DEF Poll, Skip, NextCandidate, Running, GoesOn, TypeOK
<1>8. ASSUME NEW w \in Workers, Crash(w)
      PROVE  \A v \in Workers : Running(v)' => GoesOn(v)
    BY <1>8 DEF Crash, Running, GoesOn, TypeOK
<1>9. CASE Tick \/ UNCHANGED outbox \/ \E w \in Workers : Renew(w)
    BY <1>1, <1>9 DEF Tick, Renew, outbox
<1> QED
    BY <1>3, <1>4, <1>5, <1>6, <1>7, <1>8, <1>9 DEF OutboxNext, WorkerStep

(* Claims in a step: one worker makes one, or every claim that is still there
   was there before. *)
LEMMA ClaimStep ==
    ASSUME TypeOK, [OutboxNext]_outbox
    PROVE  \/ \E w \in Workers : Made(w) /\ Alone(w)
           \/ \A w \in Workers : Running(w)' => GoesOn(w)
<1>1. CASE \E w \in Workers, i \in Items : Claim(w, i)
    <2>1. PICK w \in Workers, i \in Items : Claim(w, i)
        BY <1>1
    <2>2. Made(w)
        BY <2>1 DEF Claim, Made, TypeOK
    <2>3. Alone(w)
        BY <2>1 DEF Claim, Alone, TypeOK
    <2> QED BY <2>2, <2>3
<1>2. CASE \A w \in Workers, i \in Items : ~Claim(w, i)
    BY <1>2, NoClaimStep
<1> QED BY <1>1, <1>2

LEMMA StepClaimsKnown == OutboxInv /\ [OutboxNext]_outbox => ClaimsKnown'
<1> SUFFICES ASSUME OutboxInv, [OutboxNext]_outbox, NEW w \in Workers, Running(w)'
             PROVE  claim'[w].gen <= gen'[claim'[w].item]
    BY DEF ClaimsKnown
<1> TypeOK /\ ClaimsKnown
    BY DEF OutboxInv
<1>1. CASE Made(w)
    BY <1>1 DEF Made, TypeOK
<1>2. CASE GoesOn(w)
    <2>1. claim[w].item \in Items /\ claim[w].gen \in Nat
        BY <1>2 DEF GoesOn, Running, TypeOK
    <2>2. gen' \in [Items -> Nat] /\ gen \in [Items -> Nat]
        BY StepType DEF TypeOK
    <2> QED BY <1>2, <2>1, <2>2, GenGrows DEF ClaimsKnown, GoesOn
<1>3. Made(w) \/ GoesOn(w)
    BY ClaimStep DEF Alone, Running, GoesOn
<1> QED BY <1>1, <1>2, <1>3

LEMMA StepClaimsDiffer == OutboxInv /\ [OutboxNext]_outbox => ClaimsDiffer'
<1> SUFFICES ASSUME OutboxInv, [OutboxNext]_outbox,
                    NEW v \in Workers, NEW w \in Workers,
                    Running(v)', Running(w)', claim'[v] = claim'[w], v # w
             PROVE  FALSE
    BY DEF ClaimsDiffer
<1> TypeOK /\ ClaimsKnown /\ ClaimsDiffer
    BY DEF OutboxInv
<1>1. ~(GoesOn(v) /\ GoesOn(w))
    BY DEF GoesOn, ClaimsDiffer
<1>2. ASSUME NEW x \in Workers, NEW y \in Workers, Made(x), GoesOn(y),
             claim'[x] = claim'[y]
      PROVE  FALSE
    <2>1. PICK i \in Items : claim'[x] = [item |-> i, gen |-> gen[i] + 1]
        BY <1>2 DEF Made
    <2>2. claim[y].item = i /\ claim[y].gen = gen[i] + 1
        BY <1>2, <2>1 DEF GoesOn
    <2>3. claim[y].gen <= gen[i]
        BY <1>2, <2>2 DEF ClaimsKnown, GoesOn
    <2> QED BY <2>2, <2>3 DEF TypeOK
<1>3. \/ GoesOn(v) /\ GoesOn(w)
      \/ Made(v) /\ GoesOn(w)
      \/ GoesOn(v) /\ Made(w)
    BY ClaimStep DEF Alone, Running, GoesOn
<1> QED BY <1>1, <1>2, <1>3

(* Faults are never forgotten. *)
LEMMA FaultsGrow ==
    ASSUME TypeOK, [OutboxNext]_outbox
    PROVE  faults' = 0 => faults = 0
<1>1. CASE UNCHANGED faults
    BY <1>1
<1>2. CASE \E i \in Items : Retry(i)
    BY <1>2 DEF Retry, TypeOK
<1>3. CASE \E w \in Workers : Crash(w)
    BY <1>3 DEF Crash, TypeOK
<1>4. CASE Tick
    BY <1>4 DEF Tick, TypeOK
<1>5. CASE \E w \in Workers : WorkerStep(w) \/ Renew(w)
    BY <1>1, <1>5 DEF WorkerStep, Poll, Claim, Skip, Renew, MarkSucceeded,
                      MarkFailed, Finish
<1> QED BY <1>1, <1>2, <1>3, <1>4, <1>5 DEF OutboxNext, outbox

\* What SoleUnlessFaulty says of one worker.
Sole(w) ==
    /\ Holds(w) /\ left[claim[w].item] >= 1
    /\ \A v \in Workers : Running(v) /\ claim[v].item = claim[w].item => v = w

(* A step that makes no claim leaves the row of a handler that goes on as it
   is, but for its time, unless it is a fault. *)
LEMMA RowKept ==
    ASSUME TypeOK, [OutboxNext]_outbox, faults = 0, faults' = 0,
           \A w \in Workers, i \in Items : ~Claim(w, i),
           \A w \in Workers : Running(w) => Sole(w) /\ claim[w].item \in Items,
           NEW w \in Workers, Running(w), Running(w)'
    PROVE  /\ status'[claim[w].item] = status[claim[w].item]
           /\ gen'[claim[w].item] = gen[claim[w].item]
           /\ left'[claim[w].item] >= 1
<1> DEFINE k == claim[w].item
<1>0. /\ k \in Items /\ status[k] = "leased" /\ left[k] >= 1
      /\ \A v \in Workers : Running(v) /\ claim[v].item = k => v = w
    BY DEF Sole, Holds
<1>1. CASE UNCHANGED rows
    BY <1>0, <1>1 DEF rows
<1>2. ASSUME NEW v \in Workers, Finish(v)
      PROVE  claim[v].item # k
    BY <1>0, <1>2 DEF Finish, NextCandidate, Running, TypeOK
<1>3. ASSUME NEW v \in Workers, NEW outcome, Finish(v), Record(claim[v].item, outcome)
      PROVE  status'[k] = status[k] /\ gen'[k] = gen[k] /\ left'[k] >= 1
    BY <1>0, <1>2, <1>3 DEF Record, TypeOK
<1>4. CASE \E v \in Workers : MarkSucceeded(v)
    BY <1>1, <1>3, <1>4 DEF MarkSucceeded
<1>5. CASE \E v \in Workers, permanent \in BOOLEAN : MarkFailed(v, permanent)
    BY <1>1, <1>3, <1>5 DEF MarkFailed
<1>6. CASE \E i \in Items : Post(i)
    BY <1>0, <1>6 DEF Post, TypeOK
<1>7. CASE \E S \in SUBSET Waiting : SettleElsewhere(S)
    BY <1>0, <1>7 DEF SettleElsewhere, Waiting
<1>8. CASE \E i \in Items : Retry(i) \/ \E v \in Workers : Crash(v)
    BY <1>8 DEF Retry, Crash, TypeOK
<1>9. CASE \E v \in Workers : Renew(v)
    BY <1>0, <1>9 DEF Renew, TypeOK
<1>10. CASE Tick
    <2>1. w \notin Missing
        BY <1>10 DEF Tick, TypeOK
    <2>2. left[k] # 1
        BY <2>1 DEF Missing, Sole, Running
    <2> QED BY <1>0, <1>10, <2>2 DEF Tick, TypeOK
<1>11. CASE UNCHANGED outbox \/ \E v \in Workers : Poll(v) \/ \E i \in Items : Skip(v, i)
    BY <1>1, <1>11 DEF outbox, Poll, Skip
<1> QED
    BY <1>4, <1>5, <1>6, <1>7, <1>8, <1>9, <1>10, <1>11 DEF OutboxNext, WorkerStep

LEMMA StepSole == OutboxInv /\ [OutboxNext]_outbox => SoleUnlessFaulty'
<1> SUFFICES ASSUME OutboxInv, [OutboxNext]_outbox, faults' = 0,
                    NEW w \in Workers, Running(w)'
             PROVE  Sole(w)'
    BY DEF SoleUnlessFaulty, Sole
<1> TypeOK /\ faults = 0
    BY FaultsGrow DEF OutboxInv
<1>0. \A v \in Workers : Running(v) => Sole(v) /\ claim[v].item \in Items
    BY DEF OutboxInv, SoleUnlessFaulty, Sole, Running, TypeOK
<1>1. ASSUME NEW x \in Workers, NEW i \in Items, Claim(x, i)
      PROVE  Sole(w)'
    <2>1. \A v \in Workers : Running(v) => claim[v].item # i
        <3> SUFFICES ASSUME NEW v \in Workers, Running(v), claim[v].item = i
                     PROVE  FALSE
            OBVIOUS
        <3>1. status[i] = "leased" /\ left[i] >= 1
            BY <1>0 DEF Sole, Holds
        <3> QED BY <1>1, <3>1 DEF Claim, Eligible, TypeOK
    <2>2. Running(x)' /\ claim'[x] = [item |-> i, gen |-> gen[i] + 1]
        BY <1>1 DEF Claim, Running, TypeOK
    <2>3. \A v \in Workers \ {x} : (Running(v)' <=> Running(v)) /\ claim'[v] = claim[v]
        BY <1>1 DEF Claim, Running, TypeOK
    <2>4. \A v \in Workers \ {x} : Running(v)' => claim'[v].item # i
        BY <2>1, <2>3
    <2>5. CASE w = x
        <3>1. Holds(w)' /\ left'[claim'[w].item] >= 1
            BY <1>1, <2>2, <2>5 DEF Claim, Holds, TypeOK
        <3> QED BY <2>2, <2>4, <2>5, <3>1 DEF Sole
    <2>6. CASE w # x
        <3>1. Running(w) /\ claim'[w] = claim[w] /\ claim[w].item # i
            BY <2>1, <2>3, <2>6
        <3>2. Holds(w)' /\ left'[claim'[w].item] >= 1
            BY <1>0, <1>1, <3>1 DEF Sole, Claim, Holds, TypeOK
        <3> QED BY <1>0, <2>2, <2>3, <3>1, <3>2 DEF Sole
    <2> QED BY <2>5, <2>6
<1>2. CASE \A x \in Workers, i \in Items : ~Claim(x, i)
    <2>1. \A v \in Workers : Running(v)' => GoesOn(v)
        BY <1>2, NoClaimStep
    <2>2. Running(w) /\ claim'[w] = claim[w]
        BY <2>1 DEF GoesOn
    <2>3. /\ status'[claim[w].item] = status[claim[w].item]
          /\ gen'[claim[w].item] = gen[claim[w].item]
          /\ left'[claim[w].item] >= 1
        BY <1>0, <1>2, <2>2, RowKept
    <2>4. Holds(w)' /\ left'[claim'[w].item] >= 1
        BY <1>0, <2>2, <2>3 DEF Sole, Holds
    <2>5. \A v \in Workers : Running(v)' /\ claim'[v].item = claim'[w].item => v = w
        BY <1>0, <2>1, <2>2 DEF Sole, GoesOn
    <2> QED BY <2>4, <2>5 DEF Sole
<1> QED BY <1>1, <1>2

LEMMA OutboxInvariant == OutboxSpec => []OutboxInv
<1>1. OutboxInv /\ [OutboxNext]_outbox => OutboxInv'
    BY StepType, StepClaimsKnown, StepClaimsDiffer, StepSole DEF OutboxInv
<1> QED BY InitInv, <1>1, PTL DEF OutboxSpec

(* Two handlers run at a time for one row only after a crash, a heartbeat
   missed for a whole lease or an operator's retry (memory_outbox.py:58-138). *)
THEOREM HandlingIsExclusive == OutboxSpec => []HandledOnceUnlessFaulty
<1>1. OutboxInv => HandledOnceUnlessFaulty
    BY DEF OutboxInv, SoleUnlessFaulty, HandledOnceUnlessFaulty, Running, TypeOK
<1> QED BY <1>1, OutboxInvariant, PTL

-----------------------------------------------------------------------------
(* Action properties. *)

Outcomes == {"succeeded", "failed", "dead_letter"}

(* What the end of a handler does to the rows: nothing, or it records the
   outcome of the row it holds. *)
LEMMA MarkEffect ==
    ASSUME NEW w \in Workers,
           MarkSucceeded(w) \/ \E permanent \in BOOLEAN : MarkFailed(w, permanent)
    PROVE  /\ Finish(w)
           /\ \/ UNCHANGED rows
              \/ /\ Holds(w)
                 /\ \E outcome \in Outcomes : Record(claim[w].item, outcome)
BY DEF MarkSucceeded, MarkFailed, Outcomes

(* A worker that holds a row has the claim of its latest generation. *)
LEMMA HolderClaim ==
    ASSUME TypeOK, NEW w \in Workers, Finish(w), Holds(w)
    PROVE  /\ claim[w].item \in Items
           /\ claim[w] = [item |-> claim[w].item, gen |-> gen[claim[w].item]]
           /\ claim'[w] = NoClaim
BY DEF TypeOK, Finish, Holds

(* _mark_succeeded and _mark_failed (memory_outbox.py:200-239) record an
   outcome only for the latest claim, and no other writer gives a leased row an
   outcome. *)
THEOREM OutcomeFencing == OutboxSpec => OutcomesAreFenced
<1> DEFINE Fenced ==
        \A i \in Items :
          status[i] = "leased" /\ status'[i] \in Outcomes
            => \E w \in Workers : /\ claim[w] = [item |-> i, gen |-> gen[i]]
                                  /\ claim'[w] = NoClaim
<1>1. TypeOK /\ [OutboxNext]_outbox => Fenced
    <2> SUFFICES ASSUME TypeOK, [OutboxNext]_outbox, NEW i \in Items,
                        status[i] = "leased", status'[i] \in Outcomes
                 PROVE  \E w \in Workers : /\ claim[w] = [item |-> i, gen |-> gen[i]]
                                           /\ claim'[w] = NoClaim
        OBVIOUS
    <2>0. status'[i] # status[i]
        BY DEF Outcomes
    <2>1. ASSUME NEW w \in Workers,
                 MarkSucceeded(w) \/ \E permanent \in BOOLEAN : MarkFailed(w, permanent)
          PROVE  claim[w] = [item |-> i, gen |-> gen[i]] /\ claim'[w] = NoClaim
        <3>1. Finish(w) /\ Holds(w)
              /\ \E outcome \in Outcomes : Record(claim[w].item, outcome)
            BY <2>0, <2>1, MarkEffect DEF rows
        <3>2. claim[w].item = i
            BY <2>0, <3>1 DEF Record, TypeOK
        <3> QED BY <3>1, <3>2, HolderClaim
    <2>2. CASE UNCHANGED rows
        BY <2>0, <2>2 DEF rows
    <2>3. ASSUME NEW k \in Items, Post(k) \/ Retry(k)
          PROVE  FALSE
        BY <2>3, <2>0 DEF Post, Retry, TypeOK, Outcomes
    <2>4. ASSUME NEW S \in SUBSET Waiting, SettleElsewhere(S)
          PROVE  FALSE
        BY <2>4, <2>0 DEF SettleElsewhere, Waiting, TypeOK
    <2>5. ASSUME NEW w \in Workers, NEW k \in Items, Claim(w, k)
          PROVE  FALSE
        BY <2>5, <2>0 DEF Claim, TypeOK
    <2>6. CASE Tick \/ \E w \in Workers : Renew(w)
        BY <2>0, <2>6 DEF Tick, Renew
    <2>7. CASE \E w \in Workers : Poll(w) \/ Crash(w) \/ \E k \in Items : Skip(w, k)
        BY <2>2, <2>7 DEF Poll, Crash, Skip
    <2>8. CASE UNCHANGED outbox
        BY <2>2, <2>8 DEF outbox
    <2> QED BY <2>1, <2>3, <2>4, <2>5, <2>6, <2>7, <2>8 DEF OutboxNext, WorkerStep
<1>2. TypeOK /\ [OutboxNext]_outbox => [Fenced]_outbox
    BY <1>1
<1>3. OutboxSpec => [][Fenced]_outbox
    BY <1>2, InitType, StepType, PTL DEF OutboxSpec
<1> QED BY <1>3 DEF OutcomesAreFenced, Outcomes

(* While a lease lasts and its worker goes on, polls, operators, requests and
   workers with an older claim leave the row alone
   (memory_outbox.py:166-198, 245-257, memory.py:393-408). *)
THEOREM LeaseRespect == OutboxSpec => LeaseIsRespected
<1> DEFINE Respect ==
        \A w \in Workers, i \in Items :
          (/\ claim[w] = [item |-> i, gen |-> gen[i]] /\ claim'[w] = claim[w]
           /\ status[i] = "leased" /\ left[i] >= 0)
            => status'[i] = "leased" /\ gen'[i] = gen[i]
<1>1. OutboxInv /\ [OutboxNext]_outbox => Respect
    <2> SUFFICES ASSUME OutboxInv, [OutboxNext]_outbox,
                        NEW w \in Workers, NEW i \in Items,
                        claim[w] = [item |-> i, gen |-> gen[i]], claim'[w] = claim[w],
                        status[i] = "leased", left[i] >= 0
                 PROVE  status'[i] = "leased" /\ gen'[i] = gen[i]
        OBVIOUS
    <2> TypeOK /\ ClaimsDiffer
        BY DEF OutboxInv
    <2>0. Running(w)
        BY DEF TypeOK, Running
    <2>1. ASSUME NEW v \in Workers,
                 MarkSucceeded(v) \/ \E permanent \in BOOLEAN : MarkFailed(v, permanent)
          PROVE  status'[i] = status[i] /\ gen'[i] = gen[i]
        <3>1. CASE UNCHANGED rows
            BY <3>1 DEF rows
        <3>2. CASE /\ Finish(v) /\ Holds(v)
                   /\ \E outcome \in Outcomes : Record(claim[v].item, outcome)
            <4>1. Running(v) /\ claim[v].item \in Items /\ claim'[v] = NoClaim
                  /\ claim[v] = [item |-> claim[v].item, gen |-> gen[claim[v].item]]
                BY <3>2, HolderClaim DEF Finish, Running
            <4>2. v # w
                BY <4>1 DEF NoClaim
            <4>3. claim[v].item # i
                BY <2>0, <4>1, <4>2 DEF ClaimsDiffer
            <4> QED BY <3>2, <4>1, <4>3 DEF Record, TypeOK
        <3> QED BY <2>1, <3>1, <3>2, MarkEffect
    <2>2. CASE UNCHANGED rows
        BY <2>2 DEF rows
    <2>3. ASSUME NEW k \in Items, Post(k) \/ Retry(k)
          PROVE  status'[i] = status[i] /\ gen'[i] = gen[i]
        BY <2>3 DEF Post, Retry, Retriable, TypeOK
    <2>4. ASSUME NEW S \in SUBSET Waiting, SettleElsewhere(S)
          PROVE  status'[i] = status[i] /\ gen'[i] = gen[i]
        BY <2>4 DEF SettleElsewhere, Waiting, TypeOK
    <2>5. ASSUME NEW v \in Workers, NEW k \in Items, Claim(v, k)
          PROVE  status'[i] = status[i] /\ gen'[i] = gen[i]
        BY <2>5 DEF Claim, Eligible, TypeOK
    <2>6. CASE Tick \/ \E v \in Workers : Renew(v)
        BY <2>6 DEF Tick, Renew
    <2>7. CASE \E v \in Workers : Poll(v) \/ Crash(v) \/ \E k \in Items : Skip(v, k)
        BY <2>2, <2>7 DEF Poll, Crash, Skip
    <2>8. CASE UNCHANGED outbox
        BY <2>2, <2>8 DEF outbox
    <2> QED BY <2>1, <2>3, <2>4, <2>5, <2>6, <2>7, <2>8 DEF OutboxNext, WorkerStep
<1>2. OutboxInv /\ [OutboxNext]_outbox => [Respect]_outbox
    BY <1>1
<1>3. OutboxSpec => [][Respect]_outbox
    BY <1>2, OutboxInvariant, PTL DEF OutboxSpec
<1> QED BY <1>3 DEF LeaseIsRespected
-----------------------------------------------------------------------------
(* The refinement.  WorkItem(w) is what the instance of FencedWork in
   MemoryOutbox takes for the item a worker works on. *)

WorkItem == [w \in Workers |-> claim[w].item]

(* Steps in which each row keeps its generation and its leasehood, and each
   worker its claim. *)
LEMMA KeptStutters ==
    ASSUME TypeOK, \A i \in Items : gen'[i] = gen[i],
           status' = status, pc' = pc \/ \A w \in Workers :
               pc'[w] = "running" <=> pc[w] = "running",
           claim' = claim
    PROVE  UNCHANGED <<RowState, WorkItem, Current>>
<1>1. RowState' = RowState /\ WorkItem' = WorkItem
    BY DEF RowState, WorkItem
<1>2. Current' = Current
    BY DEF Current, Holds, TypeOK
<1> QED BY <1>1, <1>2

(* Rows that somebody else than a worker settles or reopens. *)
LEMMA DecideRows ==
    ASSUME TypeOK, NEW S \in SUBSET Items, NEW st \in {"queued", "succeeded"},
           \A i \in S : status[i] # "absent",
           status' = [i \in Items |-> IF i \in S THEN st ELSE status[i]],
           UNCHANGED <<gen, workers>>
    PROVE  Fence!FencedNext
<1> USE DEF TypeOK, workers
<1> DEFINE o == IF st = "queued" THEN "open" ELSE "settled"
<1>1. RowState' = [i \in Items |-> IF i \in S THEN o ELSE RowState[i]]
    BY DEF RowState
<1>2. WorkItem' = WorkItem
    BY DEF WorkItem
<1>3. Current' = {v \in Current : WorkItem[v] \notin S}
    BY DEF Current, WorkItem, Holds
<1>4. \A i \in S : RowState[i] # "none"
    BY DEF RowState, Statuses, Open
<1>5. o \in {"open", "settled"}
    OBVIOUS
<1>6. Fence!Decide(S, o)
    BY <1>1, <1>2, <1>3, <1>4 DEF Fence!Decide, WorkItem
<1> QED BY <1>5, <1>6 DEF Fence!FencedNext

(* A claim takes its row from whoever held it: their generation is older. *)
LEMMA TakeRow ==
    ASSUME OutboxInv, NEW w \in Workers, NEW i \in Items, Claim(w, i)
    PROVE  Fence!FencedNext
<1> USE DEF OutboxInv, TypeOK, Claim
<1>1. WorkItem[w] = None /\ WorkItem' = [WorkItem EXCEPT ![w] = i]
    BY DEF WorkItem
<1>2. RowState[i] \in {"open", "held"} /\ RowState' = [RowState EXCEPT ![i] = "held"]
    BY DEF RowState, Eligible
<1>3. Current' = {v \in Current : WorkItem[v] # i} \cup {w}
    <2>1. w \in Current'
        BY DEF Current, Holds
    <2>2. ASSUME NEW v \in Workers \ {w}
          PROVE  v \in Current' <=> v \in Current /\ WorkItem[v] # i
        <3>1. claim'[v] = claim[v] /\ pc'[v] = pc[v]
            OBVIOUS
        <3>2. CASE pc[v] = "running" /\ claim[v].item = i
            <4>1. claim[v].gen <= gen[i] /\ gen'[i] = gen[i] + 1
                BY <3>2 DEF ClaimsKnown, Running
            <4>2. v \notin Current'
                BY <3>1, <3>2, <4>1 DEF Current, Holds
            <4> QED BY <4>2, <3>2 DEF WorkItem
        <3>3. CASE pc[v] = "running" /\ claim[v].item # i
            <4>1. /\ claim[v].item \in Items
                  /\ gen'[claim[v].item] = gen[claim[v].item]
                  /\ status'[claim[v].item] = status[claim[v].item]
                BY <3>3
            <4> QED BY <4>1, <3>1, <3>3 DEF Current, Holds, WorkItem
        <3>4. CASE pc[v] # "running"
            BY <3>1, <3>4 DEF Current
        <3> QED BY <3>2, <3>3, <3>4
    <2>3. Current' \subseteq Workers /\ Current \subseteq Workers
        BY DEF Current
    <2> QED BY <2>1, <2>2, <2>3
<1>4. Fence!Take(w, i)
    BY <1>1, <1>2, <1>3 DEF Fence!Take, WorkItem
<1> QED BY <1>4 DEF Fence!FencedNext

(* What leaves the other workers and their rows alone takes one worker out. *)
LEMMA OneLess ==
    ASSUME OutboxInv, NEW w \in Workers,
           pc'[w] # "running", claim' = [claim EXCEPT ![w] = NoClaim],
           \A v \in Workers \ {w} : pc'[v] = pc[v],
           gen' = gen,
           \/ status' = status
           \/ /\ w \in Current
              /\ \A i \in Items \ {claim[w].item} : status'[i] = status[i]
              /\ status'[claim[w].item] # "leased"
    PROVE  Current' = Current \ {w} /\ WorkItem' = [WorkItem EXCEPT ![w] = None]
<1> USE DEF OutboxInv, TypeOK
<1>1. WorkItem' = [WorkItem EXCEPT ![w] = None]
    BY DEF WorkItem, NoClaim
<1>2. ASSUME NEW v \in Workers \ {w}
      PROVE  v \in Current' <=> v \in Current
    <2>1. claim'[v] = claim[v] /\ pc'[v] = pc[v]
        OBVIOUS
    <2>2. CASE pc[v] = "running"
        <3>1. claim[v].item \in Items
            BY <2>2
        <3>2. CASE status'[claim[v].item] = status[claim[v].item]
            BY <2>1, <3>1, <3>2 DEF Current, Holds
        <3>3. CASE status'[claim[v].item] # status[claim[v].item]
            <4>1. /\ w \in Current /\ claim[v].item = claim[w].item
                  /\ status'[claim[w].item] # "leased"
                BY <3>1, <3>3
            <4>2. v \notin Current'
                BY <2>1, <4>1 DEF Current, Holds
            <4>3. v \notin Current
                <5>1. ASSUME v \in Current PROVE FALSE
                    <6>1. claim[v].gen = claim[w].gen /\ Running(v) /\ Running(w)
                        BY <4>1, <5>1 DEF Current, Holds, Running
                    <6>2. claim[v] = claim[w]
                        BY <6>1, <4>1
                    <6> QED BY <6>1, <6>2 DEF ClaimsDiffer
                <5> QED BY <5>1
            <4> QED BY <4>2, <4>3
        <3> QED BY <3>2, <3>3
    <2>3. CASE pc[v] # "running"
        BY <2>1, <2>3 DEF Current
    <2> QED BY <2>2, <2>3
<1>3. Current' \subseteq Workers \ {w} /\ Current \subseteq Workers
    BY DEF Current
<1> QED BY <1>1, <1>2, <1>3

(* An outcome is recorded by a current worker, or not at all. *)
LEMMA MarkStep ==
    ASSUME OutboxInv, NEW w \in Workers,
           MarkSucceeded(w) \/ \E permanent \in BOOLEAN : MarkFailed(w, permanent)
    PROVE  Fence!FencedNext
<1> USE DEF OutboxInv, TypeOK
<1>1. Finish(w)
    BY MarkEffect
<1>2. /\ pc[w] = "running" /\ pc'[w] # "running"
      /\ \A v \in Workers \ {w} : pc'[v] = pc[v]
      /\ claim' = [claim EXCEPT ![w] = NoClaim]
      /\ claim[w].item \in Items
    BY <1>1 DEF Finish, NextCandidate
<1>3. CASE UNCHANGED rows
    <2>1. Fence!Drop(w)
        BY <1>2, <1>3, OneLess DEF rows, Fence!Drop, RowState, WorkItem
    <2> QED BY <2>1 DEF Fence!FencedNext
<1>4. ASSUME Holds(w), NEW outcome \in Outcomes, Record(claim[w].item, outcome)
      PROVE  Fence!FencedNext
    <2> DEFINE i == claim[w].item
               o == IF outcome = "failed" THEN "open" ELSE "settled"
    <2>1. w \in Current /\ WorkItem[w] = i
        BY <1>2, <1>4 DEF Current, WorkItem
    <2>2. status' = [status EXCEPT ![i] = outcome] /\ gen' = gen
        BY <1>4 DEF Record
    <2>3. Current' = Current \ {w} /\ WorkItem' = [WorkItem EXCEPT ![w] = None]
        <3>1. /\ \A k \in Items \ {claim[w].item} : status'[k] = status[k]
              /\ status'[claim[w].item] # "leased"
            BY <1>2, <2>2 DEF Outcomes
        <3> QED BY <1>2, <2>1, <2>2, <3>1, OneLess
    <2>4. RowState' = [RowState EXCEPT ![i] = o]
        BY <1>2, <2>2 DEF RowState, Outcomes
    <2>5. o \in {"open", "settled"}
        OBVIOUS
    <2>6. Fence!Deliver(w, i, o)
        BY <2>1, <2>3, <2>4 DEF Fence!Deliver, WorkItem
    <2> QED BY <1>2, <2>5, <2>6 DEF Fence!FencedNext
<1> QED BY <1>3, <1>4, MarkEffect

LEMMA StepRefines ==
    OutboxInv /\ [OutboxNext]_outbox
        => [Fence!FencedNext]_<<RowState, WorkItem, Current>>
<1> SUFFICES ASSUME OutboxInv, [OutboxNext]_outbox
             PROVE  Fence!FencedNext \/ UNCHANGED <<RowState, WorkItem, Current>>
    OBVIOUS
<1> USE DEF OutboxInv, TypeOK
<1>1. ASSUME NEW i \in Items, Post(i), UNCHANGED <<workers, faults>>
      PROVE  Fence!FencedNext
    <2> USE <1>1 DEF Post, workers
    <2>1. RowState[i] = "none" /\ RowState' = [RowState EXCEPT ![i] = "open"]
        BY DEF RowState
    <2>2. WorkItem' = WorkItem
        BY DEF WorkItem
    <2>3. Current' = Current
        BY DEF Current, Holds
    <2> QED BY <2>1, <2>2, <2>3 DEF Fence!FencedNext, Fence!Offer, WorkItem
<1>2. ASSUME NEW S \in SUBSET Waiting, SettleElsewhere(S), UNCHANGED <<workers, faults>>
      PROVE  Fence!FencedNext
    <2>1. S \in SUBSET Items /\ \A i \in S : status[i] # "absent"
        BY <1>2 DEF Waiting
    <2>2. /\ status' = [i \in Items |-> IF i \in S THEN "succeeded" ELSE status[i]]
          /\ UNCHANGED <<gen, workers>>
        BY <1>2 DEF SettleElsewhere
    <2> QED BY <2>1, <2>2, DecideRows
<1>3. ASSUME NEW i \in Items, Retry(i)
      PROVE  Fence!FencedNext
    <2>1. {i} \in SUBSET Items /\ \A k \in {i} : status[k] # "absent"
        BY <1>3 DEF Retry, Retriable
    <2>2. /\ status' = [k \in Items |-> IF k \in {i} THEN "queued" ELSE status[k]]
          /\ UNCHANGED <<gen, workers>>
        BY <1>3 DEF Retry
    <2> QED BY <2>1, <2>2, DecideRows
<1>4. ASSUME NEW w \in Workers, NEW i \in Items, Claim(w, i)
      PROVE  Fence!FencedNext
    BY <1>4, TakeRow
<1>5. ASSUME NEW w \in Workers,
             MarkSucceeded(w) \/ \E permanent \in BOOLEAN : MarkFailed(w, permanent)
      PROVE  Fence!FencedNext
    BY <1>5, MarkStep
<1>6. ASSUME NEW w \in Workers, Crash(w)
      PROVE  Fence!FencedNext
    <2>1. /\ pc'[w] # "running" /\ claim' = [claim EXCEPT ![w] = NoClaim]
          /\ \A v \in Workers \ {w} : pc'[v] = pc[v]
          /\ UNCHANGED <<status, gen>>
        BY <1>6 DEF Crash, rows
    <2>2. Fence!Drop(w)
        BY <2>1, OneLess DEF Fence!Drop, RowState, WorkItem
    <2> QED BY <2>2 DEF Fence!FencedNext
<1>7. ASSUME NEW w \in Workers, Poll(w) \/ \E i \in Items : Skip(w, i)
      PROVE  UNCHANGED <<RowState, WorkItem, Current>>
    <2>1. /\ UNCHANGED rows /\ claim' = claim
          /\ \A v \in Workers : pc'[v] = "running" <=> pc[v] = "running"
        BY <1>7 DEF Poll, Skip, NextCandidate
    <2> QED BY <2>1, KeptStutters DEF rows
<1>8. CASE Tick \/ \E w \in Workers : Renew(w)
    BY <1>8, KeptStutters DEF Tick, Renew, workers
<1>9. CASE UNCHANGED outbox
    BY <1>9, KeptStutters DEF outbox, rows, workers
<1> QED
    BY <1>1, <1>2, <1>3, <1>4, <1>5, <1>6, <1>7, <1>8, <1>9 DEF OutboxNext, WorkerStep

(* The outbox implements FencedWork for any number of rows and workers and any
   pattern of crashes, missed heartbeats, operator retries and rows settled on
   the side (memory_outbox.py:58-257, memory.py:393-408). *)
THEOREM OutboxIsFencedWork == OutboxSpec => ImplementsFencedWork
<1>1. OutboxInit => Fence!FencedInit
    BY DEF OutboxInit, Fence!FencedInit, RowState, Current, NoClaim
<1>2. OutboxInv /\ [OutboxNext]_outbox
        => [Fence!FencedNext]_<<RowState, WorkItem, Current>>
    BY StepRefines
<1> QED
    BY <1>1, <1>2, OutboxInvariant, PTL
       DEF OutboxSpec, ImplementsFencedWork, Fence!FencedSpec, Fence!work_vars, WorkItem
=============================================================================

----------------------- MODULE MemoryProjectionProofs -----------------------
(***************************************************************************)
(* The outbox as the memory service and the projector use it keeps to the  *)
(* protocol of MemoryOutbox, so what is proved of the outbox holds of it.  *)
(*                                                                         *)
(* The copy that the worker alone writes is right once all rows succeeded: *)
(* until it shows the record there is a row whose handler has yet to read  *)
(* the record, or one that has read it and will write (Catching).          *)
(***************************************************************************)
EXTENDS MemoryProjection, MemoryOutboxProofs, FiniteSetTheorems

(* A request adds a row, or settles rows that wait, or does not touch the
   outbox (memory.py:298-447). *)
LEMMA RequestKeepsProtocol ==
    ASSUME NEW r \in Requests, RequestStep(r)
    PROVE  OutboxNext \/ UNCHANGED outbox
<1>1. CASE Create(r) \/ Update(r)
    <2>1. PICK i \in Items : Post(i)
        BY <1>1 DEF Create, Update, Append
    <2>2. UNCHANGED <<workers, faults>>
        BY <1>1 DEF Create, Update
    <2> QED BY <2>1, <2>2 DEF OutboxNext
<1>2. CASE Delete(r)
    <2>1. UNCHANGED rows \/ \E i \in Items : Post(i)
        BY <1>2 DEF Delete, Append
    <2>2. UNCHANGED <<workers, faults>>
        BY <1>2 DEF Delete
    <2> QED BY <2>1, <2>2 DEF OutboxNext, outbox
<1>3. CASE FastBind(r)
    <2>1. SettleElsewhere(Waiting) /\ UNCHANGED <<workers, faults>>
        BY <1>3 DEF FastBind
    <2> QED BY <2>1 DEF OutboxNext
<1>4. CASE \/ Conflict(r) \/ FastUpsert(r) \/ FastErase(r) \/ FastUnbind(r)
           \/ FastFails(r)
    BY <1>4 DEF Conflict, FastUpsert, FastErase, FastUnbind, FastFails
<1> QED BY <1>1, <1>2, <1>3, <1>4 DEF RequestStep

(* The worker does its steps of run_once, whatever its handler does in between
   (memory_outbox.py:58-113). *)
LEMMA WorkerKeepsProtocol ==
    ASSUME NEW w \in Workers, WorkerGoesOn(w) \/ RunAborts(w) \/ ProcessCrash(w)
    PROVE  OutboxNext \/ UNCHANGED outbox
<1>1. CASE Between(w) \/ Start(w)
    <2>1. Poll(w) \/ \E i \in Items : Claim(w, i) \/ Skip(w, i)
        BY <1>1 DEF Between, Start
    <2> QED BY <2>1 DEF OutboxNext, WorkerStep
<1>2. CASE HandlerRead \/ HandlerBindings \/ HandlerApply
    BY <1>2 DEF HandlerRead, HandlerBindings, HandlerApply
<1>3. CASE Succeed(w)
    BY <1>3 DEF Succeed, OutboxNext, WorkerStep
<1>4. CASE Failed(w)
    BY <1>4 DEF Failed, OutboxNext, WorkerStep
<1>5. CASE RunAborts(w) \/ ProcessCrash(w)
    BY <1>5 DEF RunAborts, ProcessCrash, OutboxNext
<1> QED BY <1>1, <1>2, <1>3, <1>4, <1>5 DEF WorkerGoesOn

LEMMA NextKeepsProtocol == [Next]_vars => [OutboxNext]_outbox
<1> SUFFICES ASSUME [Next]_vars PROVE OutboxNext \/ UNCHANGED outbox
    OBVIOUS
<1>1. ASSUME NEW r \in Requests, NEW op \in Ops, Load(r, op)
      PROVE  UNCHANGED outbox
    BY <1>1 DEF Load
<1>2. CASE Passes
    BY <1>2 DEF Passes, OutboxNext
<1>3. CASE UNCHANGED vars
    BY <1>3 DEF vars
<1> QED BY <1>1, <1>2, <1>3, RequestKeepsProtocol, WorkerKeepsProtocol DEF Next

(* The memory service, its fast path and the projector (memory.py:298-447,
   memory_provider_projector.py:25-139) use the outbox by its protocol: every
   step of theirs is a step of MemoryOutbox or leaves the outbox alone. *)
THEOREM ProjectionKeepsProtocol == Spec => OutboxSpec
<1>1. Init => OutboxInit
    BY DEF Init
<1> QED BY <1>1, NextKeepsProtocol, PTL DEF Spec, OutboxSpec

(* With the real producers and the real handler, too, a row gets its outcome
   only from its latest claim (memory_outbox.py:188-239). *)
THEOREM ProjectionOutcomesAreFenced == Spec => OutcomesAreFenced
BY ProjectionKeepsProtocol, OutcomeFencing

-----------------------------------------------------------------------------
(* What the copy depends on.                                               *)

\* Steps of the handler after it has read the record.
HasRead == hpc \in {"bindings", "apply", "report"}

\* The worker is never overtaken: there is no other.
HolderHolds == \A w \in Workers : pc[w] = "running" => Holds(w)

\* There is a row for every revision.
RowsForRevisions == rev \in Nat /\ \A k \in 1..rev : status[k] # "absent"

\* What requests and the handler have read is a revision there was.
MindsAreOld ==
    /\ \A r \in Requests : /\ mind[r].rev <= rev
                           /\ rpc[r] \notin {"idle", "erase", "unbind"} => mind[r].rev # 0
                           /\ rpc[r] = "idle" => mind[r] = NoMind
    /\ saw.rev <= rev

\* A copy that only the worker serves is left alone by requests.
RequestsStayOff ==
    ~fast => \A r \in Requests : rpc[r] \in {"idle", "commit"}

\* The record is deleted with its first tombstone.
TombsDelete == tombs \subseteq 1..rev /\ (tombs # {} => canon = 0)

RecordInv ==
    /\ ProjectionTypeOK /\ HolderHolds /\ RowsForRevisions /\ MindsAreOld
    /\ RequestsStayOff /\ TombsDelete

\* No handler has failed, and no process died.
Clean == faults = 0 /\ \A i \in Items : attempts[i] = 0

\* A row that is not settled well, and whose handler has not read the record.
Unread ==
    \E i \in Items :
        /\ status[i] \notin {"absent", "succeeded"}
        /\ HasRead => \A w \in Workers : claim[w].item # i

\* The copy shows the record, or is about to.
Catching ==
    \/ Unread
    \/ hpc \in {"bindings", "apply"} /\ saw.rev = canon
    \/ file = canon /\ (HasRead => saw.rev = canon)

\* A copy has an open binding, which the handler that removes it will find.
CopyIsBound ==
    /\ file # 0 /\ hpc # "report" => \E k \in Revs : bind[k] = "open"
    /\ hpc = "apply" /\ saw.rev = 0 /\ file # 0 => saw.binds # {}
    /\ hpc = "report" => file = saw.rev

MirrorInv ==
    /\ ~fast /\ (canon # 0 \/ Clean) => Catching
    /\ ~fast /\ Clean => CopyIsBound


LEMMA OnlyWorker == \A v, w \in Workers : v = w
BY FS_Singleton, OutboxAssumption, ProjectionAssumption

LEMMA ItemsAreNumbers ==
    /\ Items \subseteq Nat \ {0}
    /\ \A i \in Items, k \in Nat \ {0} : k <= i => k \in Items
<1>1. Cardinality(Items) \in Nat /\ Items = 1..Cardinality(Items)
    BY FS_CardinalityType, OutboxAssumption, ProjectionAssumption
<1> QED BY <1>1

\* A new row is the first free one, so there is one for the next revision.
LEMMA AppendedRow ==
    ASSUME RecordInv, Append
    PROVE  /\ rev + 1 \in Revs
           /\ \E i \in Items : Post(i) /\ i > rev
           /\ \A k \in 1..(rev + 1) : status'[k] # "absent"
<1>1. PICK i \in Items : Post(i) /\ \A k \in 1..(i - 1) : status[k] # "absent"
    BY DEF Append
<1>2. rev \in Nat /\ i \in Nat \ {0} /\ i \notin 1..rev
    BY <1>1, ItemsAreNumbers DEF RecordInv, RowsForRevisions, Post
<1>3. rev + 1 <= i /\ rev + 1 \in Nat \ {0} /\ i > rev
    BY <1>2
<1>4. rev + 1 \in Revs
    BY <1>3, ItemsAreNumbers DEF Revs
<1>5. \A k \in 1..(rev + 1) : status[k] # "absent" \/ k = i
    BY <1>1, <1>2, <1>3 DEF RecordInv, RowsForRevisions
<1>6. \A k \in 1..(rev + 1) : k \in Items
    BY <1>2, <1>3, ItemsAreNumbers
<1>7. \A k \in 1..(rev + 1) : status'[k] # "absent"
    BY <1>1, <1>5, <1>6 DEF Post, RecordInv, ProjectionTypeOK, TypeOK
<1> QED BY <1>1, <1>3, <1>4, <1>7

\* Rows are never taken away.
LEMMA RowsStay ==
    ASSUME RecordInv, [Next]_vars, NEW k \in Items, status[k] # "absent"
    PROVE  status'[k] # "absent"
<1>1. TypeOK /\ [OutboxNext]_outbox
    BY NextKeepsProtocol DEF RecordInv, ProjectionTypeOK
<1>2. ASSUME NEW i \in Items, Post(i) \/ Retry(i) \/ \E w \in Workers : Claim(w, i)
      PROVE  status'[k] # "absent"
    BY <1>1, <1>2 DEF TypeOK, Post, Retry, Claim
<1>3. ASSUME NEW w \in Workers, MarkSucceeded(w) \/ \E permanent \in BOOLEAN : MarkFailed(w, permanent)
      PROVE  status'[k] # "absent"
    BY <1>1, <1>3 DEF TypeOK, MarkSucceeded, MarkFailed, Record, rows
<1>4. ASSUME NEW w \in Workers,
             \/ Poll(w) \/ Renew(w) \/ Crash(w) \/ Tick \/ UNCHANGED outbox
             \/ \E i \in Items : Skip(w, i)
      PROVE  status'[k] # "absent"
    BY <1>4 DEF Poll, Skip, Renew, Crash, Tick, rows, outbox
<1>5. ASSUME NEW S \in SUBSET Waiting, SettleElsewhere(S)
      PROVE  status'[k] # "absent"
    BY <1>5 DEF SettleElsewhere
<1>6. Tick \/ UNCHANGED outbox => status'[k] # "absent"
    BY DEF Tick, outbox, rows
<1> QED BY <1>1, <1>2, <1>3, <1>4, <1>5, <1>6 DEF OutboxNext, WorkerStep

-----------------------------------------------------------------------------
(* Steps keep RecordInv.                                                   *)

MindTypes ==
    [op : {"none", "create", "update", "delete"}, rev : Revs \cup {0}, ref : BOOLEAN]

LEMMA MindType ==
    ASSUME NEW m \in MindTypes, NEW n \in Revs \cup {0}
    PROVE  [m EXCEPT !.rev = n] \in MindTypes /\ [m EXCEPT !.rev = n].rev = n
BY DEF MindTypes

LEMMA NoMindType == NoMind \in MindTypes /\ NoMind.rev = 0
BY DEF NoMind, MindTypes

LEMMA RecordNumbers ==
    ASSUME RecordInv
    PROVE  /\ rpc \in [Requests -> {"idle", "commit", "upsert", "bind", "erase", "unbind"}]
           /\ mind \in [Requests -> MindTypes]
           /\ \A t \in Requests : mind[t].rev \in Nat
           /\ saw.rev \in Nat /\ rev \in Nat /\ file \in Nat /\ canon \in Nat
<1>1. /\ rpc \in [Requests -> {"idle", "commit", "upsert", "bind", "erase", "unbind"}]
      /\ mind \in [Requests -> MindTypes] /\ rev \in Nat
      /\ saw.rev \in Revs \cup {0} /\ file \in 0..rev /\ canon \in {0, rev}
    BY DEF RecordInv, ProjectionTypeOK, MindTypes, RowsForRevisions
<1>2. Revs \cup {0} \subseteq Nat
    BY ItemsAreNumbers DEF Revs
<1>3. \A t \in Requests : mind[t].rev \in Nat
    BY <1>1, <1>2 DEF MindTypes
<1>4. file \in Nat /\ canon \in Nat /\ saw.rev \in Nat
    BY <1>1, <1>2
<1> QED BY <1>1, <1>3, <1>4

\* What a request's step does to what is known of it.
LEMMA RequestGoes ==
    ASSUME RecordInv, NEW r \in Requests, NEW p, NEW m \in MindTypes,
           p \in {"idle", "commit", "upsert", "bind", "erase", "unbind"},
           rpc' = [rpc EXCEPT ![r] = p], mind' = [mind EXCEPT ![r] = m],
           rev' \in Nat, rev <= rev', m.rev <= rev',
           p \notin {"idle", "erase", "unbind"} => m.rev # 0,
           p = "idle" => m = NoMind,
           ~fast => p \in {"idle", "commit"},
           UNCHANGED <<fast, saw>>
    PROVE  /\ rpc' \in [Requests -> {"idle", "commit", "upsert", "bind", "erase", "unbind"}]
           /\ mind' \in [Requests -> MindTypes]
           /\ MindsAreOld' /\ RequestsStayOff'
<1>1. /\ rpc \in [Requests -> {"idle", "commit", "upsert", "bind", "erase", "unbind"}]
      /\ mind \in [Requests -> MindTypes]
      /\ \A t \in Requests : mind[t].rev \in Nat
      /\ saw.rev \in Nat /\ rev \in Nat
    BY RecordNumbers
<1>2. /\ rpc' \in [Requests -> {"idle", "commit", "upsert", "bind", "erase", "unbind"}]
      /\ mind' \in [Requests -> MindTypes]
    BY <1>1
<1>3. MindsAreOld'
    BY <1>1 DEF MindsAreOld, RecordInv
<1>4. RequestsStayOff'
    BY <1>1 DEF RequestsStayOff, RecordInv
<1> QED BY <1>2, <1>3, <1>4

\* Requests that change nothing of the record but its references and bindings.
LEMMA RequestsAside ==
    ASSUME RecordInv, NEW r \in Requests, [Next]_vars,
           \/ \E op \in Ops : Load(r, op)
           \/ Conflict(r) \/ FastUpsert(r) \/ FastBind(r) \/ FastErase(r)
           \/ FastUnbind(r) \/ FastFails(r)
    PROVE  RecordInv'
<1>1. TypeOK'
    BY NextKeepsProtocol, StepType DEF RecordInv, ProjectionTypeOK
<1>2. /\ UNCHANGED <<fast, rev, canon, tombs, handler, workers>>
      /\ \A i \in Items : status'[i] = status[i] \/ (status[i] # "leased" /\ status'[i] = "succeeded")
      /\ gen' = gen
    BY DEF Load, Conflict, FastUpsert, FastBind, FastErase, FastUnbind, FastFails,
           SettleElsewhere, Waiting, outbox, rows, record, RecordInv, ProjectionTypeOK, TypeOK
<1>3. PICK p \in {"idle", "commit", "upsert", "bind", "erase", "unbind"}, m \in MindTypes :
        /\ rpc' = [rpc EXCEPT ![r] = p] /\ mind' = [mind EXCEPT ![r] = m]
        /\ m.rev <= rev /\ (p \notin {"idle", "erase", "unbind"} => m.rev # 0)
        /\ p = "idle" => m = NoMind
        /\ ~fast => p \in {"idle", "commit"}
    <2>1. CASE \E op \in Ops : Load(r, op)
        <3>1. PICK op \in Ops : Load(r, op)
            BY <2>1
        <3> DEFINE m == [op |-> op, rev |-> rev, ref |-> ref]
        <3>2. m \in MindTypes /\ m.rev = rev /\ rev # 0 /\ rev \in Nat
            BY <3>1, ProjectionAssumption DEF Load, MindTypes, RecordInv, ProjectionTypeOK, RowsForRevisions
        <3>3. rpc' = [rpc EXCEPT ![r] = "commit"] /\ mind' = [mind EXCEPT ![r] = m]
            BY <3>1 DEF Load
        <3> HIDE DEF m
        <3> m \in MindTypes
            BY <3>2
        <3> WITNESS "commit" \in {"idle", "commit", "upsert", "bind", "erase", "unbind"},
                    m \in MindTypes
        <3> QED BY <3>2, <3>3
    <2>2. CASE \/ Conflict(r) \/ FastBind(r) \/ FastUnbind(r) \/ FastFails(r)
        <3>1. rpc' = [rpc EXCEPT ![r] = "idle"] /\ mind' = [mind EXCEPT ![r] = NoMind]
            BY <2>2 DEF Conflict, FastBind, FastUnbind, FastFails, Goto
        <3>2. NoMind.rev <= rev
            BY NoMindType DEF RecordInv, RowsForRevisions
        <3> QED BY <3>1, <3>2, NoMindType
    <2>3. CASE FastUpsert(r) \/ FastErase(r)
        <3>1. /\ mind' = [mind EXCEPT ![r] = mind[r]] /\ mind[r] \in MindTypes /\ fast
              /\ mind[r].rev <= rev
            BY <2>3 DEF FastUpsert, FastErase, Goto, RecordInv, ProjectionTypeOK, MindTypes,
               RequestsStayOff, MindsAreOld
        <3>2. \/ rpc' = [rpc EXCEPT ![r] = "bind"] /\ mind[r].rev # 0
              \/ rpc' = [rpc EXCEPT ![r] = "unbind"]
            BY <2>3 DEF FastUpsert, FastErase, Goto, RecordInv, MindsAreOld
        <3> QED BY <3>1, <3>2
    <2> QED BY <2>1, <2>2, <2>3
<1>4. /\ rpc' \in [Requests -> {"idle", "commit", "upsert", "bind", "erase", "unbind"}]
      /\ mind' \in [Requests -> MindTypes]
      /\ MindsAreOld' /\ RequestsStayOff'
    <2>1. rev' = rev /\ rev \in Nat
        BY <1>2 DEF RecordInv, RowsForRevisions
    <2>2. UNCHANGED <<fast, saw>> /\ rev <= rev'
        BY <1>2, <2>1 DEF handler
    <2>3. m.rev <= rev'
        BY <1>3, <2>1
    <2> QED BY <1>3, <2>1, <2>2, <2>3, RequestGoes
<1>5. ref' \in BOOLEAN /\ bind' \in [Revs -> {"absent", "open", "deleted"}]
    BY DEF Load, Conflict, FastUpsert, FastBind, FastErase, FastUnbind, FastFails, record,
           RecordInv, ProjectionTypeOK
<1>6. file' \in 0..rev
    <2>1. CASE FastUpsert(r)
        BY <2>1, RecordNumbers DEF FastUpsert, RecordInv, MindsAreOld
    <2>2. CASE ~FastUpsert(r)
        BY <2>2 DEF Load, Conflict, FastBind, FastErase, FastUnbind, FastFails, RecordInv,
           ProjectionTypeOK, RowsForRevisions
    <2> QED BY <2>1, <2>2
<1>7. ProjectionTypeOK'
    BY <1>1, <1>2, <1>4, <1>5, <1>6 DEF RecordInv, ProjectionTypeOK, MindTypes, handler, workers
<1>8. HolderHolds'
    BY <1>2 DEF RecordInv, ProjectionTypeOK, TypeOK, HolderHolds, Holds, workers
<1>9. RowsForRevisions'
    <2>1. \A k \in 1..rev : status'[k] # "absent"
        BY RowsStay, ItemsAreNumbers DEF RecordInv, RowsForRevisions, ProjectionTypeOK, Revs
    <2> QED BY <1>2, <2>1 DEF RecordInv, RowsForRevisions
<1>10. TombsDelete'
    BY <1>2 DEF RecordInv, TombsDelete
<1> QED BY <1>4, <1>7, <1>8, <1>9, <1>10 DEF RecordInv

\* A new revision of the record, or its end.
LEMMA ChangesRecord ==
    ASSUME RecordInv, NEW r \in Requests, [Next]_vars,
           Create(r) \/ Update(r) \/ Delete(r)
    PROVE  RecordInv'
<1>1. TypeOK'
    BY NextKeepsProtocol, StepType DEF RecordInv, ProjectionTypeOK
<1>2. /\ UNCHANGED <<fast, file, handler, workers>>
      /\ \A i \in Items : status'[i] = status[i] \/ (status[i] = "absent" /\ status'[i] = "queued")
      /\ gen' = gen
    BY DEF Create, Update, Delete, Append, Post, rows, RecordInv, ProjectionTypeOK, TypeOK
<1>3. rev' \in {rev, rev + 1} /\ rev' \in Revs \cup {0} /\ canon' \in {0, rev'}
    <2>1. CASE Create(r) \/ Update(r)
        <3>1. Append /\ rev' = rev + 1 /\ canon' = rev + 1
            BY <2>1 DEF Create, Update
        <3> QED BY <3>1, AppendedRow
    <2>2. CASE Delete(r)
        BY <2>2 DEF Delete, RecordInv, ProjectionTypeOK
    <2> QED BY <2>1, <2>2
<1>4. rev \in Nat /\ rev' \in Nat /\ rev <= rev'
    BY <1>3, RecordNumbers
<1>5. RowsForRevisions'
    <2>1. CASE Create(r) \/ Update(r)
        <3>1. Append /\ rev' = rev + 1
            BY <2>1 DEF Create, Update
        <3> QED BY <3>1, <1>4, AppendedRow DEF RowsForRevisions
    <2>2. CASE Delete(r)
        <3>1. rev' = rev
            BY <2>2 DEF Delete
        <3>2. \A k \in 1..rev : k \in Items /\ status'[k] # "absent"
            BY RowsStay, ItemsAreNumbers, <1>4 DEF RecordInv, RowsForRevisions, ProjectionTypeOK, Revs
        <3> QED BY <1>4, <3>1, <3>2 DEF RowsForRevisions
    <2> QED BY <2>1, <2>2
<1>6. PICK p \in {"idle", "upsert", "erase"}, m \in MindTypes :
        /\ rpc' = [rpc EXCEPT ![r] = p] /\ mind' = [mind EXCEPT ![r] = m]
        /\ m.rev <= rev' /\ (p = "upsert" => m.rev # 0)
        /\ p = "idle" => m = NoMind
        /\ ~fast => p = "idle"
    <2>0. NoMind.rev <= rev'
        BY <1>4, NoMindType
    <2>1. CASE (Create(r) \/ Update(r)) /\ ~fast
        BY <2>0, <2>1, NoMindType DEF Create, Update
    <2>2. CASE Create(r) /\ fast
        <3> DEFINE m == [op |-> "create", rev |-> 1, ref |-> FALSE]
        <3>1. rpc' = [rpc EXCEPT ![r] = "upsert"] /\ mind' = [mind EXCEPT ![r] = m] /\ rev' = 1
            BY <2>2 DEF Create
        <3>2. m \in MindTypes /\ m.rev = 1
            BY <3>1, <1>3 DEF MindTypes
        <3> HIDE DEF m
        <3> m \in MindTypes
            BY <3>2
        <3> WITNESS "upsert" \in {"idle", "upsert", "erase"}, m \in MindTypes
        <3> QED BY <2>2, <3>1, <3>2
    <2>3. CASE Update(r) /\ fast
        <3> DEFINE m == [mind[r] EXCEPT !.rev = rev + 1]
        <3>1. rpc' = [rpc EXCEPT ![r] = "upsert"] /\ mind' = [mind EXCEPT ![r] = m]
              /\ rev' = rev + 1
            BY <2>3 DEF Update, RecordInv, ProjectionTypeOK
        <3>2. m \in MindTypes /\ m.rev = rev + 1
            BY <3>1, <1>3, RecordNumbers, MindType
        <3> HIDE DEF m
        <3> m \in MindTypes
            BY <3>2
        <3> WITNESS "upsert" \in {"idle", "upsert", "erase"}, m \in MindTypes
        <3> QED BY <2>3, <3>1, <3>2, <1>4
    <2>4. CASE Delete(r)
        <3>1. CASE fast /\ mind[r].ref
            <4>1. /\ rpc' = [rpc EXCEPT ![r] = "erase"] /\ mind' = [mind EXCEPT ![r] = mind[r]]
                  /\ rev' = rev
                BY <2>4, <3>1 DEF Delete, Goto, RecordInv, ProjectionTypeOK
            <4>2. mind[r] \in MindTypes /\ mind[r].rev <= rev
                BY RecordNumbers DEF RecordInv, MindsAreOld
            <4> QED BY <3>1, <4>1, <4>2
        <3>2. CASE ~(fast /\ mind[r].ref)
            BY <2>0, <2>4, <3>2, NoMindType DEF Delete, Goto
        <3> QED BY <3>1, <3>2
    <2> QED BY <2>1, <2>2, <2>3, <2>4
<1>7. /\ rpc' \in [Requests -> {"idle", "commit", "upsert", "bind", "erase", "unbind"}]
      /\ mind' \in [Requests -> MindTypes]
      /\ MindsAreOld' /\ RequestsStayOff'
    <2>1. UNCHANGED <<fast, saw>>
        BY <1>2 DEF handler
    <2> QED BY <1>4, <1>6, <2>1, RequestGoes
<1>8. TombsDelete' /\ tombs' \subseteq Revs
    <2>1. CASE Create(r)
        <3>1. tombs' = tombs /\ rev = 0
            BY <2>1 DEF Create
        <3>2. tombs = {}
            BY <3>1 DEF RecordInv, TombsDelete
        <3> QED BY <3>1, <3>2 DEF TombsDelete
    <2>2. CASE Update(r)
        <3>1. tombs' = tombs /\ canon # 0
            BY <2>2 DEF Update
        <3>2. tombs = {}
            BY <3>1 DEF RecordInv, TombsDelete
        <3> QED BY <3>1, <3>2 DEF TombsDelete
    <2>3. CASE Delete(r)
        <3>1. tombs' = tombs \cup {mind[r].rev} /\ canon' = 0 /\ rev' = rev /\ rpc[r] = "commit"
            BY <2>3 DEF Delete
        <3>2. mind[r].rev \in 1..rev /\ mind[r].rev \in Revs
            BY <3>1, RecordNumbers DEF RecordInv, MindsAreOld, MindTypes
        <3> QED BY <3>1, <3>2 DEF RecordInv, TombsDelete, ProjectionTypeOK
    <2> QED BY <2>1, <2>2, <2>3
<1>9. ref' \in BOOLEAN /\ bind' \in [Revs -> {"absent", "open", "deleted"}]
    BY DEF Create, Update, Delete, RecordInv, ProjectionTypeOK
<1>10. ProjectionTypeOK'
    <2>1. file' \in 0..rev'
        BY <1>2, <1>4 DEF RecordInv, ProjectionTypeOK
    <2> QED BY <1>1, <1>2, <1>3, <1>7, <1>8, <1>9, <2>1
            DEF RecordInv, ProjectionTypeOK, MindTypes, handler, workers
<1>11. HolderHolds'
    BY <1>2 DEF RecordInv, ProjectionTypeOK, TypeOK, HolderHolds, Holds, workers
<1> QED BY <1>5, <1>7, <1>8, <1>10, <1>11 DEF RecordInv

\* The worker's steps: requests and the record stay, bindings are what Rebind makes.
WorkerStays == UNCHANGED <<fast, rev, canon, ref, tombs, requests>>

LEMMA WorkerOwns ==
    ASSUME RecordInv, [Next]_vars, WorkerStays,
           bind' \in [Revs -> {"absent", "open", "deleted"}], file' \in 0..rev,
           hpc' \in {"idle", "read", "bindings", "apply", "report"},
           saw' \in [rev : Revs \cup {0}, binds : SUBSET Revs], saw'.rev <= rev,
           \A w \in Workers : pc'[w] = "running" <=> hpc' # "idle",
           \A w \in Workers : pc'[w] = "running" => Holds(w)'
    PROVE  RecordInv'
<1> USE DEF WorkerStays
<1>1. TypeOK'
    BY NextKeepsProtocol, StepType DEF RecordInv, ProjectionTypeOK
<1>2. ProjectionTypeOK'
    BY <1>1 DEF RecordInv, ProjectionTypeOK, requests
<1>3. RowsForRevisions'
    <2>1. \A k \in 1..rev : status'[k] # "absent"
        BY RowsStay, ItemsAreNumbers DEF RecordInv, RowsForRevisions, ProjectionTypeOK, Revs
    <2> QED BY <2>1 DEF RecordInv, RowsForRevisions
<1>4. MindsAreOld' /\ RequestsStayOff' /\ TombsDelete'
    BY DEF RecordInv, MindsAreOld, RequestsStayOff, TombsDelete, requests
<1>5. HolderHolds'
    BY DEF HolderHolds
<1> QED BY <1>2, <1>3, <1>4, <1>5 DEF RecordInv

\* No worker is running once the only one is not, and the other way round.
LEMMA AlikeRunning ==
    ASSUME RecordInv, NEW w \in Workers
    PROVE  /\ \A v \in Workers : v = w
           /\ pc[w] = "running" <=> hpc # "idle"
           /\ pc[w] = "running" => Holds(w) /\ claim[w].item \in Items
BY OnlyWorker DEF RecordInv, ProjectionTypeOK, TypeOK, HolderHolds

LEMMA NoSawType ==
    NoSaw \in [rev : Revs \cup {0}, binds : SUBSET Revs] /\ NoSaw.rev = 0
BY DEF NoSaw

\* The worker ends with its row, and waits for the next one.
LEMMA Resting ==
    ASSUME RecordInv, NEW w \in Workers, [Next]_vars, WorkerStays,
           bind' \in [Revs -> {"absent", "open", "deleted"}],
           pc'[w] # "running", hpc' = "idle", saw' = NoSaw \/ saw' = saw, file' = file
    PROVE  RecordInv'
<1>1. /\ file' \in 0..rev
      /\ saw' \in [rev : Revs \cup {0}, binds : SUBSET Revs]
    BY NoSawType DEF RecordInv, ProjectionTypeOK
<1>2. saw'.rev <= rev
    BY NoSawType, RecordNumbers DEF RecordInv, MindsAreOld
<1>3. \A v \in Workers : pc'[v] # "running"
    BY OnlyWorker
<1> QED BY <1>1, <1>2, <1>3, WorkerOwns

LEMMA WorkerKeepsRecord ==
    ASSUME RecordInv, NEW w \in Workers,
           WorkerGoesOn(w) \/ RunAborts(w) \/ ProcessCrash(w) \/ Passes
    PROVE  RecordInv'
<1>0. [Next]_vars
    BY DEF Next
<1>1. CASE ProcessCrash(w)
    <2>1. TypeOK'
        BY <1>0, NextKeepsProtocol, StepType DEF RecordInv, ProjectionTypeOK
    <2>2. /\ UNCHANGED <<record, file, rows>> /\ pc' = [pc EXCEPT ![w] = "idle"]
          /\ hpc' = "idle" /\ saw' = NoSaw
          /\ rpc' = [r \in Requests |-> "idle"] /\ mind' = [r \in Requests |-> NoMind]
        BY <1>1 DEF ProcessCrash, Crash
    <2>3. \A v \in Workers : pc'[v] # "running"
        BY <2>2, OnlyWorker DEF RecordInv, ProjectionTypeOK, TypeOK
    <2>4. ProjectionTypeOK'
        BY <2>1, <2>2, <2>3, NoSawType, NoMindType
           DEF RecordInv, ProjectionTypeOK, record, MindTypes
    <2>5. MindsAreOld' /\ RequestsStayOff'
        BY <2>2, NoSawType, NoMindType, RecordNumbers DEF MindsAreOld, RequestsStayOff, record
    <2> QED BY <2>2, <2>3, <2>4, <2>5
            DEF RecordInv, HolderHolds, RowsForRevisions, TombsDelete, record, rows
<1>2. CASE RunAborts(w)
    <2>1. WorkerStays /\ pc'[w] # "running" /\ UNCHANGED <<bind, file>>
          /\ hpc' = "idle" /\ saw' = NoSaw
        BY <1>2 DEF RunAborts, Crash, WorkerStays, record, RecordInv, ProjectionTypeOK, TypeOK
    <2> QED BY <1>0, <2>1, Resting DEF RecordInv, ProjectionTypeOK
<1>3. CASE Failed(w)
    <2>1. WorkerStays /\ pc'[w] # "running" /\ UNCHANGED <<bind, file>>
          /\ hpc' = "idle" /\ saw' = NoSaw
        BY <1>3 DEF Failed, MarkFailed, Finish, NextCandidate, WorkerStays, record, RecordInv,
           ProjectionTypeOK, TypeOK
    <2> QED BY <1>0, <2>1, Resting DEF RecordInv, ProjectionTypeOK
<1>4. CASE Succeed(w)
    <2>1. WorkerStays /\ pc'[w] # "running" /\ UNCHANGED file
          /\ hpc' = "idle" /\ saw' = NoSaw
        BY <1>4 DEF Succeed, MarkSucceeded, Finish, NextCandidate, WorkerStays, record,
           RecordInv, ProjectionTypeOK, TypeOK
    <2>2. bind' \in [Revs -> {"absent", "open", "deleted"}]
        BY <1>4 DEF Succeed, Rebind, RecordInv, ProjectionTypeOK
    <2> QED BY <1>0, <2>1, <2>2, Resting
<1>5. CASE Between(w)
    <2>1. WorkerStays /\ pc'[w] # "running" /\ UNCHANGED <<bind, file, hpc, saw>>
          /\ pc[w] # "running"
        BY <1>5 DEF Between, Poll, Skip, NextCandidate, WorkerStays, record, handler,
           RecordInv, ProjectionTypeOK, TypeOK
    <2>2. hpc' = "idle"
        BY <2>1, AlikeRunning
    <2> QED BY <1>0, <2>1, <2>2, Resting DEF RecordInv, ProjectionTypeOK
<1>6. CASE Start(w)
    <2>1. PICK i \in Items : Claim(w, i)
        BY <1>6 DEF Start
    <2>2. WorkerStays /\ UNCHANGED <<bind, file, saw>> /\ hpc' = "read"
        BY <1>6 DEF Start, WorkerStays, record
    <2>3. pc'[w] = "running" /\ Holds(w)'
        BY <2>1 DEF Claim, Holds, RecordInv, ProjectionTypeOK, TypeOK
    <2> QED BY <1>0, <2>2, <2>3, WorkerOwns, OnlyWorker
            DEF RecordInv, ProjectionTypeOK, MindsAreOld
<1>7. CASE HandlerRead \/ HandlerBindings \/ HandlerApply
    <2>1. WorkerStays /\ UNCHANGED <<bind, outbox>> /\ hpc # "idle" /\ hpc' # "idle"
          /\ hpc' \in {"idle", "read", "bindings", "apply", "report"}
        BY <1>7 DEF HandlerRead, HandlerBindings, HandlerApply, WorkerStays, record
    <2>2. /\ saw' \in [rev : Revs \cup {0}, binds : SUBSET Revs]
          /\ saw'.rev <= rev /\ file' \in 0..rev
        <3>1. CASE HandlerRead
            BY <3>1, RecordNumbers DEF HandlerRead, RecordInv, ProjectionTypeOK
        <3>2. CASE HandlerBindings
            <4> DEFINE B == IF saw.rev # 0 THEN Highest(Bound)
                            ELSE {k \in Revs : bind[k] = "open"}
            <4>1. B \in SUBSET Revs /\ saw' = [saw EXCEPT !.binds = B] /\ file' = file
                BY <3>2 DEF HandlerBindings, Highest, Bound
            <4> HIDE DEF B
            <4> QED BY <4>1 DEF RecordInv, ProjectionTypeOK, MindsAreOld
        <3>3. CASE HandlerApply
            BY <3>3, RecordNumbers DEF HandlerApply, RecordInv, ProjectionTypeOK, MindsAreOld
        <3> QED BY <1>7, <3>1, <3>2, <3>3
    <2>3. \A v \in Workers : pc'[v] = pc[v] /\ (Holds(v)' <=> Holds(v))
        BY <2>1 DEF outbox, workers, rows, Holds
    <2> QED BY <1>0, <2>1, <2>2, <2>3, WorkerOwns DEF RecordInv, ProjectionTypeOK, HolderHolds
<1>8. CASE Passes
    <2>1. WorkerStays /\ UNCHANGED <<bind, file, hpc, saw, pc, claim, status, gen>>
        BY <1>8 DEF Passes, Tick, Renew, WorkerStays, record, handler, workers
    <2>2. \A v \in Workers : pc'[v] = pc[v] /\ (Holds(v)' <=> Holds(v))
        BY <2>1 DEF Holds
    <2> QED BY <1>0, <2>1, <2>2, WorkerOwns DEF RecordInv, ProjectionTypeOK, HolderHolds,
            MindsAreOld
<1> QED BY <1>1, <1>2, <1>3, <1>4, <1>5, <1>6, <1>7, <1>8 DEF WorkerGoesOn

LEMMA InitRecord == Init => RecordInv
<1> SUFFICES ASSUME Init PROVE RecordInv
    OBVIOUS
<1>1. TypeOK /\ \A w \in Workers : pc[w] = "idle"
    BY InitType DEF Init, OutboxInit
<1>2. ProjectionTypeOK
    <2>1. mind \in [Requests -> MindTypes] /\ saw \in [rev : Revs \cup {0}, binds : SUBSET Revs]
        BY NoSawType, NoMindType DEF Init
    <2>2. file \in 0..rev /\ canon \in {0, rev} /\ rev \in Revs \cup {0}
        BY DEF Init
    <2>3. /\ fast \in BOOLEAN /\ ref \in BOOLEAN /\ tombs \subseteq Revs
          /\ bind \in [Revs -> {"absent", "open", "deleted"}]
          /\ rpc \in [Requests -> {"idle", "commit", "upsert", "bind", "erase", "unbind"}]
          /\ hpc = "idle"
        BY DEF Init
    <2> QED BY <1>1, <2>1, <2>2, <2>3 DEF ProjectionTypeOK, MindTypes
<1> QED BY <1>1, <1>2, NoSawType, NoMindType DEF Init, RecordInv, HolderHolds, RowsForRevisions,
        MindsAreOld, RequestsStayOff, TombsDelete

LEMMA StepRecord == RecordInv /\ [Next]_vars => RecordInv'
<1> SUFFICES ASSUME RecordInv, [Next]_vars PROVE RecordInv'
    OBVIOUS
<1>1. CASE UNCHANGED vars
    BY <1>1 DEF vars, outbox, rows, workers, record, requests, handler, RecordInv,
       ProjectionTypeOK, TypeOK, HolderHolds, Holds, RowsForRevisions, MindsAreOld,
       RequestsStayOff, TombsDelete
<1>2. CASE \E r \in Requests : RequestStep(r) \/ \E op \in Ops : Load(r, op)
    BY <1>2, RequestsAside, ChangesRecord DEF RequestStep
<1>3. CASE \/ \E w \in Workers : WorkerGoesOn(w) \/ RunAborts(w) \/ ProcessCrash(w)
           \/ Passes
    <2>1. \E w \in Workers : TRUE
        BY FS_Singleton, ProjectionAssumption, OutboxAssumption
    <2> QED BY <1>3, <2>1, WorkerKeepsRecord
<1> QED BY <1>1, <1>2, <1>3 DEF Next

LEMMA RecordInvariant == Spec => []RecordInv
BY InitRecord, StepRecord, PTL DEF Spec

\* Every revision of a memory is a number for which there is a row, and what the
\* provider holds, requests plan and the handler has read are revisions there were
\* (memory.py:298-447, memory_provider_projector.py:25-139).
THEOREM ProjectionTypeCorrect == Spec => []ProjectionTypeOK
BY RecordInvariant, PTL DEF RecordInv

-----------------------------------------------------------------------------
(* Steps keep MirrorInv.                                                   *)

\* Failures leave a trace: once there was one, there was one for good.
LEMMA CleanBefore ==
    ASSUME RecordInv, [Next]_vars, Clean'
    PROVE  Clean
<1>1. TypeOK /\ [OutboxNext]_outbox
    BY NextKeepsProtocol DEF RecordInv, ProjectionTypeOK
<1>2. faults' = 0 => faults = 0
    BY <1>1, FaultsGrow
<1>3. \A i \in Items : attempts'[i] = attempts[i] \/ attempts'[i] = attempts[i] + 1
    <2>1. CASE attempts' = attempts
        BY <2>1
    <2>2. ASSUME NEW w \in Workers, \E permanent \in BOOLEAN : MarkFailed(w, permanent)
          PROVE  \A i \in Items : attempts'[i] = attempts[i] \/ attempts'[i] = attempts[i] + 1
        BY <1>1, <2>2 DEF MarkFailed, rows, TypeOK
    <2> QED BY <1>1, <2>1, <2>2 DEF OutboxNext, WorkerStep, Post, SettleElsewhere, Retry, Poll,
            Claim, Skip, MarkSucceeded, Finish, Renew, Crash, Tick, rows, outbox
<1>4. \A i \in Items : attempts[i] \in Nat
    BY <1>1 DEF TypeOK
<1> QED BY <1>2, <1>3, <1>4 DEF Clean

\* A row that has just been added is unread.
LEMMA NewIsUnread ==
    ASSUME RecordInv, RecordInv', NEW i \in Items, Post(i), UNCHANGED <<workers, handler>>
    PROVE  Unread'
<1>1. status[i] = "absent" /\ status'[i] = "queued"
    BY DEF Post, RecordInv, ProjectionTypeOK, TypeOK
<1>2. HasRead => \A w \in Workers : pc[w] = "running"
    BY DEF HasRead, RecordInv, ProjectionTypeOK
<1>3. \A w \in Workers : pc[w] = "running" => claim[w].item # i
    BY <1>1 DEF RecordInv, HolderHolds, Holds
<1> QED BY <1>1, <1>2, <1>3 DEF Unread, HasRead, workers, handler

\* Steps that leave the handler, the copy and the record as they are.
LEMMA CatchingStays ==
    ASSUME RecordInv, Catching, UNCHANGED <<canon, file, handler, claim>>,
           \A i \in Items : status'[i] = status[i] \/ status[i] \in {"absent", "succeeded"}
    PROVE  Catching'
<1>1. Unread => Unread'
    BY DEF Unread, HasRead, handler
<1> QED BY <1>1 DEF Catching, HasRead, handler

LEMMA BoundStays ==
    ASSUME RecordInv, CopyIsBound, UNCHANGED <<file, handler>>,
           \A k \in Revs : bind[k] = "open" => bind'[k] = "open"
    PROVE  CopyIsBound'
BY DEF CopyIsBound, handler

LEMMA RequestKeepsMirror ==
    ASSUME RecordInv, RecordInv', MirrorInv, [Next]_vars, NEW r \in Requests,
           RequestStep(r) \/ \E op \in Ops : Load(r, op)
    PROVE  MirrorInv'
<1> SUFFICES ASSUME ~fast PROVE MirrorInv'
    BY DEF MirrorInv, RequestStep, Create, Update, Conflict, Delete, FastUpsert, FastBind,
           FastErase, FastUnbind, FastFails, Load, record
<1>1. rpc[r] \in {"idle", "commit"}
    BY DEF RecordInv, RequestsStayOff
<1>2. CASE Conflict(r) \/ \E op \in Ops : Load(r, op)
    <2>1. UNCHANGED <<outbox, record, file, handler>>
        BY <1>2 DEF Conflict, Load
    <2>2. UNCHANGED <<fast, canon, bind, file, handler, claim, status>> /\ (Clean' <=> Clean)
        BY <2>1 DEF outbox, rows, workers, record, Clean
    <2> QED BY <2>2, CatchingStays, BoundStays DEF MirrorInv
<1>3. CASE Create(r) \/ Update(r)
    <2>1. PICK i \in Items : Post(i)
        BY <1>3, AppendedRow DEF Create, Update
    <2>2. UNCHANGED <<fast, bind, file, handler, workers>>
        BY <1>3 DEF Create, Update
    <2>3. Catching'
        BY <2>1, <2>2, NewIsUnread DEF Catching
    <2>4. CopyIsBound => CopyIsBound'
        BY <2>2, BoundStays
    <2> QED BY <2>2, <2>3, <2>4, CleanBefore DEF MirrorInv
<1>4. CASE Delete(r)
    <2>1. /\ UNCHANGED <<fast, file, handler, workers>> /\ canon' = 0
          /\ bind' = [k \in Revs |-> IF k \in Bound THEN "open" ELSE "absent"]
        BY <1>4 DEF Delete
    <2>2. CopyIsBound => CopyIsBound'
        BY <2>1, BoundStays DEF Bound
    <2>3. CASE mind[r].rev \in tombs
        <3>1. canon = 0 /\ status' = status
            BY <1>4, <2>3 DEF Delete, rows, RecordInv, TombsDelete
        <3>2. Catching => Catching'
            BY <2>1, <3>1, CatchingStays DEF workers
        <3> QED BY <2>1, <2>2, <3>1, <3>2, CleanBefore DEF MirrorInv
    <2>4. CASE mind[r].rev \notin tombs
        <3>1. PICK i \in Items : Post(i)
            BY <1>4, <2>4, AppendedRow DEF Delete
        <3>2. Catching'
            BY <2>1, <3>1, NewIsUnread DEF Catching
        <3> QED BY <2>1, <2>2, <3>2, CleanBefore DEF MirrorInv
    <2> QED BY <2>3, <2>4
<1> QED BY <1>1, <1>2, <1>3, <1>4
        DEF RequestStep, FastUpsert, FastBind, FastErase, FastUnbind, FastFails

\* The row a handler has dropped is open again, or a dead letter.
LEMMA DroppedIsUnread ==
    ASSUME RecordInv, RecordInv', [Next]_vars, NEW w \in Workers,
           RunAborts(w) \/ ProcessCrash(w) \/ Failed(w), hpc # "idle"
    PROVE  Unread'
<1>1. claim[w].item \in Items /\ status[claim[w].item] = "leased" /\ Holds(w)
    BY AlikeRunning DEF Holds
<1>2. hpc' = "idle"
    BY DEF RunAborts, ProcessCrash, Failed
<1>3. status'[claim[w].item] \notin {"absent", "succeeded"}
    <2>1. CASE RunAborts(w) \/ ProcessCrash(w)
        BY <1>1, <2>1 DEF RunAborts, ProcessCrash, Crash, rows
    <2>2. CASE Failed(w)
        BY <1>1, <2>2 DEF Failed, MarkFailed, Record, RecordInv, ProjectionTypeOK, TypeOK
    <2> QED BY <2>1, <2>2
<1> QED BY <1>1, <1>2, <1>3 DEF Unread, HasRead

LEMMA StoppedIsNotClean ==
    ASSUME RecordInv, NEW w \in Workers, RunAborts(w) \/ ProcessCrash(w) \/ Failed(w)
    PROVE  ~Clean'
<1>1. faults \in Nat /\ \A i \in Items : attempts[i] \in Nat
    BY OutboxAssumption DEF RecordInv, ProjectionTypeOK, TypeOK
<1>2. CASE RunAborts(w) \/ ProcessCrash(w)
    <2>1. faults' = faults + 1
        BY <1>2 DEF RunAborts, ProcessCrash, Crash
    <2> QED BY <1>1, <2>1 DEF Clean
<1>3. CASE Failed(w)
    <2>1. claim[w].item \in Items /\ Holds(w)
        BY <1>3, AlikeRunning DEF Failed
    <2>2. attempts'[claim[w].item] = attempts[claim[w].item] + 1
        BY <1>3, <2>1 DEF Failed, MarkFailed, RecordInv, ProjectionTypeOK, TypeOK
    <2> QED BY <1>1, <2>1, <2>2 DEF Clean
<1> QED BY <1>2, <1>3

\* The handler reads the record, then the bindings, then writes.
LEMMA HandlerKeepsMirror ==
    ASSUME RecordInv, MirrorInv, HandlerRead \/ HandlerBindings \/ HandlerApply
    PROVE  MirrorInv'
<1>1. /\ UNCHANGED <<fast, canon, bind, status, claim>> /\ (Clean' <=> Clean)
    BY DEF HandlerRead, HandlerBindings, HandlerApply, record, outbox, rows, workers, Clean
<1> SUFFICES ASSUME ~fast, canon # 0 \/ Clean PROVE Catching' /\ (Clean => CopyIsBound')
    BY <1>1 DEF MirrorInv
<1>2. Catching /\ (Clean => CopyIsBound)
    BY DEF MirrorInv
<1>3. DOMAIN saw = {"rev", "binds"} /\ saw = [rev |-> saw.rev, binds |-> saw.binds]
    BY DEF RecordInv, ProjectionTypeOK
<1>4. CASE HandlerRead
    <2>1. hpc' = "bindings" /\ saw'.rev = canon /\ file' = file /\ hpc = "read"
        BY <1>4 DEF HandlerRead
    <2> QED BY <1>1, <1>2, <2>1 DEF Catching, CopyIsBound
<1>5. CASE HandlerBindings
    <2>1. /\ hpc' = "apply" /\ saw'.rev = saw.rev /\ file' = file /\ hpc = "bindings"
          /\ saw.rev = 0 => saw'.binds = {k \in Revs : bind[k] = "open"}
        BY <1>3, <1>5 DEF HandlerBindings
    <2>2. Catching'
        BY <1>1, <1>2, <2>1 DEF Catching, Unread, HasRead
    <2>3. CopyIsBound => CopyIsBound'
        BY <1>1, <2>1 DEF CopyIsBound
    <2> QED BY <1>2, <2>2, <2>3
<1>6. CASE HandlerApply
    <2>1. /\ hpc' = "report" /\ saw' = saw /\ hpc = "apply"
          /\ file' = IF saw.rev # 0 THEN saw.rev ELSE IF saw.binds # {} THEN 0 ELSE file
        BY <1>6 DEF HandlerApply
    <2>2. Clean => file' = saw.rev
        BY <1>2, <2>1 DEF CopyIsBound
    <2>3. Clean => CopyIsBound'
        BY <2>1, <2>2 DEF CopyIsBound
    <2>4. CASE Unread
        BY <1>1, <2>1, <2>3, <2>4 DEF Catching, Unread, HasRead
    <2>5. CASE ~Unread
        <3>1. saw.rev = canon
            BY <1>2, <2>1, <2>5 DEF Catching, HasRead
        <3>2. file' = canon
            BY <2>1, <2>2, <3>1
        <3> QED BY <1>1, <2>1, <2>3, <3>1, <3>2 DEF Catching
    <2> QED BY <2>4, <2>5
<1> QED BY <1>4, <1>5, <1>6

LEMMA WorkerKeepsMirror ==
    ASSUME RecordInv, RecordInv', MirrorInv, [Next]_vars, NEW w \in Workers,
           WorkerGoesOn(w) \/ RunAborts(w) \/ ProcessCrash(w) \/ Passes
    PROVE  MirrorInv'
<1>1. CASE Between(w) \/ Passes
    <2>1. UNCHANGED <<fast, canon, bind, file, handler, claim, status>>
        BY <1>1 DEF Between, Poll, Skip, Passes, Tick, Renew, record, rows, workers
    <2> QED BY <2>1, CleanBefore, CatchingStays, BoundStays DEF MirrorInv
<1>2. CASE Start(w)
    <2>1. PICK i \in Items : Claim(w, i)
        BY <1>2 DEF Start
    <2>2. hpc = "idle" /\ hpc' = "read" /\ UNCHANGED <<fast, canon, bind, file, saw>>
        BY <1>2, <2>1, AlikeRunning DEF Start, Claim, record
    <2>3. \A k \in Items : status[k] \notin {"absent", "succeeded"}
                             => status'[k] \notin {"absent", "succeeded"}
        BY <2>1 DEF Claim, RecordInv, ProjectionTypeOK, TypeOK
    <2>4. Catching => Catching'
        BY <2>2, <2>3 DEF Catching, Unread, HasRead
    <2>5. CopyIsBound => CopyIsBound'
        BY <2>2 DEF CopyIsBound
    <2> QED BY <2>2, <2>4, <2>5, CleanBefore DEF MirrorInv
<1>3. CASE Succeed(w)
    <2>1. /\ hpc = "report" /\ hpc' = "idle" /\ UNCHANGED <<fast, canon, file>>
          /\ MarkSucceeded(w) /\ Rebind
        BY <1>3 DEF Succeed
    <2>2. \A k \in Items \ {claim[w].item} : status'[k] = status[k]
        BY <2>1 DEF MarkSucceeded, Record, rows, RecordInv, ProjectionTypeOK, TypeOK
    <2>3. Catching => Catching'
        BY <2>1, <2>2 DEF Catching, Unread, HasRead
    <2>4. CopyIsBound => CopyIsBound'
        <3> SUFFICES ASSUME file = saw.rev, file # 0 PROVE \E k \in Revs : bind'[k] = "open"
            BY <2>1 DEF CopyIsBound
        <3>1. saw.rev \in Revs
            BY DEF RecordInv, ProjectionTypeOK
        <3>2. bind'[saw.rev] = "open"
            BY <2>1, <3>1 DEF Rebind
        <3> QED BY <3>1, <3>2
    <2> QED BY <2>1, <2>3, <2>4, CleanBefore DEF MirrorInv
<1>4. CASE RunAborts(w) \/ ProcessCrash(w) \/ Failed(w)
    <2>1. ~Clean' /\ UNCHANGED <<fast, canon, file>> /\ hpc' = "idle"
        BY <1>4, StoppedIsNotClean DEF RunAborts, ProcessCrash, Failed, record
    <2>2. CASE hpc # "idle"
        BY <1>4, <2>1, <2>2, DroppedIsUnread DEF MirrorInv, Catching
    <2>3. CASE hpc = "idle"
        <3>1. status' = status
            BY <1>4, <2>3 DEF RunAborts, ProcessCrash, Failed, Crash, rows
        <3>2. Catching => Catching'
            BY <2>1, <2>3, <3>1 DEF Catching, Unread, HasRead
        <3> QED BY <2>1, <3>2 DEF MirrorInv
    <2> QED BY <2>2, <2>3
<1>5. CASE HandlerRead \/ HandlerBindings \/ HandlerApply
    BY <1>5, HandlerKeepsMirror
<1> QED BY <1>1, <1>2, <1>3, <1>4, <1>5 DEF WorkerGoesOn

LEMMA MirrorInvariant == Spec => [](RecordInv /\ MirrorInv)
<1>1. Init => MirrorInv
    BY DEF Init, MirrorInv, Catching, CopyIsBound, HasRead, Unread
<1>2. RecordInv /\ RecordInv' /\ MirrorInv /\ [Next]_vars => MirrorInv'
    <2> SUFFICES ASSUME RecordInv, RecordInv', MirrorInv, [Next]_vars PROVE MirrorInv'
        OBVIOUS
    <2>1. CASE UNCHANGED vars
        BY <2>1 DEF vars, outbox, rows, workers, record, handler, MirrorInv, Catching, Unread,
           HasRead, CopyIsBound, Clean
    <2>2. \E w \in Workers : TRUE
        BY FS_Singleton, ProjectionAssumption, OutboxAssumption
    <2> QED BY <2>1, <2>2, RequestKeepsMirror, WorkerKeepsMirror DEF Next
<1> QED BY <1>1, <1>2, RecordInvariant, PTL DEF Spec

\* When all rows have succeeded the copy that the worker alone writes shows the
\* latest revision, whatever failed or died on the way: each change has a row whose
\* handler read the record after it (memory_provider_projector.py:25-139).
THEOREM MirrorFollows == Spec => []MirrorIsCurrent
<1>1. MirrorInv => MirrorIsCurrent
    BY DEF MirrorInv, Catching, Unread, MirrorIsCurrent, Quiet
<1> QED BY <1>1, MirrorInvariant, PTL

\* Without failures the copy of a deleted memory is gone once all rows have
\* succeeded: every copy has an open binding, for the handler that removes it to find
\* (memory_provider_projector.py:25-139, memory.py:400-447).
THEOREM MirrorIsRemoved == Spec => []MirrorIsErased
<1>1. MirrorInv => MirrorIsErased
    BY DEF MirrorInv, Catching, Unread, MirrorIsErased, Quiet, Clean
<1> QED BY <1>1, MirrorInvariant, PTL
=============================================================================

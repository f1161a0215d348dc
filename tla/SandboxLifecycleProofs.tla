----------------------- MODULE SandboxLifecycleProofs -----------------------
(* Proofs about SandboxLifecycle, for any number of sandboxes and callers.   *)
EXTENDS SandboxLifecycle, FiniteSetTheorems, TLAPS

\* A caller that owns the ledger entry of its request.
Owning(t) == pc[t] \in {"count", "launch", "insert", "settle", "failing"}

\* An entry in progress belongs to at most one caller, and a caller that has
\* not launched yet finds no container made for its key.
KeyInv ==
    /\ \A t \in Callers : Owning(t) => ledger[Slot(ask[t])].state = "in_progress"
    /\ \A t, u \in Callers :
          Owning(t) /\ Owning(u) /\ Slot(ask[t]) = Slot(ask[u]) => t = u
    /\ \A s \in Sandboxes :
          made[s] > 0 => /\ ledger[Slot(asked[s])].state # "absent"
                         /\ \A t \in Callers : pc[t] \in {"count", "launch"}
                              => Slot(asked[s]) # Slot(ask[t])
    /\ AtMostOncePerKey

\* A caller between launch and settle, or inside ensure_directories, has a
\* sandbox of its own request.
MineInv ==
    /\ \A t \in Callers : pc[t] \in {"insert", "settle"} =>
          /\ mine[t] \in Sandboxes
          /\ made[mine[t]] > 0 /\ asked[mine[t]] = ask[t]
          /\ pc[t] = "insert" => mine[t] \in vol /\ state[mine[t]] = "NEW"
          /\ pc[t] = "settle" => state[mine[t]] # "NEW"
    /\ \A t \in Callers : pc[t] = "ensure" =>
          mine[t] \in Sandboxes /\ state[mine[t]] # "NEW" /\ ans[t] # "view"

\* A record was launched, the delete in progress is that of a record, and a
\* succeeded entry names a record of its own key.
RecordInv ==
    /\ deleting # None => state[deleting] # "NEW"
    /\ \A s \in Sandboxes : state[s] # "NEW" => made[s] > 0
    /\ \A k \in Slots : ledger[k].state = "succeeded" =>
          /\ ledger[k].sandbox \in Sandboxes
          /\ state[ledger[k].sandbox] # "NEW"
          /\ Slot(asked[ledger[k].sandbox]) = k
          /\ asked[ledger[k].sandbox].profile = ledger[k].hash

ViewInv ==
    \A t \in Callers : ans[t] = "view" =>
        /\ mine[t] \in Sandboxes /\ state[mine[t]] # "NEW"
        /\ asked[mine[t]].session = ask[t].session
        /\ asked[mine[t]].profile = ask[t].profile

LifecycleInv ==
    /\ TypeOK /\ KeyInv /\ MineInv /\ RecordInv /\ ViewInv /\ WorkspaceKept

-----------------------------------------------------------------------------
(* Types. *)

LEMMA SlotType == \A r \in Requests : Slot(r) \in Slots
BY DEF Slots

\* Equal slots are slots of the same session.
LEMMA SlotSession ==
    ASSUME NEW r, NEW q, Slot(r) = Slot(q)
    PROVE  r.session = q.session
BY DEF Slot

EngineType ==
    /\ ctr \in [Sandboxes -> Nat] /\ made \in [Sandboxes -> Nat]
    /\ up \subseteq Sandboxes /\ vol \subseteq Sandboxes

RecordType ==
    /\ state \in [Sandboxes -> States] /\ asked \in [Sandboxes -> Requests]
    /\ cid \in [Sandboxes -> Nat] /\ born \in [Sandboxes -> Nat]
    /\ expired \subseteq Sandboxes

CallType ==
    /\ pc \in [Callers -> PCs] /\ ask \in [Callers -> Requests]
    /\ mine \in [Callers -> Sandboxes \cup {None}]
    /\ seen \in [Callers -> Nat] /\ ans \in [Callers -> Answers]

RestType ==
    /\ ledger \in [Slots -> Entries]
    /\ deleting \in Sandboxes \cup {None}

LEMMA TypeSplit == TypeOK <=> EngineType /\ RecordType /\ CallType /\ RestType
BY DEF TypeOK, EngineType, RecordType, CallType, RestType

LEMMA TypeSplitNext ==
    TypeOK' <=> EngineType' /\ RecordType' /\ CallType' /\ RestType'
BY DEF TypeOK, EngineType, RecordType, CallType, RestType

LEMMA InitType == Init => TypeOK
<1> SUFFICES ASSUME Init PROVE TypeOK
  OBVIOUS
<1>1. AnyRequest \in Requests
  BY LifecycleAssumption DEF AnyRequest
<1>2. NoEntry \in Entries
  BY DEF NoEntry, Entries
<1> QED BY <1>1, <1>2 DEF Init, TypeOK, States, PCs, Answers

-----------------------------------------------------------------------------
(* What the engine's operations leave alone. *)

\* The set of sandboxes with a container made stays the same, and volumes stay
\* except those of S.
Spares(S) ==
    /\ EngineType'
    /\ \A q \in Sandboxes : made'[q] > 0 <=> made[q] > 0
    /\ vol \ S \subseteq vol'

LEMMA CreateEffect ==
    ASSUME EngineType, NEW s \in Sandboxes, RuntimeCreate(s)
    PROVE  /\ EngineType' /\ vol \subseteq vol' /\ s \in vol'
           /\ made'[s] > 0
           /\ \A q \in Sandboxes : q # s => made'[q] = made[q]
BY DEF EngineType, RuntimeCreate

LEMMA CreateFailsEffect ==
    ASSUME EngineType, NEW s \in Sandboxes, RuntimeCreateFails(s)
    PROVE  Spares({}) /\ made' = made
BY DEF EngineType, RuntimeCreateFails, Spares

LEMMA EnsureEffect ==
    ASSUME EngineType, NEW s \in Sandboxes, NEW c, made[s] > 0,
           EnsureRuntime(s, c)
    PROVE  Spares({}) /\ ctr'[s] \in Nat
<1>1. CASE RuntimeCreate(s)
  BY <1>1, CreateEffect DEF Spares, EngineType
<1>2. CASE up' = up \cup {s} /\ UNCHANGED <<ctr, made, vol>>
  BY <1>2 DEF Spares, EngineType
<1> QED BY <1>1, <1>2 DEF EnsureRuntime

LEMMA DeleteEffect ==
    ASSUME EngineType, NEW S, NEW id, RuntimeDelete(S, id)
    PROVE  Spares(S)
<1> DEFINE cleared == {s \in S : ctr[s] \in {0, id[s]}}
<1>1. /\ ctr' = [s \in Sandboxes |-> IF s \in cleared THEN 0 ELSE ctr[s]]
      /\ up' = up \ cleared /\ vol' = vol \ cleared /\ made' = made
  BY DEF RuntimeDelete
<1>2. cleared \subseteq S
  OBVIOUS
<1> HIDE DEF cleared
<1> QED BY <1>1, <1>2 DEF Spares, EngineType

LEMMA IdleEffect ==
    ASSUME EngineType, NEW S, UNCHANGED engine
    PROVE  Spares(S)
BY DEF Spares, EngineType, engine

-----------------------------------------------------------------------------
(* Steps that neither launch a sandbox nor settle a create. *)

\* The store and the engine keep what the invariant relies on.
StoreFrame ==
    /\ UNCHANGED <<asked, ledger>>
    /\ \A s \in Sandboxes : state'[s] = "NEW" <=> state[s] = "NEW"
    /\ \A s \in Sandboxes : made'[s] > 0 <=> made[s] > 0
    /\ \A s \in Sandboxes :
          /\ s \in vol
          /\ \/ Admits(s)'
             \/ state[s] = "NEW" /\ \E t \in Callers : pc'[t] = "insert"
          => s \in vol'
    /\ \A s \in Sandboxes : Admits(s)' => Admits(s)
    /\ deleting' # None => state'[deleting'] # "NEW"

\* No caller enters a create or ensure_directories, or answers with a sandbox.
CallFrame ==
    \A t \in Callers :
        /\ Owning(t)' \/ pc'[t] = "ensure" =>
              pc'[t] = pc[t] /\ mine'[t] = mine[t] /\ ask'[t] = ask[t]
        /\ ans'[t] = "view" =>
              ans[t] = "view" /\ mine'[t] = mine[t] /\ ask'[t] = ask[t]

LEMMA FrameStep ==
    ASSUME LifecycleInv, StoreFrame, CallFrame
    PROVE  (KeyInv /\ MineInv /\ RecordInv /\ ViewInv /\ WorkspaceKept)'
<1> USE DEF LifecycleInv, StoreFrame
<1>1. ASSUME NEW t \in Callers, Owning(t)'
      PROVE  Owning(t) /\ pc'[t] = pc[t] /\ mine'[t] = mine[t] /\ ask'[t] = ask[t]
  BY <1>1 DEF CallFrame, Owning
<1>2. \A t \in Callers : Owning(t)' => ledger'[Slot(ask'[t])].state = "in_progress"
  BY <1>1 DEF KeyInv
<1>3. \A t, u \in Callers :
         Owning(t)' /\ Owning(u)' /\ Slot(ask'[t]) = Slot(ask'[u]) => t = u
  BY <1>1 DEF KeyInv
<1>4. \A t \in Callers : pc'[t] \in {"count", "launch"} =>
         pc[t] = pc'[t] /\ ask'[t] = ask[t]
  BY DEF CallFrame, Owning
<1>5. \A s \in Sandboxes :
         made'[s] > 0 => /\ ledger'[Slot(asked'[s])].state # "absent"
                         /\ \A t \in Callers : pc'[t] \in {"count", "launch"}
                              => Slot(asked'[s]) # Slot(ask'[t])
  BY <1>4 DEF KeyInv
<1>6. AtMostOncePerKey'
  BY DEF KeyInv, AtMostOncePerKey
<1>7. KeyInv'
  BY <1>2, <1>3, <1>5, <1>6 DEF KeyInv, Owning
<1>8. ASSUME NEW t \in Callers, pc'[t] \in {"insert", "settle", "ensure"}
      PROVE  pc'[t] = pc[t] /\ mine'[t] = mine[t] /\ ask'[t] = ask[t]
  BY <1>8 DEF CallFrame, Owning
<1>9. MineInv'
  BY <1>8 DEF MineInv, CallFrame
<1>10. RecordInv'
  BY DEF RecordInv
<1>11. ViewInv'
  BY DEF ViewInv, CallFrame
<1>12. WorkspaceKept'
  BY DEF WorkspaceKept
<1> QED BY <1>7, <1>9, <1>10, <1>11, <1>12

\* The engine spares every volume but those of S, and no sandbox of S is new
\* or admits callers afterwards.
LEMMA SparedFrame ==
    ASSUME NEW S, Spares(S), UNCHANGED <<asked, ledger>>,
           \A s \in Sandboxes : state'[s] = "NEW" <=> state[s] = "NEW",
           \A s \in Sandboxes : Admits(s)' => Admits(s),
           \A s \in S : state[s] # "NEW" /\ ~Admits(s)',
           deleting' # None => state'[deleting'] # "NEW"
    PROVE  StoreFrame
BY DEF Spares, StoreFrame

\* A step that leaves the callers alone.
LEMMA IdleFrame == ASSUME UNCHANGED calls PROVE CallFrame
BY DEF CallFrame, calls, Owning

-----------------------------------------------------------------------------
(* The operations under the lock, ensure_directories and the world. *)

LEMMA ResumeStep ==
    ASSUME LifecycleInv, NEW s \in Sandboxes, Resume(s)
    PROVE  LifecycleInv'
<1>1. state[s] \in {"RUNNING", "STOPPED"} /\ made[s] > 0
  BY DEF Resume, Admits, Recorded, LifecycleInv, RecordInv
<1>2. Spares({}) /\ ctr'[s] \in Nat
  BY <1>1, EnsureEffect, TypeSplit DEF Resume, LifecycleInv
<1>3. TypeOK'
  BY <1>2, TypeSplit, TypeSplitNext
     DEF Resume, LifecycleInv, Spares, RecordType, CallType, RestType, calls, States
<1>4. StoreFrame
  <2>1. /\ UNCHANGED <<asked, ledger>> /\ deleting' = None
        /\ state \in [Sandboxes -> States]
        /\ state' = [state EXCEPT ![s] = "RUNNING"]
    BY DEF Resume, Unlocked, LifecycleInv, TypeOK
  <2>2. \A q \in Sandboxes : Admits(q)' => Admits(q)
    BY <1>1, <2>1 DEF Resume, Admits, Recorded
  <2>3. \A q \in Sandboxes : state'[q] = "NEW" <=> state[q] = "NEW"
    BY <1>1, <2>1
  <2> QED BY <1>2, <2>1, <2>2, <2>3, SparedFrame
<1>5. CallFrame
  BY IdleFrame DEF Resume
<1> QED BY <1>3, <1>4, <1>5, FrameStep DEF LifecycleInv

LEMMA UseStep ==
    ASSUME LifecycleInv, NEW s \in Sandboxes, Use(s) \/ UseFails(s)
    PROVE  LifecycleInv'
<1>1. made[s] > 0
  BY DEF Use, UseFails, Admits, Recorded, LifecycleInv, RecordInv
<1>2. EngineType
  BY TypeSplit DEF LifecycleInv
<1>3. Spares({})
  BY <1>1, <1>2, EnsureEffect, CreateFailsEffect DEF Use, UseFails
<1>4. UNCHANGED <<records, ledger, calls, deleting>> /\ deleting = None
  BY DEF Use, UseFails, Unlocked
<1>5. TypeOK'
  BY <1>3, <1>4, TypeSplit, TypeSplitNext
     DEF LifecycleInv, Spares, RecordType, CallType, RestType, calls, records
<1>6. StoreFrame
  BY <1>3, <1>4, SparedFrame DEF records, Admits, Recorded
<1> QED BY <1>4, <1>5, <1>6, IdleFrame, FrameStep DEF LifecycleInv

LEMMA StopStep ==
    ASSUME LifecycleInv, NEW s \in Sandboxes, Stop(s)
    PROVE  LifecycleInv'
<1>1. /\ state[s] = "RUNNING" /\ state \in [Sandboxes -> States]
      /\ state' = [state EXCEPT ![s] = "STOPPED"]
      /\ UNCHANGED <<asked, cid, born, expired, ledger, ctr, made, vol, calls,
                     deleting>>
      /\ deleting = None
  BY DEF Stop, Unlocked, LifecycleInv, TypeOK
<1>2. up' \subseteq up
  BY DEF Stop
<1>3. TypeOK'
  BY <1>1, <1>2 DEF LifecycleInv, TypeOK, States, calls
<1>4. \A q \in Sandboxes : Admits(q)' => Admits(q)
  BY <1>1 DEF Admits, Recorded
<1>5. StoreFrame
  BY <1>1, <1>4 DEF StoreFrame
<1> QED BY <1>1, <1>3, <1>5, IdleFrame, FrameStep DEF LifecycleInv

LEMMA DeleteBeginStep ==
    ASSUME LifecycleInv, NEW s \in Sandboxes, DeleteBegin(s)
    PROVE  LifecycleInv'
<1>1. /\ state[s] # "NEW" /\ state \in [Sandboxes -> States]
      /\ state' = [state EXCEPT ![s] = "DELETING"]
      /\ UNCHANGED <<asked, cid, born, expired, ledger, engine, calls>>
      /\ deleting' = s
  BY DEF DeleteBegin, Recorded, LifecycleInv, TypeOK
<1>2. TypeOK'
  BY <1>1 DEF LifecycleInv, TypeOK, States, calls, engine
<1>3. \A q \in Sandboxes : Admits(q)' => Admits(q)
  BY <1>1 DEF Admits, Recorded
<1>4. StoreFrame
  BY <1>1, <1>3 DEF StoreFrame, engine
<1> QED BY <1>1, <1>2, <1>4, IdleFrame, FrameStep DEF LifecycleInv

LEMMA TryEffect ==
    ASSUME EngineType, NEW s \in Sandboxes, RuntimeDeleteTry(s)
    PROVE  Spares({s})
<1>1. CASE /\ ctr' = [ctr EXCEPT ![s] = 0] /\ up' = up \ {s}
           /\ UNCHANGED <<made, vol>>
  BY <1>1 DEF Spares, EngineType
<1> QED BY <1>1, DeleteEffect, IdleEffect DEF RuntimeDeleteTry

\* A record goes, and with it at most its own container and volume.
LEMMA ReclaimStep ==
    ASSUME LifecycleInv, NEW s \in Sandboxes, state[s] # "NEW",
           RuntimeDeleteTry(s), DeleteRecord(s), UNCHANGED <<ledger, calls>>,
           deleting' = None
    PROVE  LifecycleInv'
<1>1. EngineType /\ RecordType /\ CallType /\ RestType
  BY TypeSplit DEF LifecycleInv
<1>2. Spares({s})
  BY <1>1, TryEffect
<1>3. /\ state' = [state EXCEPT ![s] = "GONE"] /\ UNCHANGED asked
      /\ cid' = [cid EXCEPT ![s] = 0] /\ born' = [born EXCEPT ![s] = 0]
      /\ expired' = expired \ {s}
  BY DEF DeleteRecord
<1>4. TypeOK'
  BY <1>1, <1>2, <1>3, TypeSplitNext
     DEF Spares, RecordType, CallType, RestType, calls, States
<1>5. /\ \A q \in Sandboxes : Admits(q)' => Admits(q)
      /\ ~Admits(s)'
  BY <1>1, <1>3 DEF Admits, Recorded, RecordType
<1>6. \A q \in Sandboxes : state'[q] = "NEW" <=> state[q] = "NEW"
  BY <1>1, <1>3 DEF RecordType
<1>7. StoreFrame
  BY <1>2, <1>3, <1>5, <1>6, SparedFrame
<1> QED BY <1>4, <1>7, IdleFrame, FrameStep DEF LifecycleInv

LEMMA DeleteFinishStep ==
    ASSUME LifecycleInv, DeleteFinish
    PROVE  LifecycleInv'
<1>1. deleting \in Sandboxes /\ state[deleting] # "NEW"
  BY DEF DeleteFinish, LifecycleInv, TypeOK, RecordInv
<1> QED BY <1>1, ReclaimStep DEF DeleteFinish

LEMMA SweepStep ==
    ASSUME LifecycleInv, NEW s \in Sandboxes, Sweep(s)
    PROVE  LifecycleInv'
<1>1. state[s] # "NEW" /\ deleting' = None
  BY DEF Sweep, Recorded, Unlocked
<1>2. CASE DeleteRecord(s)
  BY <1>1, <1>2, ReclaimStep DEF Sweep
<1>3. CASE UNCHANGED records
  <2>1. Spares({s})
    BY TypeSplit, TryEffect DEF LifecycleInv, Sweep
  <2>2. UNCHANGED <<records, ledger, calls, deleting>> /\ s \in expired
    BY <1>3 DEF Sweep
  <2>3. TypeOK'
    BY <2>1, <2>2, TypeSplit, TypeSplitNext
       DEF LifecycleInv, Spares, RecordType, CallType, RestType, calls, records
  <2>4. StoreFrame
    BY <1>1, <2>1, <2>2, SparedFrame DEF records, Admits, Recorded
  <2> QED BY <2>2, <2>3, <2>4, IdleFrame, FrameStep DEF LifecycleInv
<1> QED BY <1>2, <1>3 DEF Sweep

LEMMA ExpireStep ==
    ASSUME LifecycleInv, NEW s \in Sandboxes, Expire(s)
    PROVE  LifecycleInv'
<1>1. /\ UNCHANGED <<state, asked, cid, born, ledger, engine, calls, deleting>>
      /\ expired' = expired \cup {s}
  BY DEF Expire
<1>2. TypeOK'
  BY <1>1 DEF LifecycleInv, TypeOK, calls, engine
<1>3. StoreFrame
  BY <1>1 DEF StoreFrame, Admits, Recorded, engine, LifecycleInv, RecordInv
<1> QED BY <1>1, <1>2, <1>3, IdleFrame, FrameStep DEF LifecycleInv

LEMMA ContainerLostStep ==
    ASSUME LifecycleInv, NEW s \in Sandboxes, ContainerLost(s)
    PROVE  LifecycleInv'
<1>1. /\ UNCHANGED <<records, ledger, made, vol, calls, deleting>>
      /\ ctr' = [ctr EXCEPT ![s] = 0] /\ up' = up \ {s}
  BY DEF ContainerLost
<1>2. TypeOK'
  BY <1>1 DEF LifecycleInv, TypeOK, calls, records
<1>3. StoreFrame
  BY <1>1 DEF StoreFrame, Admits, Recorded, records, LifecycleInv, RecordInv
<1> QED BY <1>1, <1>2, <1>3, IdleFrame, FrameStep DEF LifecycleInv

LEMMA RestartStep ==
    ASSUME LifecycleInv, NEW old \in SUBSET Orphans, Restart(old)
    PROVE  LifecycleInv'
<1>1. EngineType /\ RecordType /\ CallType /\ RestType
  BY TypeSplit DEF LifecycleInv
<1>2. /\ pc' = [t \in Callers |-> "idle"] /\ ans' = [t \in Callers |-> "none"]
      /\ mine' = [t \in Callers |-> None] /\ seen' = [t \in Callers |-> 0]
      /\ deleting' = None
      /\ UNCHANGED <<records, ledger, ask>>
  BY DEF Restart
<1>3. Spares(old)
  BY <1>1, DeleteEffect DEF Restart, Reconcile
<1>4. TypeOK'
  BY <1>1, <1>2, <1>3, TypeSplitNext
     DEF Spares, RecordType, CallType, RestType, records, PCs, Answers
<1>5. StoreFrame
  <2>1. \A s \in Sandboxes : Admits(s)' <=> Admits(s)
    BY <1>2 DEF Admits, Recorded, records
  <2>2. \A s \in old : ~Admits(s)
    BY DEF Orphans, Recorded, Admits
  <2>3. \A t \in Callers : pc'[t] # "insert"
    BY <1>2
  <2> QED BY <1>2, <1>3, <2>1, <2>2, <2>3 DEF StoreFrame, Spares, records
<1>6. CallFrame
  BY <1>2 DEF CallFrame, Owning
<1> QED BY <1>4, <1>5, <1>6, FrameStep DEF LifecycleInv

LEMMA EnsureRunStep ==
    ASSUME LifecycleInv, NEW t \in Callers, EnsureRun(t)
    PROVE  LifecycleInv'
<1>1. EngineType /\ RecordType /\ CallType /\ RestType
  BY TypeSplit DEF LifecycleInv
<1>2. mine[t] \in Sandboxes /\ made[mine[t]] > 0
  BY DEF EnsureRun, LifecycleInv, MineInv, RecordInv
<1>3. Spares({})
  BY <1>1, <1>2, EnsureEffect, CreateFailsEffect DEF EnsureRun
<1>4. /\ pc' = [pc EXCEPT ![t] = "idle"] /\ mine' = [mine EXCEPT ![t] = None]
      /\ seen' = [seen EXCEPT ![t] = 0]
      /\ UNCHANGED <<records, ledger, ask, ans, deleting>>
      /\ pc[t] = "ensure"
  BY DEF EnsureRun
<1>5. TypeOK'
  BY <1>1, <1>3, <1>4, TypeSplitNext
     DEF Spares, RecordType, CallType, RestType, records, PCs
<1>6. StoreFrame
  BY <1>3, <1>4, SparedFrame DEF records, Admits, Recorded, LifecycleInv, RecordInv
<1>7. ans[t] # "view"
  BY <1>4 DEF LifecycleInv, MineInv
<1>8. CallFrame
  BY <1>1, <1>4, <1>7 DEF CallFrame, CallType, Owning
<1> QED BY <1>5, <1>6, <1>8, FrameStep DEF LifecycleInv

LEMMA EnsureCheckStep ==
    ASSUME LifecycleInv, NEW t \in Callers, NEW s \in Sandboxes, EnsureCheck(t, s)
    PROVE  LifecycleInv'
<1>1. /\ pc' = [pc EXCEPT ![t] = "ensure"] /\ mine' = [mine EXCEPT ![t] = s]
      /\ seen' = [seen EXCEPT ![t] = cid[s]] /\ ans' = [ans EXCEPT ![t] = "none"]
      /\ UNCHANGED <<records, ledger, engine, ask, deleting>>
      /\ state[s] # "NEW"
  BY DEF EnsureCheck, Admits, Recorded
<1>2. CallType /\ RecordType
  BY TypeSplit DEF LifecycleInv
<1>3. TypeOK'
  BY <1>1, <1>2 DEF LifecycleInv, TypeOK, PCs, Answers, records, engine, RecordType
<1>4. \A u \in Callers : u # t => /\ pc'[u] = pc[u] /\ mine'[u] = mine[u]
                                  /\ ask'[u] = ask[u] /\ ans'[u] = ans[u]
  BY <1>1, <1>2 DEF CallType
<1>5. pc'[t] = "ensure" /\ mine'[t] = s /\ ans'[t] = "none" /\ ~Owning(t)'
  BY <1>1, <1>2 DEF CallType, Owning
<1>6. KeyInv'
  BY <1>1, <1>4, <1>5
     DEF LifecycleInv, KeyInv, Owning, AtMostOncePerKey, records, engine
<1>7. MineInv'
  BY <1>1, <1>4, <1>5 DEF LifecycleInv, MineInv, records, engine
<1>8. RecordInv' /\ WorkspaceKept'
  BY <1>1 DEF LifecycleInv, RecordInv, WorkspaceKept, Admits, Recorded, records, engine
<1>9. ViewInv'
  BY <1>1, <1>4, <1>5 DEF LifecycleInv, ViewInv, records
<1> QED BY <1>3, <1>6, <1>7, <1>8, <1>9 DEF LifecycleInv

-----------------------------------------------------------------------------
(* The steps of create. *)

\* A caller answers without touching the ledger or the store.
LEMMA AnswerStep ==
    ASSUME LifecycleInv, NEW t \in Callers, NEW a \in Answers,
           pc' = [pc EXCEPT ![t] = "idle"], ans' = [ans EXCEPT ![t] = a],
           ask' \in [Callers -> Requests],
           mine' \in [Callers -> Sandboxes \cup {None}],
           \A u \in Callers : u # t => ask'[u] = ask[u] /\ mine'[u] = mine[u],
           UNCHANGED <<records, ledger, engine, seen, deleting>>,
           a = "view" => /\ mine'[t] \in Sandboxes /\ state[mine'[t]] # "NEW"
                         /\ asked[mine'[t]].session = ask'[t].session
                         /\ asked[mine'[t]].profile = ask'[t].profile
    PROVE  LifecycleInv'
<1>1. CallType
  BY TypeSplit DEF LifecycleInv
<1>2. TypeOK'
  BY <1>1 DEF LifecycleInv, TypeOK, PCs, records, engine
<1>3. \A u \in Callers : u # t => /\ pc'[u] = pc[u] /\ mine'[u] = mine[u]
                                  /\ ask'[u] = ask[u] /\ ans'[u] = ans[u]
  BY <1>1 DEF CallType
<1>4. pc'[t] = "idle" /\ ans'[t] = a /\ ~Owning(t)'
  BY <1>1 DEF CallType, Owning
<1>5. KeyInv'
  BY <1>3, <1>4
     DEF LifecycleInv, KeyInv, Owning, AtMostOncePerKey, records, engine
<1>6. MineInv'
  BY <1>3, <1>4 DEF LifecycleInv, MineInv, records, engine
<1>7. RecordInv' /\ WorkspaceKept'
  BY DEF LifecycleInv, RecordInv, WorkspaceKept, Admits, Recorded, records, engine
<1>8. ViewInv'
  BY <1>3, <1>4 DEF LifecycleInv, ViewInv, records
<1> QED BY <1>2, <1>5, <1>6, <1>7, <1>8 DEF LifecycleInv

LEMMA CreateLookupStep ==
    ASSUME LifecycleInv, NEW t \in Callers, NEW r \in Requests, CreateLookup(t, r)
    PROVE  LifecycleInv'
<1>1. /\ ask' = [ask EXCEPT ![t] = r] /\ pc[t] = "idle"
      /\ UNCHANGED <<records, ledger, engine, seen, deleting>>
  BY DEF CreateLookup
<1>2. CallType
  BY TypeSplit DEF LifecycleInv
<1>3. ASSUME NEW s \in Latest(r.session), Reusable(s, r), Answer(t, "view"),
             mine' = [mine EXCEPT ![t] = s]
      PROVE  LifecycleInv'
  <2>1. /\ s \in Sandboxes /\ state[s] # "NEW" /\ asked[s].session = r.session
        /\ asked[s].profile = r.profile
    BY <1>3 DEF Latest, Recorded, Reusable
  <2>2. /\ ask'[t] = r /\ mine'[t] = s
        /\ ask' \in [Callers -> Requests]
        /\ mine' \in [Callers -> Sandboxes \cup {None}]
        /\ \A u \in Callers : u # t => ask'[u] = ask[u] /\ mine'[u] = mine[u]
    BY <1>1, <1>2, <1>3, <2>1 DEF CallType
  <2>3. "view" \in Answers
    BY DEF Answers
  <2> QED BY <1>1, <1>3, <2>1, <2>2, <2>3, AnswerStep DEF Answer
<1>4. ASSUME Goto(t, "begin"), mine' = [mine EXCEPT ![t] = None]
      PROVE  LifecycleInv'
  <2>1. /\ pc' = [pc EXCEPT ![t] = "begin"] /\ ans' = [ans EXCEPT ![t] = "none"]
    BY <1>4 DEF Goto
  <2>2. TypeOK'
    BY <1>1, <1>2, <1>4, <2>1
       DEF LifecycleInv, TypeOK, CallType, PCs, Answers, records, engine
  <2>3. StoreFrame
    BY <1>1 DEF StoreFrame, Admits, Recorded, records, engine, LifecycleInv, RecordInv
  <2>4. CallFrame
    BY <1>1, <1>2, <1>4, <2>1 DEF CallFrame, CallType, Owning
  <2> QED BY <2>2, <2>3, <2>4, FrameStep DEF LifecycleInv
<1> QED BY <1>3, <1>4 DEF CreateLookup

\* begin_idempotent gives the key to a caller that found no entry.
LEMMA ClaimStep ==
    ASSUME LifecycleInv, NEW t \in Callers, pc[t] = "begin",
           ledger[Slot(ask[t])].state = "absent",
           ledger' = [ledger EXCEPT ![Slot(ask[t])] =
             [state |-> "in_progress", hash |-> ask[t].profile, sandbox |-> None]],
           Goto(t, "count"), UNCHANGED <<records, engine, ask, mine, seen, deleting>>
    PROVE  LifecycleInv'
<1> DEFINE k == Slot(ask[t])
           e == [state |-> "in_progress", hash |-> ask[t].profile, sandbox |-> None]
<1>1. EngineType /\ RecordType /\ CallType /\ RestType
  BY TypeSplit DEF LifecycleInv
<1>2. ask[t] \in Requests /\ k \in Slots
  BY <1>1, SlotType DEF CallType
<1>3. e \in Entries /\ e.state = "in_progress"
  BY <1>2 DEF Entries
<1>4. ledger'[k] = e /\ \A q \in Slots : q # k => ledger'[q] = ledger[q]
  BY <1>1, <1>2 DEF RestType
<1>5. ledger' \in [Slots -> Entries]
  BY <1>1, <1>2, <1>3 DEF RestType
<1>6. pc' = [pc EXCEPT ![t] = "count"] /\ ans' = [ans EXCEPT ![t] = "none"]
  BY DEF Goto
<1>7. TypeOK'
  BY <1>1, <1>5, <1>6, TypeSplitNext
     DEF EngineType, RecordType, CallType, RestType, records, engine, PCs, Answers
<1>8. \A u \in Callers : u # t => pc'[u] = pc[u] /\ ans'[u] = ans[u]
  BY <1>1, <1>6 DEF CallType
<1>9. pc'[t] = "count" /\ ans'[t] = "none"
  BY <1>1, <1>6 DEF CallType
<1>10. \A u \in Callers : u # t /\ Owning(u)' => Owning(u) /\ Slot(ask[u]) # k
  BY <1>8 DEF LifecycleInv, KeyInv, Owning
<1>11. \A s \in Sandboxes : made[s] > 0 => Slot(asked[s]) # k
  BY DEF LifecycleInv, KeyInv
<1>12. \A u \in Callers : Slot(ask[u]) \in Slots
  BY <1>1, SlotType DEF CallType
<1>13. \A s \in Sandboxes : Slot(asked[s]) \in Slots
  BY <1>1, SlotType DEF RecordType
<1> HIDE DEF k, e
<1>14. KeyInv'
  <2>1. \A u \in Callers : Owning(u)' => ledger'[Slot(ask[u])].state = "in_progress"
    <3> SUFFICES ASSUME NEW u \in Callers, Owning(u)'
                 PROVE  ledger'[Slot(ask[u])].state = "in_progress"
      OBVIOUS
    <3>1. CASE u = t
      BY <3>1, <1>3, <1>4 DEF k
    <3>2. CASE u # t
      BY <3>2, <1>4, <1>10, <1>12 DEF LifecycleInv, KeyInv
    <3> QED BY <3>1, <3>2
  <2>2. \A u, v \in Callers :
           Owning(u)' /\ Owning(v)' /\ Slot(ask[u]) = Slot(ask[v]) => u = v
    BY <1>10 DEF LifecycleInv, KeyInv, k
  <2>3. \A s \in Sandboxes :
           made[s] > 0 => /\ ledger'[Slot(asked[s])].state # "absent"
                          /\ \A u \in Callers : pc'[u] \in {"count", "launch"}
                               => Slot(asked[s]) # Slot(ask[u])
    BY <1>4, <1>8, <1>11, <1>13 DEF LifecycleInv, KeyInv, k
  <2>4. AtMostOncePerKey'
    BY DEF LifecycleInv, KeyInv, AtMostOncePerKey, records, engine
  <2> QED BY <2>1, <2>2, <2>3, <2>4 DEF KeyInv, Owning, records, engine
<1>15. MineInv'
  BY <1>8, <1>9 DEF LifecycleInv, MineInv, records, engine
<1>16. RecordInv'
  BY <1>3, <1>4 DEF LifecycleInv, RecordInv, records, engine
<1>17. ViewInv' /\ WorkspaceKept'
  BY <1>8, <1>9 DEF LifecycleInv, ViewInv, WorkspaceKept, Admits, Recorded, records, engine
<1> QED BY <1>7, <1>14, <1>15, <1>16, <1>17 DEF LifecycleInv

LEMMA CreateBeginStep ==
    ASSUME LifecycleInv, NEW t \in Callers, CreateBegin(t)
    PROVE  LifecycleInv'
<1> DEFINE e == ledger[Slot(ask[t])]
<1>1. CallType /\ Slot(ask[t]) \in Slots /\ pc[t] = "begin"
  BY TypeSplit, SlotType DEF LifecycleInv, CallType, CreateBegin
<1>2. UNCHANGED <<records, engine, ask, seen, deleting>>
  BY DEF CreateBegin
<1>3. CASE Claimable(e)
  BY <1>1, <1>2, <1>3, ClaimStep DEF CreateBegin, Claimable
<1>4. ASSUME e.state = "succeeded", e.hash = ask[t].profile, UNCHANGED ledger,
             Answer(t, "view"), mine' = [mine EXCEPT ![t] = e.sandbox]
      PROVE  LifecycleInv'
  <2>1. /\ e.sandbox \in Sandboxes /\ state[e.sandbox] # "NEW"
        /\ Slot(asked[e.sandbox]) = Slot(ask[t])
        /\ asked[e.sandbox].profile = ask[t].profile
    BY <1>1, <1>4 DEF LifecycleInv, RecordInv
  <2>2. asked[e.sandbox].session = ask[t].session
    BY <2>1, SlotSession
  <2> HIDE DEF e
  <2>3. /\ mine'[t] = e.sandbox /\ mine' \in [Callers -> Sandboxes \cup {None}]
        /\ ask' = ask /\ ask' \in [Callers -> Requests]
        /\ \A u \in Callers : u # t => ask'[u] = ask[u] /\ mine'[u] = mine[u]
    BY <1>1, <1>2, <1>4, <2>1 DEF CallType
  <2>4. "view" \in Answers
    BY DEF Answers
  <2> QED BY <1>2, <1>4, <2>1, <2>2, <2>3, <2>4, AnswerStep DEF Answer
<1>5. ASSUME NEW a \in {"refused", "indeterminate"}, Answer(t, a),
             UNCHANGED <<ledger, mine>>
      PROVE  LifecycleInv'
  BY <1>1, <1>2, <1>5, AnswerStep DEF Answer, Answers, CallType
<1> QED BY <1>3, <1>4, <1>5 DEF CreateBegin

\* A caller that owns its key goes on without a launch.
LEMMA CreateCountStep ==
    ASSUME LifecycleInv, NEW t \in Callers, CreateCount(t)
    PROVE  LifecycleInv'
<1>1. CallType
  BY TypeSplit DEF LifecycleInv
<1>2. UNCHANGED <<records, ledger, engine, ask, mine, seen, deleting>> /\ pc[t] = "count"
  BY DEF CreateCount
<1>3. CASE Answer(t, "refused")
  BY <1>1, <1>2, <1>3, AnswerStep DEF Answer, Answers, CallType
<1>4. CASE Goto(t, "launch")
  <2>1. pc' = [pc EXCEPT ![t] = "launch"] /\ ans' = [ans EXCEPT ![t] = "none"]
    BY <1>4 DEF Goto
  <2>2. TypeOK'
    BY <1>1, <1>2, <2>1
       DEF LifecycleInv, TypeOK, CallType, PCs, Answers, records, engine
  <2>3. \A u \in Callers : u # t => pc'[u] = pc[u] /\ ans'[u] = ans[u]
    BY <1>1, <2>1 DEF CallType
  <2>4. pc'[t] = "launch" /\ ans'[t] = "none"
    BY <1>1, <2>1 DEF CallType
  <2>5. \A u \in Callers : Owning(u)' <=> Owning(u)
    BY <1>2, <2>3, <2>4 DEF Owning
  <2>6. \A u \in Callers :
           pc'[u] \in {"count", "launch"} => pc[u] \in {"count", "launch"}
    BY <1>2, <2>3, <2>4
  <2>7. KeyInv'
    BY <1>2, <2>5, <2>6
       DEF LifecycleInv, KeyInv, AtMostOncePerKey, records, engine
  <2>8. MineInv'
    BY <1>2, <2>3, <2>4 DEF LifecycleInv, MineInv, records, engine
  <2>9. RecordInv' /\ ViewInv' /\ WorkspaceKept'
    BY <1>2, <2>3, <2>4
       DEF LifecycleInv, RecordInv, ViewInv, WorkspaceKept, Admits, Recorded, records, engine
  <2> QED BY <2>2, <2>7, <2>8, <2>9 DEF LifecycleInv
<1> QED BY <1>3, <1>4 DEF CreateCount

\* The caller's own key admits it to the engine, so the container it makes is
\* the first one for that key.
LEMMA LaunchStep ==
    ASSUME LifecycleInv, NEW t \in Callers, pc[t] = "launch",
           NEW s \in Sandboxes, state[s] = "NEW", made[s] = 0, RuntimeCreate(s),
           asked' = [asked EXCEPT ![s] = ask[t]], Goto(t, "insert"),
           mine' = [mine EXCEPT ![t] = s],
           NEW now \in Nat, seen' = [seen EXCEPT ![t] = now],
           UNCHANGED <<state, cid, born, expired, ledger, ask, deleting>>
    PROVE  LifecycleInv'
<1>1. EngineType /\ RecordType /\ CallType /\ RestType
  BY TypeSplit DEF LifecycleInv
<1>2. /\ EngineType' /\ vol \subseteq vol' /\ s \in vol' /\ made'[s] > 0
      /\ \A q \in Sandboxes : q # s => made'[q] = made[q]
  BY <1>1, CreateEffect
<1>3. pc' = [pc EXCEPT ![t] = "insert"] /\ ans' = [ans EXCEPT ![t] = "none"]
  BY DEF Goto
<1>4. TypeOK'
  BY <1>1, <1>2, <1>3, TypeSplitNext
     DEF RecordType, CallType, RestType, PCs, Answers
<1>5. \A u \in Callers : u # t => /\ pc'[u] = pc[u] /\ ans'[u] = ans[u]
                                  /\ mine'[u] = mine[u]
  BY <1>1, <1>3 DEF CallType
<1>6. pc'[t] = "insert" /\ ans'[t] = "none" /\ mine'[t] = s
  BY <1>1, <1>3 DEF CallType
<1>7. asked'[s] = ask[t] /\ \A q \in Sandboxes : q # s => asked'[q] = asked[q]
  BY <1>1 DEF RecordType
<1>8. \A u \in Callers : Owning(u)' <=> Owning(u)
  BY <1>5, <1>6 DEF Owning
<1>9. \A q \in Sandboxes : made[q] > 0 => q # s
  BY <1>1 DEF EngineType
<1>10. KeyInv'
  <2>1. \A u \in Callers : Owning(u)' => ledger[Slot(ask[u])].state = "in_progress"
    BY <1>8 DEF LifecycleInv, KeyInv
  <2>2. \A u, v \in Callers :
           Owning(u)' /\ Owning(v)' /\ Slot(ask[u]) = Slot(ask[v]) => u = v
    BY <1>8 DEF LifecycleInv, KeyInv
  <2>3. Owning(t) /\ ledger[Slot(ask[t])].state = "in_progress"
    BY DEF Owning, LifecycleInv, KeyInv
  <2>4. \A u \in Callers : pc'[u] \in {"count", "launch"}
           => /\ u # t /\ Owning(u) /\ pc[u] \in {"count", "launch"}
              /\ Slot(ask[t]) # Slot(ask[u])
    BY <1>5, <1>6, <2>3 DEF Owning, LifecycleInv, KeyInv
  <2>5. ASSUME NEW q \in Sandboxes, made'[q] > 0
        PROVE  /\ ledger[Slot(asked'[q])].state # "absent"
               /\ \A u \in Callers : pc'[u] \in {"count", "launch"}
                    => Slot(asked'[q]) # Slot(ask[u])
    <3>1. CASE q = s
      BY <3>1, <1>7, <2>3, <2>4
    <3>2. CASE q # s
      BY <3>2, <2>5, <1>2, <1>7, <2>4 DEF LifecycleInv, KeyInv
    <3> QED BY <3>1, <3>2
  <2>6. \A q \in Sandboxes : q # s /\ made'[q] > 0 => Slot(asked'[q]) # Slot(ask[t])
    BY <1>2, <1>7 DEF LifecycleInv, KeyInv
  <2>7. \A p, q \in Sandboxes :
           p # s /\ q # s /\ made'[p] > 0 /\ made'[q] > 0
           /\ Slot(asked'[p]) = Slot(asked'[q]) => p = q
    BY <1>2, <1>7 DEF LifecycleInv, KeyInv, AtMostOncePerKey
  <2>8. AtMostOncePerKey'
    BY <1>7, <2>6, <2>7 DEF AtMostOncePerKey
  <2>9. \A u \in Callers : Owning(u)' => ledger'[Slot(ask'[u])].state = "in_progress"
    BY <2>1
  <2>10. \A u, v \in Callers :
            Owning(u)' /\ Owning(v)' /\ Slot(ask'[u]) = Slot(ask'[v]) => u = v
    BY <2>2
  <2>11. \A q \in Sandboxes :
            made'[q] > 0 => /\ ledger'[Slot(asked'[q])].state # "absent"
                            /\ \A u \in Callers : pc'[u] \in {"count", "launch"}
                                 => Slot(asked'[q]) # Slot(ask'[u])
    BY <2>5
  <2> QED BY <2>8, <2>9, <2>10, <2>11 DEF KeyInv
<1>11. MineInv'
  <2> SUFFICES ASSUME NEW u \in Callers
      PROVE /\ pc'[u] \in {"insert", "settle"} =>
                 /\ mine'[u] \in Sandboxes
                 /\ made'[mine'[u]] > 0 /\ asked'[mine'[u]] = ask[u]
                 /\ pc'[u] = "insert" => mine'[u] \in vol' /\ state[mine'[u]] = "NEW"
                 /\ pc'[u] = "settle" => state[mine'[u]] # "NEW"
            /\ pc'[u] = "ensure" => /\ mine'[u] \in Sandboxes
                                    /\ state[mine'[u]] # "NEW" /\ ans'[u] # "view"
    BY DEF MineInv
  <2>1. CASE u = t
    BY <2>1, <1>2, <1>6, <1>7
  <2>2. CASE u # t
    BY <2>2, <1>2, <1>5, <1>7, <1>9 DEF LifecycleInv, MineInv
  <2> QED BY <2>1, <2>2
<1>12. RecordInv'
  BY <1>2, <1>7 DEF LifecycleInv, RecordInv
<1>13. ViewInv'
  BY <1>5, <1>6, <1>7 DEF LifecycleInv, ViewInv
<1>14. WorkspaceKept'
  BY <1>2 DEF LifecycleInv, WorkspaceKept, Admits, Recorded
<1> QED BY <1>4, <1>10, <1>11, <1>12, <1>13, <1>14 DEF LifecycleInv

\* A create that failed goes to complete_idempotent.
LEMMA FailingStep ==
    ASSUME LifecycleInv, NEW t \in Callers, Owning(t), Goto(t, "failing"),
           Spares({}), made' = made,
           seen' \in [Callers -> Nat],
           UNCHANGED <<records, ledger, ask, mine, deleting>>
    PROVE  LifecycleInv'
<1>1. EngineType /\ RecordType /\ CallType /\ RestType
  BY TypeSplit DEF LifecycleInv
<1>2. pc' = [pc EXCEPT ![t] = "failing"] /\ ans' = [ans EXCEPT ![t] = "none"]
  BY DEF Goto
<1>3. TypeOK'
  BY <1>1, <1>2, TypeSplitNext
     DEF Spares, RecordType, CallType, RestType, PCs, Answers, records
<1>4. \A u \in Callers : u # t => pc'[u] = pc[u] /\ ans'[u] = ans[u]
  BY <1>1, <1>2 DEF CallType
<1>5. pc'[t] = "failing" /\ ans'[t] = "none"
  BY <1>1, <1>2 DEF CallType
<1>6. \A u \in Callers : Owning(u)' <=> Owning(u)
  BY <1>4, <1>5 DEF Owning
<1>7. \A u \in Callers : pc'[u] \in {"count", "launch", "insert", "settle", "ensure"}
         => u # t /\ pc[u] = pc'[u]
  BY <1>4, <1>5
<1>8. KeyInv'
  BY <1>6, <1>7 DEF LifecycleInv, KeyInv, AtMostOncePerKey, records
<1>9. MineInv'
  BY <1>4, <1>7 DEF LifecycleInv, MineInv, Spares, records
<1>10. RecordInv' /\ ViewInv'
  BY <1>4, <1>5 DEF LifecycleInv, RecordInv, ViewInv, records
<1>11. WorkspaceKept'
  BY DEF LifecycleInv, WorkspaceKept, Admits, Recorded, Spares, records
<1> QED BY <1>3, <1>8, <1>9, <1>10, <1>11 DEF LifecycleInv

LEMMA CreateLaunchStep ==
    ASSUME LifecycleInv, NEW t \in Callers, CreateLaunch(t)
    PROVE  LifecycleInv'
<1>1. /\ pc[t] = "launch" /\ Owning(t)
      /\ UNCHANGED <<state, cid, born, expired, ledger, ask, deleting>>
  BY DEF CreateLaunch, Owning
<1>2. PICK s \in Sandboxes :
         /\ state[s] = "NEW" /\ made[s] = 0
         /\ \/ /\ RuntimeCreate(s)
               /\ asked' = [asked EXCEPT ![s] = ask[t]]
               /\ Goto(t, "insert")
               /\ mine' = [mine EXCEPT ![t] = s]
               /\ \E now \in Now : seen' = [seen EXCEPT ![t] = now]
            \/ /\ RuntimeCreateFails(s)
               /\ Goto(t, "failing")
               /\ UNCHANGED <<asked, mine, seen>>
  BY DEF CreateLaunch
<1>3. Now \subseteq Nat
  BY DEF Now
<1>4. CASE RuntimeCreate(s) /\ Goto(t, "insert")
           /\ asked' = [asked EXCEPT ![s] = ask[t]]
           /\ mine' = [mine EXCEPT ![t] = s]
           /\ \E now \in Now : seen' = [seen EXCEPT ![t] = now]
  BY <1>1, <1>2, <1>3, <1>4, LaunchStep
<1>5. CASE RuntimeCreateFails(s) /\ Goto(t, "failing") /\ UNCHANGED <<asked, mine, seen>>
  <2>1. EngineType /\ seen' \in [Callers -> Nat]
    BY <1>5, TypeSplit DEF LifecycleInv, CallType
  <2>2. Spares({}) /\ made' = made
    BY <1>5, <2>1, CreateFailsEffect
  <2> QED BY <1>1, <1>5, <2>1, <2>2, FailingStep DEF records
<1> QED BY <1>2, <1>4, <1>5

LEMMA CreateInsertStep ==
    ASSUME LifecycleInv, NEW t \in Callers, CreateInsert(t)
    PROVE  LifecycleInv'
<1> DEFINE s == mine[t]
<1>1. EngineType /\ RecordType /\ CallType /\ RestType
  BY TypeSplit DEF LifecycleInv
<1>2. /\ pc[t] = "insert" /\ Owning(t)
      /\ seen' = [seen EXCEPT ![t] = 0] /\ seen' \in [Callers -> Nat]
      /\ UNCHANGED <<asked, expired, ledger, engine, ask, mine, deleting>>
  BY <1>1 DEF CreateInsert, Owning, CallType
<1>3. CASE Goto(t, "failing") /\ UNCHANGED <<state, cid, born>>
  <2>1. Spares({}) /\ made' = made
    BY <1>1, <1>2, IdleEffect DEF engine
  <2> QED BY <1>2, <1>3, <2>1, FailingStep DEF records
<1>4. CASE /\ state' = [state EXCEPT ![mine[t]] = "RUNNING"]
           /\ cid' = [cid EXCEPT ![mine[t]] = 1]
           /\ born' = [born EXCEPT ![mine[t]] = seen[t]]
           /\ Goto(t, "settle")
  <2>1. /\ s \in Sandboxes /\ made[s] > 0 /\ asked[s] = ask[t]
        /\ s \in vol /\ state[s] = "NEW"
    BY <1>2 DEF LifecycleInv, MineInv
  <2>2. pc' = [pc EXCEPT ![t] = "settle"] /\ ans' = [ans EXCEPT ![t] = "none"]
    BY <1>4 DEF Goto
  <2>3. TypeOK'
    BY <1>1, <1>2, <1>4, <2>1, <2>2, TypeSplitNext
       DEF EngineType, RecordType, CallType, RestType, PCs, Answers, States, engine
  <2>4. \A u \in Callers : u # t => pc'[u] = pc[u] /\ ans'[u] = ans[u]
    BY <1>1, <2>2 DEF CallType
  <2>5. pc'[t] = "settle" /\ ans'[t] = "none"
    BY <1>1, <2>2 DEF CallType
  <2>6. state'[s] = "RUNNING" /\ \A q \in Sandboxes : q # s => state'[q] = state[q]
    BY <1>1, <1>4, <2>1 DEF RecordType
  <2>7. \A u \in Callers : Owning(u)' <=> Owning(u)
    BY <1>2, <2>4, <2>5 DEF Owning
  <2>8. \A u \in Callers : pc'[u] \in {"count", "launch"} => pc[u] = pc'[u]
    BY <2>4, <2>5
  <2> HIDE DEF s
  <2>9. KeyInv'
    BY <1>2, <2>7, <2>8
       DEF LifecycleInv, KeyInv, AtMostOncePerKey, engine
  <2>10. \A u \in Callers : u # t /\ pc[u] = "insert" => mine[u] # s
    BY <1>2, <2>1 DEF LifecycleInv, MineInv, KeyInv, Owning
  <2>11. MineInv'
    <3> SUFFICES ASSUME NEW u \in Callers
        PROVE /\ pc'[u] \in {"insert", "settle"} =>
                   /\ mine[u] \in Sandboxes
                   /\ made[mine[u]] > 0 /\ asked[mine[u]] = ask[u]
                   /\ pc'[u] = "insert" => mine[u] \in vol /\ state'[mine[u]] = "NEW"
                   /\ pc'[u] = "settle" => state'[mine[u]] # "NEW"
              /\ pc'[u] = "ensure" => /\ mine[u] \in Sandboxes
                                      /\ state'[mine[u]] # "NEW" /\ ans'[u] # "view"
      BY <1>2 DEF MineInv, engine
    <3>1. CASE u = t
      BY <3>1, <2>1, <2>5, <2>6 DEF s
    <3>2. CASE u # t
      BY <3>2, <2>1, <2>4, <2>6, <2>10 DEF LifecycleInv, MineInv
    <3> QED BY <3>1, <3>2
  <2>12. RecordInv'
    <3>1. \A q \in Sandboxes : state[q] # "NEW" => state'[q] # "NEW"
      BY <2>6
    <3>2. deleting # None => deleting \in Sandboxes /\ state[deleting] # "NEW"
      BY <1>1 DEF RestType, LifecycleInv, RecordInv
    <3>3. \A q \in Sandboxes : state'[q] # "NEW" => made[q] > 0
      BY <2>1, <2>6 DEF LifecycleInv, RecordInv
    <3> QED BY <1>2, <3>1, <3>2, <3>3 DEF LifecycleInv, RecordInv, engine
  <2>13. ViewInv'
    BY <1>2, <2>4, <2>5, <2>6 DEF LifecycleInv, ViewInv
  <2>14. WorkspaceKept'
    BY <1>2, <2>1, <2>6 DEF LifecycleInv, WorkspaceKept, Admits, Recorded, engine
  <2> QED BY <2>3, <2>9, <2>11, <2>12, <2>13, <2>14 DEF LifecycleInv
<1> QED BY <1>3, <1>4 DEF CreateInsert

\* complete_idempotent: the caller's entry leaves "in_progress" for good.
LEMMA CompleteStep ==
    ASSUME LifecycleInv, NEW t \in Callers, Owning(t),
           NEW e \in Entries, NEW a \in {"view", "refused"},
           e.state \in {"succeeded", "failed"},
           e.state = "succeeded" => /\ pc[t] = "settle" /\ e.sandbox = mine[t]
                                    /\ e.hash = ask[t].profile,
           a = "view" => pc[t] = "settle",
           ledger' = [ledger EXCEPT ![Slot(ask[t])] = e], Answer(t, a),
           UNCHANGED <<records, engine, ask, mine, seen, deleting>>
    PROVE  LifecycleInv'
<1> DEFINE k == Slot(ask[t])
<1>1. EngineType /\ RecordType /\ CallType /\ RestType
  BY TypeSplit DEF LifecycleInv
<1>2. k \in Slots /\ a \in Answers
  BY <1>1, SlotType DEF CallType, Answers
<1>3. ledger'[k] = e /\ \A q \in Slots : q # k => ledger'[q] = ledger[q]
  BY <1>1, <1>2 DEF RestType
<1>4. pc' = [pc EXCEPT ![t] = "idle"] /\ ans' = [ans EXCEPT ![t] = a]
  BY DEF Answer
<1>5. ledger' \in [Slots -> Entries]
  BY <1>1, <1>2 DEF RestType
<1>6. TypeOK'
  BY <1>1, <1>2, <1>4, <1>5, TypeSplitNext
     DEF EngineType, RecordType, CallType, RestType, PCs, records, engine
<1>7. \A u \in Callers : u # t => pc'[u] = pc[u] /\ ans'[u] = ans[u]
  BY <1>1, <1>4 DEF CallType
<1>8. pc'[t] = "idle" /\ ans'[t] = a /\ ~Owning(t)'
  BY <1>1, <1>4 DEF CallType, Owning
<1>9. \A u \in Callers : Owning(u)' => u # t /\ Owning(u) /\ Slot(ask[u]) # k
  BY <1>7, <1>8 DEF LifecycleInv, KeyInv, Owning
<1>10. \A u \in Callers : Slot(ask[u]) \in Slots
  BY <1>1, SlotType DEF CallType
<1>11. \A s \in Sandboxes : Slot(asked[s]) \in Slots
  BY <1>1, SlotType DEF RecordType
<1>12. pc[t] = "settle" => /\ mine[t] \in Sandboxes /\ asked[mine[t]] = ask[t]
                           /\ state[mine[t]] # "NEW"
  BY DEF LifecycleInv, MineInv
<1> HIDE DEF k
<1>13. \A u \in Callers : Owning(u)' => ledger'[Slot(ask'[u])].state = "in_progress"
  BY <1>3, <1>9, <1>10 DEF LifecycleInv, KeyInv
<1>14. \A u, v \in Callers :
         Owning(u)' /\ Owning(v)' /\ Slot(ask'[u]) = Slot(ask'[v]) => u = v
  BY <1>9 DEF LifecycleInv, KeyInv
<1>15. \A s \in Sandboxes :
         made'[s] > 0 => /\ ledger'[Slot(asked'[s])].state # "absent"
                         /\ \A u \in Callers : pc'[u] \in {"count", "launch"}
                              => Slot(asked'[s]) # Slot(ask'[u])
  BY <1>3, <1>7, <1>8, <1>11 DEF LifecycleInv, KeyInv, records, engine
<1>16. KeyInv'
  <2>1. AtMostOncePerKey'
    BY DEF LifecycleInv, KeyInv, AtMostOncePerKey, records, engine
  <2> QED BY <1>13, <1>14, <1>15, <2>1 DEF KeyInv
<1>17. MineInv'
  BY <1>7, <1>8 DEF LifecycleInv, MineInv, records, engine
<1>18. RecordInv'
  BY <1>3, <1>12 DEF LifecycleInv, RecordInv, records, engine, k
<1>19. ViewInv'
  BY <1>7, <1>8, <1>12 DEF LifecycleInv, ViewInv, records
<1>20. WorkspaceKept'
  BY DEF LifecycleInv, WorkspaceKept, Admits, Recorded, records, engine
<1> QED BY <1>6, <1>16, <1>17, <1>18, <1>19, <1>20 DEF LifecycleInv

LEMMA CreateSettleStep ==
    ASSUME LifecycleInv, NEW t \in Callers, CreateSettle(t)
    PROVE  LifecycleInv'
<1> DEFINE e == [state |-> "succeeded", hash |-> ask[t].profile, sandbox |-> mine[t]]
<1>1. pc[t] = "settle" /\ Owning(t)
  BY DEF CreateSettle, Owning
<1>2. ask[t] \in Requests /\ mine[t] \in Sandboxes
  BY <1>1 DEF LifecycleInv, TypeOK, MineInv
<1>3. /\ e \in Entries /\ e.state = "succeeded" /\ e.hash = ask[t].profile
      /\ e.sandbox = mine[t]
  BY <1>2 DEF Entries
<1>4. ledger' = [ledger EXCEPT ![Slot(ask[t])] = e] /\ Answer(t, "view")
      /\ UNCHANGED <<records, engine, ask, mine, seen, deleting>>
  BY DEF CreateSettle
<1> HIDE DEF e
<1> QED BY <1>1, <1>3, <1>4, CompleteStep

LEMMA CreateFailStep ==
    ASSUME LifecycleInv, NEW t \in Callers, CreateFail(t)
    PROVE  LifecycleInv'
<1> DEFINE e == [state |-> "failed", hash |-> ask[t].profile, sandbox |-> None]
<1>1. pc[t] = "failing" /\ Owning(t)
  BY DEF CreateFail, Owning
<1>2. ask[t] \in Requests
  BY DEF LifecycleInv, TypeOK
<1>3. e \in Entries /\ e.state = "failed"
  BY <1>2 DEF Entries
<1>4. ledger' = [ledger EXCEPT ![Slot(ask[t])] = e] /\ Answer(t, "refused")
      /\ UNCHANGED <<records, engine, ask, mine, seen, deleting>>
  BY DEF CreateFail
<1> HIDE DEF e
<1> QED BY <1>1, <1>3, <1>4, CompleteStep

-----------------------------------------------------------------------------
(* Theorems. *)

LEMMA InitInv == Init => LifecycleInv
<1> SUFFICES ASSUME Init PROVE LifecycleInv
  OBVIOUS
<1>1. TypeOK
  BY InitType
<1>2. \A k \in Slots : ledger[k].state = "absent"
  BY DEF Init, NoEntry
<1> QED BY <1>1, <1>2
     DEF Init, LifecycleInv, KeyInv, MineInv, RecordInv, ViewInv, WorkspaceKept,
         Owning, AtMostOncePerKey, Admits, Recorded

LEMMA NextInv == LifecycleInv /\ [Next]_vars => LifecycleInv'
<1> SUFFICES ASSUME LifecycleInv, [Next]_vars PROVE LifecycleInv'
  OBVIOUS
<1>1. ASSUME NEW t \in Callers, CreateStep(t) PROVE LifecycleInv'
  BY <1>1, CreateLookupStep, CreateBeginStep, CreateCountStep, CreateLaunchStep,
     CreateInsertStep, CreateSettleStep, CreateFailStep DEF CreateStep
<1>2. ASSUME NEW s \in Sandboxes,
             \/ Resume(s) \/ Use(s) \/ UseFails(s) \/ Stop(s)
             \/ DeleteBegin(s) \/ Sweep(s) \/ Expire(s) \/ ContainerLost(s)
      PROVE  LifecycleInv'
  BY <1>2, ResumeStep, UseStep, StopStep, DeleteBeginStep, SweepStep, ExpireStep,
     ContainerLostStep
<1>3. CASE UNCHANGED vars
  <2>1. TypeOK'
    BY <1>3 DEF vars, records, engine, calls, LifecycleInv, TypeOK
  <2>2. StoreFrame /\ CallFrame
    BY <1>3 DEF vars, records, engine, calls, StoreFrame, CallFrame, Admits, Recorded, Owning,
                LifecycleInv, RecordInv
  <2> QED BY <2>1, <2>2, FrameStep DEF LifecycleInv
<1> QED BY <1>1, <1>2, <1>3, EnsureCheckStep, EnsureRunStep, DeleteFinishStep,
           RestartStep DEF Next

LEMMA Invariance == Spec => []LifecycleInv
BY InitInv, NextInv, PTL DEF Spec

\* Every reachable state is well typed (the store's columns, the engine's
\* objects and the callers' locals, controller.py and store.py).
THEOREM LifecycleTypeCorrect == Spec => []TypeOK
<1>1. LifecycleInv => TypeOK
  BY DEF LifecycleInv
<1> QED BY <1>1, Invariance, PTL

\* For any number of callers, keys and restarts, one idempotency key makes the
\* engine build at most one sandbox (begin_idempotent, store.py:299-328).
THEOREM CreateIsIdempotent == Spec => []AtMostOncePerKey
<1>1. LifecycleInv => AtMostOncePerKey
  BY DEF LifecycleInv, KeyInv
<1> QED BY <1>1, Invariance, PTL

\* create never hands a caller a sandbox of another session, limits or policy
\* (controller.py:331-388).
THEOREM CreateIsIsolated == Spec => []ViewIsOwn
<1>1. LifecycleInv => ViewIsOwn
  BY DEF LifecycleInv, ViewInv, ViewIsOwn
<1> QED BY <1>1, Invariance, PTL

\* A sandbox that still admits callers never loses its workspace volume, also not
\* to a delete or a sweep that fails half-way (controller.py:465-489, 516-585,
\* 1075-1123).
THEOREM WorkspaceIsKept == Spec => []WorkspaceKept
<1>1. LifecycleInv => WorkspaceKept
  BY DEF LifecycleInv
<1> QED BY <1>1, Invariance, PTL

\* A record marked DELETING is never revived, also not after a restart half-way
\* through the delete (controller.py:465-489, 542-585).
THEOREM DeletionIsFinal == Spec => DeleteIsFinal
<1> DEFINE Doomed == {"DELETING", "GONE"}
           Kept == \A s \in Sandboxes : state[s] \in Doomed => state'[s] \in Doomed
<1>1. ASSUME LifecycleInv, [Next]_vars PROVE Kept
  <2>1. state \in [Sandboxes -> States]
    BY <1>1 DEF LifecycleInv, TypeOK
  <2>2. ASSUME NEW t \in Callers, CreateInsert(t) PROVE Kept
    <3>1. mine[t] \in Sandboxes /\ state[mine[t]] = "NEW"
      BY <1>1, <2>2 DEF CreateInsert, LifecycleInv, MineInv
    <3>2. state' = state \/ state' = [state EXCEPT ![mine[t]] = "RUNNING"]
      BY <2>2 DEF CreateInsert
    <3> QED BY <2>1, <3>1, <3>2
  <2>3. ASSUME NEW s \in Sandboxes, Resume(s) \/ Stop(s) PROVE Kept
    <3>1. state[s] \in {"RUNNING", "STOPPED"}
      BY <2>3 DEF Resume, Stop, Admits, Recorded
    <3>2. \/ state' = [state EXCEPT ![s] = "RUNNING"]
          \/ state' = [state EXCEPT ![s] = "STOPPED"]
      BY <2>3 DEF Resume, Stop
    <3> QED BY <2>1, <3>1, <3>2
  <2>4. ASSUME NEW s \in Sandboxes, NEW d \in Doomed, state' = [state EXCEPT ![s] = d]
        PROVE  Kept
    BY <2>1, <2>4
  <2>5. ASSUME NEW s \in Sandboxes, DeleteBegin(s) \/ Sweep(s) PROVE Kept
    BY <2>4, <2>5 DEF DeleteBegin, Sweep, DeleteRecord, records
  <2>6. ASSUME DeleteFinish PROVE Kept
    <3>1. deleting \in Sandboxes
      BY <1>1, <2>6 DEF DeleteFinish, LifecycleInv, TypeOK
    <3> QED BY <2>4, <2>6, <3>1 DEF DeleteFinish, DeleteRecord
  <2>7. ASSUME NEW t \in Callers,
               \/ \E r \in Requests : CreateLookup(t, r)
               \/ CreateBegin(t) \/ CreateCount(t) \/ CreateLaunch(t)
               \/ CreateSettle(t) \/ CreateFail(t)
               \/ \E s \in Sandboxes : EnsureCheck(t, s)
               \/ EnsureRun(t)
        PROVE  state' = state
    BY <2>7 DEF CreateLookup, CreateBegin, CreateCount, CreateLaunch, CreateSettle,
                CreateFail, EnsureCheck, EnsureRun, records
  <2>8. ASSUME NEW s \in Sandboxes,
               Use(s) \/ UseFails(s) \/ Expire(s) \/ ContainerLost(s)
        PROVE  state' = state
    BY <2>8 DEF Use, UseFails, Expire, ContainerLost, records
  <2>9. ASSUME NEW old \in SUBSET Orphans, Restart(old) PROVE state' = state
    BY <2>9 DEF Restart, records
  <2>10. CASE UNCHANGED vars
    BY <2>10 DEF vars, records
  <2>11. state' = state => Kept
    OBVIOUS
  <2> QED BY <1>1, <2>2, <2>3, <2>5, <2>6, <2>7, <2>8, <2>9, <2>10, <2>11
          DEF Next, CreateStep
<1>2. ASSUME LifecycleInv, [Next]_vars
      PROVE  [\A s \in Sandboxes : state[s] \in {"DELETING", "GONE"}
                => state'[s] \in {"DELETING", "GONE"}]_vars
  BY <1>1, <1>2
<1> QED BY <1>2, Invariance, PTL DEF Spec, DeleteIsFinal

-----------------------------------------------------------------------------
(* Capacity. *)

\* Callers past the capacity test whose sandbox has no record yet.
Passed == {t \in Callers : pc[t] \in {"launch", "insert"}}

OvershootInv ==
    Cardinality(Active) + Cardinality(Passed) <= MaxActive - 1 + Cardinality(Callers)

LEMMA CountsAreNumbers ==
    /\ IsFiniteSet(Active) /\ Cardinality(Active) \in Nat
    /\ IsFiniteSet(Passed) /\ Cardinality(Passed) \in Nat
    /\ Cardinality(Callers) \in Nat /\ Cardinality(Passed) <= Cardinality(Callers)
    /\ MaxActive \in Nat \ {0}
<1>1. Active \in SUBSET Sandboxes /\ Passed \in SUBSET Callers
  BY DEF Active, Passed
<1> QED BY <1>1, LifecycleAssumption, FS_Subset, FS_CardinalityType

LEMMA CountsAreNumbersNext ==
    /\ IsFiniteSet(Active') /\ Cardinality(Active') \in Nat
    /\ IsFiniteSet(Passed') /\ Cardinality(Passed') \in Nat
    /\ Cardinality(Passed') <= Cardinality(Callers)
<1>1. Active' \in SUBSET Sandboxes /\ Passed' \in SUBSET Callers
  BY DEF Active, Passed
<1> QED BY <1>1, LifecycleAssumption, FS_Subset, FS_CardinalityType

\* A step after which nobody else has passed the test and nothing was revived.
LEMMA NoMoreStep ==
    ASSUME OvershootInv, Active' \subseteq Active, Passed' \subseteq Passed
    PROVE  OvershootInv'
<1>1. Cardinality(Active') <= Cardinality(Active)
  BY CountsAreNumbers, FS_Subset
<1>2. Cardinality(Passed') <= Cardinality(Passed)
  BY CountsAreNumbers, FS_Subset
<1> QED BY <1>1, <1>2, CountsAreNumbers, CountsAreNumbersNext DEF OvershootInv

\* The test lets a caller pass only while there is room for all records there are.
LEMMA CountStep ==
    ASSUME LifecycleInv, OvershootInv, NEW t \in Callers, CreateCount(t)
    PROVE  OvershootInv'
<1>1. pc \in [Callers -> PCs] /\ pc[t] = "count" /\ state' = state
  BY DEF CreateCount, LifecycleInv, TypeOK, records
<1>2. Active' = Active
  BY <1>1 DEF Active
<1>3. CASE Full
  <2>1. Passed' \subseteq Passed
    BY <1>1, <1>3 DEF CreateCount, Answer, Passed
  <2> QED BY <1>2, <2>1, NoMoreStep
<1>4. CASE ~Full
  <2>1. Cardinality(Active) <= MaxActive - 1
    BY <1>4, CountsAreNumbers DEF Full
  <2>2. Cardinality(Active') <= MaxActive - 1
    BY <1>2, <2>1
  <2> QED BY <2>2, CountsAreNumbers, CountsAreNumbersNext DEF OvershootInv
<1> QED BY <1>3, <1>4

\* The caller that inserts its record is no longer one that will.
LEMMA InsertStep ==
    ASSUME LifecycleInv, OvershootInv, NEW t \in Callers, CreateInsert(t)
    PROVE  OvershootInv'
<1>1. /\ pc \in [Callers -> PCs] /\ pc[t] = "insert"
      /\ state \in [Sandboxes -> States] /\ mine[t] \in Sandboxes
      /\ state[mine[t]] = "NEW"
  BY DEF CreateInsert, LifecycleInv, TypeOK, MineInv
<1>2. Passed' = Passed \ {t} /\ t \in Passed
  BY <1>1 DEF CreateInsert, Goto, Passed
<1>3. Cardinality(Passed') = Cardinality(Passed) - 1
  BY <1>2, CountsAreNumbers, FS_RemoveElement
<1>4. CASE state' = [state EXCEPT ![mine[t]] = "RUNNING"]
  <2>1. Active' = Active \cup {mine[t]} /\ mine[t] \notin Active
    BY <1>1, <1>4 DEF Active
  <2>2. Cardinality(Active') = Cardinality(Active) + 1
    BY <2>1, CountsAreNumbers, FS_AddElement
  <2> QED BY <1>3, <2>2, CountsAreNumbers DEF OvershootInv
<1>5. CASE state' = state
  BY <1>2, <1>5, NoMoreStep DEF Active
<1> QED BY <1>4, <1>5 DEF CreateInsert

LEMMA StepOvershootInv == LifecycleInv /\ OvershootInv /\ [Next]_vars => OvershootInv'
<1> SUFFICES ASSUME LifecycleInv, OvershootInv, [Next]_vars PROVE OvershootInv'
  OBVIOUS
<1> USE DEF LifecycleInv
<1>1. pc \in [Callers -> PCs] /\ state \in [Sandboxes -> States]
  BY DEF TypeOK
<1>2. ASSUME NEW t \in Callers,
             \/ \E r \in Requests : CreateLookup(t, r)
             \/ CreateBegin(t) \/ CreateLaunch(t) \/ CreateSettle(t) \/ CreateFail(t)
             \/ EnsureRun(t) \/ \E s \in Sandboxes : EnsureCheck(t, s)
      PROVE  state' = state /\ Passed' \subseteq Passed
  <2>1. state' = state
    BY <1>2 DEF CreateLookup, CreateBegin, CreateLaunch, CreateSettle, CreateFail,
                EnsureRun, EnsureCheck, records
  <2>2. /\ \A u \in Callers \ {t} : pc'[u] = pc[u]
        /\ pc'[t] \in {"launch", "insert"} => pc[t] \in {"launch", "insert"}
    BY <1>1, <1>2 DEF CreateLookup, CreateBegin, CreateLaunch, CreateSettle,
                      CreateFail, EnsureRun, EnsureCheck, Goto, Answer
  <2> QED BY <2>1, <2>2 DEF Passed
<1>3. ASSUME NEW s \in Sandboxes, Resume(s) \/ Stop(s)
      PROVE  Active' \subseteq Active /\ Passed' = Passed
  BY <1>1, <1>3 DEF Resume, Stop, Admits, Recorded, Active, Passed, calls, States
<1>4. ASSUME NEW s \in Sandboxes,
             \/ Use(s) \/ UseFails(s) \/ Expire(s) \/ ContainerLost(s)
             \/ DeleteBegin(s) \/ Sweep(s)
      PROVE  Active' \subseteq Active /\ Passed' = Passed
  BY <1>1, <1>4 DEF Use, UseFails, Expire, ContainerLost, DeleteBegin, Sweep,
                    DeleteRecord, records, calls, Active, Passed
<1>5. ASSUME DeleteFinish
      PROVE  Active' \subseteq Active /\ Passed' = Passed
  BY <1>1, <1>5 DEF DeleteFinish, DeleteRecord, calls, Active, Passed, TypeOK
<1>6. ASSUME NEW old \in SUBSET Orphans, Restart(old)
      PROVE  Active' \subseteq Active /\ Passed' \subseteq Passed
  BY <1>6 DEF Restart, records, Active, Passed
<1>7. CASE UNCHANGED vars
  BY <1>7, NoMoreStep DEF vars, records, calls, Active, Passed
<1>8. state' = state => Active' \subseteq Active
  BY DEF Active
<1> QED BY <1>2, <1>3, <1>4, <1>5, <1>6, <1>7, <1>8, NoMoreStep, CountStep, InsertStep
        DEF Next, CreateStep

\* Callers that test the capacity together overshoot max_active by at most all of
\* them but one (controller.py:372, 385-388).
THEOREM CapacityIsBounded == Spec => []OvershootIsBounded
<1>1. Init => OvershootInv
  <2> SUFFICES ASSUME Init PROVE OvershootInv
    OBVIOUS
  <2>1. Active = {} /\ Passed = {}
    BY DEF Init, Active, Passed
  <2>2. Cardinality(Active) = 0 /\ Cardinality(Passed) = 0
    BY <2>1, FS_EmptySet
  <2> QED BY <2>2, CountsAreNumbers DEF OvershootInv
<1>2. LifecycleInv /\ OvershootInv /\ [Next]_vars => OvershootInv'
  BY StepOvershootInv
<1>3. OvershootInv => OvershootIsBounded
  BY CountsAreNumbers DEF OvershootInv, OvershootIsBounded
<1> QED BY <1>1, <1>2, <1>3, Invariance, PTL DEF Spec

-----------------------------------------------------------------------------
(* Keys that are lost. *)

\* Nobody works under the key, and its entry cannot be answered with a sandbox:
\* it is in progress for nobody, has failed, or names a sandbox that is gone.
Lost(k) ==
    /\ \A t \in Callers : Owning(t) => Slot(ask[t]) # k
    /\ \/ ledger[k].state \in {"in_progress", "failed"}
       \/ ledger[k].state = "succeeded" /\ state[ledger[k].sandbox] = "GONE"

\* Nothing changes that, and a create that asks the ledger for the key gets nothing.
StaysLost(k) ==
    Lost(k) =>
        /\ Lost(k)' /\ ledger'[k] = ledger[k]
        /\ \A t \in Callers :
             pc[t] = "begin" /\ Slot(ask[t]) = k /\ pc'[t] # "begin"
               => pc'[t] = "idle" /\ ans'[t] # "view"

LEMMA GoneStays ==
    ASSUME LifecycleInv, [Next]_vars, NEW s \in Sandboxes, state[s] = "GONE"
    PROVE  state'[s] = "GONE"
<1>1. state \in [Sandboxes -> States]
  BY DEF LifecycleInv, TypeOK
<1>2. ASSUME NEW t \in Callers, CreateInsert(t) PROVE state'[s] = "GONE"
  <2>1. state[mine[t]] = "NEW"
    BY <1>2 DEF CreateInsert, LifecycleInv, MineInv
  <2>2. state' = state \/ state' = [state EXCEPT ![mine[t]] = "RUNNING"]
    BY <1>2 DEF CreateInsert
  <2> QED BY <1>1, <2>1, <2>2
<1>3. ASSUME NEW q \in Sandboxes, Resume(q) \/ Stop(q) \/ DeleteBegin(q) \/ Sweep(q)
      PROVE  state'[s] = "GONE"
  <2>1. state[q] # "GONE" \/ Sweep(q)
    BY <1>3 DEF Resume, Stop, DeleteBegin, Admits, Recorded
  <2>2. \/ state' = state
        \/ \E d \in States : state' = [state EXCEPT ![q] = d] /\ (Sweep(q) => d = "GONE")
    BY <1>3 DEF Resume, Stop, DeleteBegin, Sweep, DeleteRecord, Admits, Recorded, States,
                records
  <2> QED BY <1>1, <2>1, <2>2
<1>4. ASSUME DeleteFinish PROVE state'[s] = "GONE"
  BY <1>1, <1>4 DEF DeleteFinish, DeleteRecord
<1>5. ASSUME NEW t \in Callers,
             \/ \E r \in Requests : CreateLookup(t, r)
             \/ CreateBegin(t) \/ CreateCount(t) \/ CreateLaunch(t)
             \/ CreateSettle(t) \/ CreateFail(t)
             \/ \E q \in Sandboxes : EnsureCheck(t, q)
             \/ EnsureRun(t)
      PROVE  state' = state
  BY <1>5 DEF CreateLookup, CreateBegin, CreateCount, CreateLaunch, CreateSettle,
              CreateFail, EnsureCheck, EnsureRun, records
<1>6. ASSUME NEW q \in Sandboxes,
             Use(q) \/ UseFails(q) \/ Expire(q) \/ ContainerLost(q)
      PROVE  state' = state
  BY <1>6 DEF Use, UseFails, Expire, ContainerLost, records
<1>7. ASSUME NEW old \in SUBSET Orphans, Restart(old) PROVE state' = state
  BY <1>7 DEF Restart, records
<1>8. CASE UNCHANGED vars
  BY <1>8 DEF vars, records
<1> QED BY <1>2, <1>3, <1>4, <1>5, <1>6, <1>7, <1>8 DEF Next, CreateStep

\* A step of callers that enters no work under the key leaves it lost.
LEMMA LostStep ==
    ASSUME LifecycleInv, [Next]_vars, NEW k \in Slots, Lost(k), ledger'[k] = ledger[k],
           \A t \in Callers : Owning(t)' => Slot(ask'[t]) # k
    PROVE  Lost(k)'
<1>1. ledger[k].state = "succeeded" => ledger[k].sandbox \in Sandboxes
  BY DEF LifecycleInv, RecordInv
<1> QED BY <1>1, GoneStays DEF Lost

LEMMA StepStaysLost ==
    ASSUME LifecycleInv, [Next]_vars, NEW k \in Slots
    PROVE  StaysLost(k)
<1> SUFFICES ASSUME Lost(k)
             PROVE  /\ Lost(k)' /\ ledger'[k] = ledger[k]
                    /\ \A t \in Callers :
                         pc[t] = "begin" /\ Slot(ask[t]) = k /\ pc'[t] # "begin"
                           => pc'[t] = "idle" /\ ans'[t] # "view"
  BY DEF StaysLost
<1> DEFINE Goal == /\ Lost(k)' /\ ledger'[k] = ledger[k]
                   /\ \A t \in Callers :
                        pc[t] = "begin" /\ Slot(ask[t]) = k /\ pc'[t] # "begin"
                          => pc'[t] = "idle" /\ ans'[t] # "view"
<1>1. /\ pc \in [Callers -> PCs] /\ ask \in [Callers -> Requests]
      /\ ans \in [Callers -> Answers] /\ ledger \in [Slots -> Entries]
      /\ \A t \in Callers : Slot(ask[t]) \in Slots
  <2>1. /\ pc \in [Callers -> PCs] /\ ask \in [Callers -> Requests]
        /\ ans \in [Callers -> Answers] /\ ledger \in [Slots -> Entries]
    BY DEF LifecycleInv, TypeOK
  <2> QED BY <2>1, SlotType
<1>2. ASSUME ledger' = ledger, UNCHANGED calls PROVE Goal
  BY <1>2, LostStep DEF Lost, calls, Owning
<1>3. ASSUME NEW t \in Callers, CreateBegin(t) PROVE Goal
  <2>1. /\ \A u \in Callers \ {t} : pc'[u] = pc[u]
        /\ ask' = ask /\ pc[t] = "begin"
    BY <1>1, <1>3 DEF CreateBegin, Goto, Answer
  <2>2. CASE ledger[Slot(ask[t])].state = "absent"
    <3>1. Slot(ask[t]) # k
      BY <2>2 DEF Lost
    <3>2. ledger'[k] = ledger[k]
      BY <1>1, <1>3, <2>2, <3>1 DEF CreateBegin, Claimable
    <3>3. \A u \in Callers : Owning(u)' => Slot(ask'[u]) # k
      BY <2>1, <3>1 DEF Owning, Lost
    <3> QED BY <2>1, <3>1, <3>2, <3>3, LostStep
  <2>3. CASE ledger[Slot(ask[t])].state # "absent"
    <3>1. /\ ledger' = ledger /\ pc'[t] = "idle"
          /\ ans'[t] = "view" => LET e == ledger[Slot(ask[t])] IN
                                   e.state = "succeeded" /\ Recorded(e.sandbox)
      BY <1>1, <1>3, <2>3 DEF CreateBegin, Claimable, Answer
    <3>2. \A u \in Callers : Owning(u)' => Slot(ask'[u]) # k
      BY <2>1, <3>1 DEF Owning, Lost
    <3>3. Slot(ask[t]) = k => ans'[t] # "view"
      BY <3>1 DEF Lost, Recorded
    <3> QED BY <2>1, <3>1, <3>2, <3>3, LostStep
  <2> QED BY <2>2, <2>3
<1>4. ASSUME NEW t \in Callers, CreateSettle(t) \/ CreateFail(t) PROVE Goal
  <2>1. Slot(ask[t]) # k
    BY <1>4 DEF CreateSettle, CreateFail, Lost, Owning
  <2>2. /\ ledger'[k] = ledger[k] /\ ask' = ask /\ pc'[t] = "idle"
        /\ \A u \in Callers \ {t} : pc'[u] = pc[u]
    BY <1>1, <1>4, <2>1 DEF CreateSettle, CreateFail, Answer
  <2>3. \A u \in Callers : Owning(u)' => Slot(ask'[u]) # k
    BY <2>2 DEF Owning, Lost
  <2> QED BY <2>1, <2>2, <2>3, LostStep
<1>5. ASSUME NEW t \in Callers,
             \/ \E r \in Requests : CreateLookup(t, r)
             \/ CreateCount(t) \/ CreateLaunch(t) \/ CreateInsert(t)
             \/ \E s \in Sandboxes : EnsureCheck(t, s)
             \/ EnsureRun(t)
      PROVE  Goal
  <2>1. /\ ledger' = ledger /\ pc[t] # "begin"
        /\ \A u \in Callers \ {t} : pc'[u] = pc[u] /\ ask'[u] = ask[u]
        /\ Owning(t)' => Owning(t) /\ ask'[t] = ask[t]
    BY <1>1, <1>5 DEF CreateLookup, CreateCount, CreateLaunch, CreateInsert, EnsureCheck,
                      EnsureRun, Goto, Answer, Owning
  <2>2. \A u \in Callers : Owning(u)' => Slot(ask'[u]) # k
    BY <2>1 DEF Owning, Lost
  <2> QED BY <2>1, <2>2, LostStep
<1>6. ASSUME NEW s \in Sandboxes,
             \/ Resume(s) \/ Use(s) \/ UseFails(s) \/ Stop(s)
             \/ DeleteBegin(s) \/ Sweep(s) \/ Expire(s) \/ ContainerLost(s)
      PROVE  Goal
  BY <1>2, <1>6 DEF Resume, Use, UseFails, Stop, DeleteBegin, Sweep, Expire, ContainerLost
<1>7. CASE DeleteFinish \/ UNCHANGED vars
  BY <1>2, <1>7 DEF DeleteFinish, vars
<1>8. ASSUME NEW old \in SUBSET Orphans, Restart(old) PROVE Goal
  <2>1. /\ ledger' = ledger
        /\ \A u \in Callers : pc'[u] = "idle" /\ ans'[u] = "none"
    BY <1>8 DEF Restart
  <2> QED BY <2>1, LostStep DEF Owning
<1> QED BY <1>3, <1>4, <1>5, <1>6, <1>7, <1>8 DEF Next, CreateStep

\* What the comment at controller.py:361-363 does not say: a key whose sandbox was
\* swept, whose create failed, or whose caller died or was refused for capacity is lost
\* for ever; no create that asks the ledger for it is given a sandbox.
THEOREM LostKeysStayLost == Spec => [][\A k \in Slots : StaysLost(k)]_vars
<1>1. LifecycleInv /\ [Next]_vars => [\A k \in Slots : StaysLost(k)]_vars
  BY StepStaysLost
<1> QED BY <1>1, Invariance, PTL DEF Spec
=============================================================================

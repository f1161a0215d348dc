------------------------- MODULE LearningBuildProofs -------------------------
(***************************************************************************)
(* A build moves on and keeps what was paid for, and does with its job     *)
(* only what FencedWork allows, for any number of builds and workers and   *)
(* any stages.                                                             *)
(*                                                                         *)
(* A worker whose copy of the token is the row's has a job that is leased, *)
(* and a cancelled build has none (Copies, RowsHaveJobs).  As long as no   *)
(* worker was told the token of a successor, those workers are the current *)
(* ones (FenceExact), and a current one that runs a stage finds the build  *)
(* running and at that stage (CurrentRuns), whoever has touched the row    *)
(* since.  If no lease has run out under a live worker either, a worker    *)
(* is current or the build was cancelled, and it is alone (Alone).  And if *)
(* no learner has started either, nobody but it wrote the checkpoints      *)
(* since its snapshot (SnapshotsRight), which is why saving the snapshot   *)
(* without a fence loses nothing, and why the calls of a part can be read  *)
(* off the stage and its replays (CallsCounted).                           *)
(***************************************************************************)
EXTENDS LearningBuild, TLAPS

States == {"none", "open", "held", "settled"}

\* The queue's part.
QueueTypeOK ==
    /\ state \in [Items -> States]
    /\ work \in [Workers -> Items \cup {None}]
    /\ current \subseteq Workers

\* One worker is current for an item, which is held then; an item that is worked
\* on exists.
HeldByOne ==
    /\ \A w \in current : work[w] # None /\ state[work[w]] = "held"
    /\ \A v, w \in current : work[v] = work[w] => v = w
    /\ \A w \in Workers : work[w] # None => state[work[w]] # "none"

\* A worker has a job exactly while it is in the handler or about to report.
HandsBusy == \A w \in Workers : hand[w].at = "none" <=> work[w] = None

\* A build has its row when it has its job; the job of a cancelled one is settled.
RowsHaveJobs ==
    \A j \in Items :
        /\ build[j].st = "none" <=> state[j] = "none"
        /\ build[j].st = "none" => build[j].stage = 0
        /\ build[j].st = "cancelled" => state[j] = "settled"

\* A worker that was told the row's token is at work on it, and a worker that is
\* current was told.
Copies ==
    /\ \A w \in copied : work[w] # None /\ state[work[w]] = "held"
    /\ \A w \in current : hand[w].at # "claimed" => w \in copied

FenceExact == copied \subseteq current

\* Past the last stage a build is published.
Finished == \A j \in Items : build[j].stage = Last + 1 => build[j].st = "ready"

\* A worker that runs a stage, or waits for its end.
Working(w) == hand[w].at \in {"work", "absorbed", "publish"}

\* What a worker knows of the stage it runs: what was not answered has failed.
StagesRun ==
    \A w \in Workers : Working(w) =>
        /\ hand[w].ck.inflight = hand[w].stage
        /\ hand[w].at = "publish" <=> hand[w].stage >= Last
        /\ hand[w].at # "work" => hand[w].todo = {}
        /\ hand[w].at # "publish" /\ ~hand[w].failed
             => Needs[hand[w].stage] \subseteq hand[w].ck.parts \cup hand[w].todo

CurrentRuns ==
    \A w \in current : Working(w) =>
        build[work[w]].st = "running" /\ build[work[w]].stage = hand[w].stage

Alone ==
    /\ \A w \in Workers : Working(w) =>
         /\ w \in current \/ build[work[w]].st = "cancelled"
         /\ build[work[w]].stage = hand[w].stage
    /\ \A v, w \in Workers : Working(v) /\ Working(w) /\ work[v] = work[w] => v = w

SnapshotsRight ==
    \A w \in Workers : Working(w) =>
        /\ ck[work[w]].parts \subseteq hand[w].ck.parts
        /\ ck[work[w]].inflight = hand[w].ck.inflight
        /\ ck[work[w]].replays = hand[w].ck.replays

\* A part that is not there was asked for in this stage only, and once more than
\* the stage was begun again.
CallsCounted ==
    \A j \in Items, p \in AllParts :
        LET s == build[j].stage IN
        IF p \in ck[j].parts THEN calls[j][p] <= ReplayLimit + 1
        ELSE IF s < Last /\ p \in Needs[s] /\ ck[j].inflight = s
        THEN calls[j][p] <= ck[j].replays[s] + 1
        ELSE calls[j][p] = 0

BuildInv ==
    /\ LearningTypeOK /\ QueueTypeOK /\ HeldByOne /\ HandsBusy
    /\ RowsHaveJobs /\ StagesRun /\ Copies
    /\ ~adopted => FenceExact /\ Finished /\ CurrentRuns
    /\ Orderly => Alone
    /\ Orderly /\ ~node.engaged => SnapshotsRight /\ CallsCounted

-----------------------------------------------------------------------------
(* Types.                                                                  *)

Builds == [st : {"none", "ready", "failed", "skipped", "cancelled"} \cup Active,
           stage : 0..(Last + 1), trigger : Triggers, epoch : Nat, print : Nat]

Packs == [kind : {"none", "draft", "published"}, parts : SUBSET AllParts]

Nodes == [engaged : BOOLEAN, current : Items \cup {None}, print : Nat, on : BOOLEAN,
          epoch : Nat]

Hands == [at : {"none", "claimed", "begin", "work", "absorbed", "publish", "complete",
                "rearm", "raise"},
          stage : 0..(Last + 1), ck : Checkpoints, todo : SUBSET AllParts, failed : BOOLEAN]

LEMMA Typed ==
    LearningTypeOK <=>
      /\ build \in [Items -> Builds] /\ ck \in [Items -> Checkpoints]
      /\ pack \in [Items -> Packs] /\ node \in Nodes /\ hand \in [Workers -> Hands]
      /\ learner \in [job : Items \cup {None}, ck : Checkpoints]
      /\ calls \in [Items -> [AllParts -> Nat]] /\ copied \subseteq Workers
      /\ trouble \in 0..MaxTrouble /\ late \in BOOLEAN /\ adopted \in BOOLEAN
BY DEF LearningTypeOK, Builds, Packs, Nodes, Hands

LEMMA NothingYet ==
    /\ NoCheckpoints \in Checkpoints /\ NoHand \in Hands /\ NoHand.at = "none"
    /\ NoCheckpoints.parts = {}
<1>1. [s \in 0..(Last + 1) |-> 0] \in [0..(Last + 1) -> 0..ReplayLimit]
    BY BuildAssumption
<1>2. NoCheckpoints \in Checkpoints /\ NoCheckpoints.parts = {}
    BY <1>1 DEF NoCheckpoints, Checkpoints
<1>3. 0 \in 0..(Last + 1)
    BY BuildAssumption
<1> HIDE DEF NoCheckpoints, Checkpoints
<1> QED BY <1>2, <1>3 DEF NoHand, Hands

LEMMA StageNeeds ==
    /\ \A s \in 0..(Last + 1) : ~(s >= Last) => s \in DOMAIN Needs
    /\ \A s \in DOMAIN Needs : s \in 0..(Last + 1) /\ s < Last /\ Needs[s] \subseteq AllParts
BY BuildAssumption DEF AllParts

LEMMA HandedBack ==
    ASSUME hand \in [Workers -> Hands], NEW w \in Workers,
           NEW how \in {"claimed", "begin", "complete", "rearm", "raise"}, HandBack(w, how)
    PROVE  \E x \in Hands : x.at = how /\ hand' = [hand EXCEPT ![w] = x]
<1> DEFINE x == [NoHand EXCEPT !.at = how]
<1>1. x \in Hands /\ x.at = how
    BY NothingYet DEF Hands
<1>2. hand' = [hand EXCEPT ![w] = x]
    BY DEF HandBack
<1> HIDE DEF x
<1> QED BY <1>1, <1>2

\* The changes that are made to checkpoints.
LEMMA Written ==
    ASSUME NEW c \in Checkpoints
    PROVE  /\ \A p \in AllParts :
                /\ [c EXCEPT !.parts = @ \cup {p}] \in Checkpoints
                /\ [c EXCEPT !.parts = @ \cup {p}].parts = c.parts \cup {p}
                /\ [c EXCEPT !.parts = @ \cup {p}].inflight = c.inflight
                /\ [c EXCEPT !.parts = @ \cup {p}].replays = c.replays
           /\ [c EXCEPT !.inflight = None] \in Checkpoints
           /\ [c EXCEPT !.inflight = None].parts = c.parts
           /\ [c EXCEPT !.started = TRUE] \in Checkpoints
BY DEF Checkpoints

LEMMA MarkedRight ==
    ASSUME NEW c \in Checkpoints, NEW s \in 0..(Last + 1),
           ~(c.inflight = s /\ c.replays[s] >= ReplayLimit)
    PROVE  /\ Marked(c, s) \in Checkpoints /\ Marked(c, s).parts = c.parts
           /\ Marked(c, s).inflight = s
           /\ Marked(c, s).replays[s] = IF c.inflight = s THEN c.replays[s] + 1
                                        ELSE c.replays[s]
<1> DEFINE n == IF c.inflight = s THEN c.replays[s] + 1 ELSE c.replays[s]
           r == [c.replays EXCEPT ![s] = n]
           m == [c EXCEPT !.inflight = s, !.replays = r]
<1>1. c.replays \in [0..(Last + 1) -> 0..ReplayLimit]
    BY DEF Checkpoints
<1>2. n \in 0..ReplayLimit
    BY <1>1, BuildAssumption
<1>3. r \in [0..(Last + 1) -> 0..ReplayLimit] /\ r[s] = n
    BY <1>1, <1>2
<1>4. Marked(c, s) = m
    BY DEF Marked, Checkpoints
<1> HIDE DEF n, r
<1>5. m \in Checkpoints /\ m.parts = c.parts /\ m.inflight = s /\ m.replays = r
    BY <1>3 DEF Checkpoints
<1> QED BY <1>3, <1>4, <1>5 DEF n

\* A worker that is in the handler has an item.
LEMMA AtWork ==
    ASSUME QueueTypeOK, HandsBusy, LearningTypeOK, NEW w \in Workers, hand[w].at # "none"
    PROVE  work[w] \in Items /\ hand[w] \in Hands /\ hand[w].ck \in Checkpoints
<1>1. hand[w] \in Hands
    BY Typed
<1> QED BY <1>1 DEF QueueTypeOK, HandsBusy, Hands

\* The four ends of the first transaction, and what it leaves alone.
Started(w, j, s, c) ==
    /\ s \in 0..(Last + 1) /\ c \in Checkpoints /\ c = Marked(ck[j], s)
    /\ w \in copied /\ build[j].st \in Active /\ ~ReplaysUsedUp(j) /\ s = build[j].stage
    /\ UNCHANGED <<work_vars, copied, used>>
    /\ build' = [build EXCEPT ![j].st = "running"]
    /\ ck' = [ck EXCEPT ![j] = c]
    /\ calls' = [calls EXCEPT ![j] = [p \in AllParts |->
                    IF p \in Missing(c, s) THEN @[p] + 1 ELSE @[p]]]
    /\ \E x \in Hands :
         /\ hand' = [hand EXCEPT ![w] = x]
         /\ x.at = IF s >= Last THEN "publish"
                   ELSE IF Missing(c, s) # {} THEN "work" ELSE "absorbed"
         /\ x.stage = s /\ x.ck = c /\ x.todo = Missing(c, s) /\ x.failed = FALSE

LEMMA BeginEnds ==
    ASSUME LearningTypeOK, QueueTypeOK, HandsBusy, RowsHaveJobs,
           NEW w \in Workers, Begin(w), NEW j, j = work[w]
    PROVE  /\ j \in Items /\ hand[w].at = "begin" /\ UNCHANGED <<pack, node, learner>>
           /\ \/ /\ UNCHANGED <<ck, calls>>
                 /\ \E x \in Hands : x.at \in {"complete", "raise"}
                                     /\ hand' = [hand EXCEPT ![w] = x]
                 /\ \/ UNCHANGED <<build, work_vars, copied>> /\ (UNCHANGED used \/ RunsOut)
                    \/ /\ w \in copied /\ build[j].st \in Active
                       /\ UNCHANGED <<work_vars, copied, used>>
                       /\ \E o \in {"skipped", "failed"} :
                             build' = [build EXCEPT ![j].st = o]
              \/ Started(w, j, build[j].stage, Marked(ck[j], build[j].stage))
<1> DEFINE s == build[j].stage
           c == Marked(ck[j], s)
<1>1. j \in Items /\ hand[w].at = "begin" /\ UNCHANGED <<pack, node, learner>>
    BY AtWork DEF Begin
<1>2. hand \in [Workers -> Hands] /\ build[j] \in Builds /\ ck[j] \in Checkpoints
    BY <1>1, Typed
<1>3. ASSUME NEW how \in {"complete", "raise"}, HandBack(w, how)
      PROVE  \E x \in Hands : x.at \in {"complete", "raise"} /\ hand' = [hand EXCEPT ![w] = x]
    BY <1>2, <1>3, HandedBack
<1>4. CASE UNCHANGED <<work_vars, copied, build, ck, calls, used>> /\ HandBack(w, "complete")
    BY <1>1, <1>3, <1>4
<1>5. CASE FenceFails(w) /\ HandBack(w, "raise") /\ UNCHANGED <<build, ck, calls>>
    BY <1>1, <1>3, <1>5 DEF FenceFails
<1>6. CASE /\ build[j].st \in Active /\ Pass(w) /\ HandBack(w, "complete")
           /\ \E o \in {"skipped", "failed"} : build' = [build EXCEPT ![j].st = o]
           /\ UNCHANGED <<ck, calls>>
    BY <1>1, <1>3, <1>6 DEF Pass, LeaseFence
<1>7. CASE /\ build[j].st \in Active /\ Pass(w) /\ ~ReplaysUsedUp(j)
           /\ build' = [build EXCEPT ![j].st = "running"]
           /\ ck' = [ck EXCEPT ![j] = c]
           /\ calls' = [calls EXCEPT ![j] = [p \in AllParts |->
                 IF p \in Missing(c, s) THEN @[p] + 1 ELSE @[p]]]
           /\ hand' = [hand EXCEPT ![w] =
                 [at |-> CASE s >= Last -> "publish"
                           [] Missing(c, s) # {} -> "work"
                           [] OTHER -> "absorbed",
                  stage |-> s, ck |-> c, todo |-> Missing(c, s), failed |-> FALSE]]
    <2>1. s \in 0..(Last + 1)
        BY <1>2 DEF Builds
    <2>2. c \in Checkpoints
        BY <1>2, <1>7, <2>1, MarkedRight DEF ReplaysUsedUp
    <2>3. Missing(c, s) \subseteq AllParts
        BY <2>1, StageNeeds DEF Missing
    <2> DEFINE x == [at |-> IF s >= Last THEN "publish"
                            ELSE IF Missing(c, s) # {} THEN "work" ELSE "absorbed",
                     stage |-> s, ck |-> c, todo |-> Missing(c, s), failed |-> FALSE]
    <2> HIDE DEF c, s
    <2>4. x \in Hands
        BY <2>1, <2>2, <2>3 DEF Hands
    <2>5. hand' = [hand EXCEPT ![w] = x]
        <3>1. (CASE s >= Last -> "publish" [] Missing(c, s) # {} -> "work" [] OTHER -> "absorbed")
                = IF s >= Last THEN "publish" ELSE IF Missing(c, s) # {} THEN "work" ELSE "absorbed"
            BY DEF Missing
        <3> QED BY <1>7, <3>1
    <2>6. Started(w, j, s, c)
        <3>1. \E y \in Hands :
                /\ hand' = [hand EXCEPT ![w] = y]
                /\ y.at = IF s >= Last THEN "publish"
                          ELSE IF Missing(c, s) # {} THEN "work" ELSE "absorbed"
                /\ y.stage = s /\ y.ck = c /\ y.todo = Missing(c, s) /\ y.failed = FALSE
            BY <2>4, <2>5
        <3>2. c = Marked(ck[j], s) /\ s = build[j].stage
            BY DEF c, s
        <3> QED BY <1>7, <2>1, <2>2, <3>1, <3>2 DEF Started, Pass, LeaseFence
    <2> QED BY <1>1, <2>6 DEF c, s
<1> QED BY <1>4, <1>5, <1>6, <1>7 DEF Begin

\* Answers are waited for: the snapshot grows, and is saved or not.
Waits(w, j) ==
    \E x \in Hands :
        /\ hand' = [hand EXCEPT ![w] = x] /\ hand[w].at = "work"
        /\ x.at \in {"work", "absorbed"} /\ (x.at = "absorbed" => x.todo = {})
        /\ x.stage = hand[w].stage
        /\ x.ck \in Checkpoints /\ hand[w].ck.parts \subseteq x.ck.parts
        /\ x.ck.inflight = hand[w].ck.inflight /\ x.ck.replays = hand[w].ck.replays
        /\ ~x.failed => /\ ~hand[w].failed
                        /\ hand[w].ck.parts \cup hand[w].todo \subseteq x.ck.parts \cup x.todo
        /\ UNCHANGED <<work_vars, copied, build, node, learner, calls, used>>
        /\ UNCHANGED ck \/ ck' = [ck EXCEPT ![j] = x.ck]
        /\ pack' \in [Items -> Packs]

\* The handler is over, with or without a change of the build.
Over(w, j) ==
    /\ \E x \in Hands : x.at \in {"complete", "rearm", "raise"} /\ hand' = [hand EXCEPT ![w] = x]
    /\ UNCHANGED <<work_vars, copied, learner, calls>>
    /\ UNCHANGED used \/ RunsOut
    /\ \/ UNCHANGED <<build, ck, pack, node>>
       \/ /\ w \in copied /\ UNCHANGED used
          /\ ~adopted => build[j].st \in Active
          /\ \/ /\ \E o \in {"skipped", "failed"} : build' = [build EXCEPT ![j].st = o]
                /\ UNCHANGED <<ck, pack, node>>
             \/ /\ hand[w].at = "absorbed" /\ ~hand[w].failed
                /\ hand[w].stage < Last
                /\ ~adopted => build[j].stage = hand[w].stage
                /\ build' = [build EXCEPT ![j].stage = hand[w].stage + 1]
                /\ ck' = [ck EXCEPT ![j] = [hand[w].ck EXCEPT !.inflight = None]]
                /\ pack' \in [Items -> Packs] /\ UNCHANGED node
             \/ /\ hand[w].at = "publish"
                /\ ~adopted => build[j].stage = Last
                /\ build' = [build EXCEPT ![j].st = "ready", ![j].stage = Last + 1]
                /\ pack' = [pack EXCEPT ![j] = [kind |-> "published", parts |-> AllParts]]
                /\ node' = [node EXCEPT !.current = j]
                /\ UNCHANGED ck

LEMMA Synced ==
    ASSUME pack \in [Items -> Packs], NEW j \in Items, NEW parts \in SUBSET AllParts,
           Sync(j, parts)
    PROVE  pack' \in [Items -> Packs]
BY DEF Sync, Packs

LEMMA AnswerWaits ==
    ASSUME LearningTypeOK, QueueTypeOK, HandsBusy, NEW w \in Workers, NEW p \in AllParts,
           Answer(w, p) \/ NoAnswer(w, p), NEW j, j = work[w]
    PROVE  Waits(w, j)
<1>1. hand[w].at = "work" /\ p \in hand[w].todo
    BY DEF Answer, NoAnswer
<1>2. j \in Items /\ hand[w] \in Hands /\ hand[w].ck \in Checkpoints
    BY <1>1, AtWork
<1>3. hand \in [Workers -> Hands] /\ pack \in [Items -> Packs]
    BY Typed
<1>4. CASE NoAnswer(w, p)
    <2> DEFINE x == [hand[w] EXCEPT !.todo = @ \ {p}, !.failed = TRUE]
    <2>1. /\ x \in Hands /\ x.at = "work" /\ x.stage = hand[w].stage /\ x.ck = hand[w].ck
          /\ x.failed = TRUE
        BY <1>1, <1>2 DEF Hands
    <2>2. hand' = [hand EXCEPT ![w] = x]
        BY <1>4 DEF NoAnswer
    <2> HIDE DEF x
    <2> QED BY <1>1, <1>2, <1>3, <1>4, <2>1, <2>2 DEF NoAnswer, Waits
<1>5. CASE Answer(w, p)
    <2> DEFINE c == [hand[w].ck EXCEPT !.parts = @ \cup {p}]
               x == [hand[w] EXCEPT !.todo = @ \ {p}, !.ck = c]
    <2>1. /\ c \in Checkpoints /\ c.parts = hand[w].ck.parts \cup {p}
          /\ c.inflight = hand[w].ck.inflight /\ c.replays = hand[w].ck.replays
        BY <1>2, Written
    <2>2. hand' = [hand EXCEPT ![w] = x]
        BY <1>5 DEF Answer
    <2>3. UNCHANGED <<ck, pack>> \/ (ck' = [ck EXCEPT ![j] = c] /\ Sync(j, c.parts))
        BY <1>5 DEF Answer
    <2>4. UNCHANGED <<work_vars, copied, build, node, learner, calls, used>>
        BY <1>5 DEF Answer
    <2> HIDE DEF c
    <2>5. /\ x \in Hands /\ x.at = "work" /\ x.stage = hand[w].stage /\ x.ck = c
          /\ x.todo = hand[w].todo \ {p} /\ x.failed = hand[w].failed
        BY <1>1, <1>2, <2>1 DEF Hands
    <2>6. c.parts \in SUBSET AllParts
        BY <2>1 DEF Checkpoints
    <2>7. pack' \in [Items -> Packs]
        BY <1>2, <1>3, <2>3, <2>6, Synced
    <2> HIDE DEF x
    <2> QED BY <1>1, <2>1, <2>2, <2>3, <2>4, <2>5, <2>7 DEF Waits
<1> QED BY <1>4, <1>5

LEMMA AbsorbWaits ==
    ASSUME LearningTypeOK, QueueTypeOK, HandsBusy, NEW w \in Workers, Absorb(w),
           NEW j, j = work[w]
    PROVE  Waits(w, j)
<1>1. hand[w].at = "work" /\ hand[w].todo = {}
    BY DEF Absorb
<1>2. j \in Items /\ hand[w] \in Hands /\ hand[w].ck \in Checkpoints
    BY <1>1, AtWork
<1>3. hand \in [Workers -> Hands] /\ pack \in [Items -> Packs]
    BY Typed
<1> DEFINE x == [hand[w] EXCEPT !.at = "absorbed"]
<1>4. /\ x \in Hands /\ x.at = "absorbed" /\ x.stage = hand[w].stage /\ x.ck = hand[w].ck
      /\ x.todo = {} /\ x.failed = hand[w].failed
    BY <1>1, <1>2 DEF Hands
<1>5. hand' = [hand EXCEPT ![w] = x]
    BY DEF Absorb
<1>6. UNCHANGED <<ck, pack>> \/ (ck' = [ck EXCEPT ![j] = x.ck] /\ Sync(j, hand[w].ck.parts))
    BY <1>4 DEF Absorb
<1>7. hand[w].ck.parts \in SUBSET AllParts
    BY <1>2 DEF Checkpoints
<1>8. pack' \in [Items -> Packs]
    BY <1>2, <1>3, <1>6, <1>7, Synced
<1>9. UNCHANGED <<work_vars, copied, build, node, learner, calls, used>>
    BY DEF Absorb
<1> HIDE DEF x
<1> QED BY <1>1, <1>2, <1>4, <1>5, <1>6, <1>8, <1>9 DEF Waits

LEMMA EndingIsOver ==
    ASSUME BuildInv, NEW w \in Workers,
           EndStage(w) \/ FailStage(w) \/ Publish(w), NEW j, j = work[w]
    PROVE  Over(w, j)
<1> USE DEF BuildInv
<1>1. Working(w)
    BY DEF EndStage, FailStage, Publish, Working
<1>2. j \in Items /\ hand[w] \in Hands /\ hand[w].ck \in Checkpoints
    BY <1>1, AtWork DEF Working
<1>3. hand \in [Workers -> Hands] /\ pack \in [Items -> Packs]
    BY Typed
<1>4. \E x \in Hands : x.at \in {"complete", "rearm", "raise"} /\ hand' = [hand EXCEPT ![w] = x]
    BY <1>3, HandedBack DEF EndStage, FailStage, Publish
<1>5. ~adopted /\ w \in copied => build[j].st \in Active /\ build[j].stage = hand[w].stage
    BY <1>1 DEF CurrentRuns, FenceExact, Active
<1>6. hand[w].at = "publish" <=> hand[w].stage >= Last
    BY <1>1 DEF StagesRun
<1>7. CASE EndStage(w)
    <2> DEFINE q == [hand[w].ck EXCEPT !.inflight = None].parts
    <2>1. /\ hand[w].at = "absorbed" /\ ~hand[w].failed /\ UNCHANGED <<node, learner, calls>>
          /\ \/ FenceFails(w) /\ UNCHANGED <<build, ck, pack>>
             \/ Pass(w) /\ UNCHANGED <<build, ck, pack>>
             \/ /\ Pass(w) /\ ck' = [ck EXCEPT ![j] = [hand[w].ck EXCEPT !.inflight = None]]
                /\ build' = [build EXCEPT ![j].stage = hand[w].stage + 1]
                /\ Sync(j, q)
        BY <1>7 DEF EndStage
    <2>2. hand[w].stage < Last
        BY <1>2, <1>6, <2>1, BuildAssumption DEF Hands
    <2>3. q \in SUBSET AllParts
        BY <1>2 DEF Checkpoints
    <2> HIDE DEF q
    <2>4. Sync(j, q) => pack' \in [Items -> Packs]
        BY <1>2, <1>3, <2>3, Synced
    <2> QED BY <1>4, <1>5, <2>1, <2>2, <2>4 DEF Over, Pass, LeaseFence, FenceFails
<1>8. CASE FailStage(w)
    BY <1>4, <1>5, <1>8 DEF FailStage, Over, Pass, LeaseFence, FenceFails
<1>9. CASE Publish(w)
    <2>1. ~adopted /\ w \in copied => build[j].stage = Last
        <3>1. build[j] \in Builds /\ Last \in Nat
            BY <1>2, Typed, BuildAssumption
        <3> QED BY <1>2, <1>5, <1>6, <1>9, <3>1 DEF Publish, Finished, Active, Builds
    <2> QED BY <1>4, <1>5, <1>9, <2>1 DEF Publish, Over, Pass, LeaseFence, FenceFails
<1> QED BY <1>7, <1>8, <1>9

\* What a step of the handler does.
LEMMA Handling ==
    ASSUME BuildInv, NEW w \in Workers, HandlerStep(w), NEW j, j = work[w]
    PROVE  /\ j \in Items /\ hand[w].at \in {"begin", "work", "absorbed", "publish"}
           /\ \/ /\ Started(w, j, build[j].stage, Marked(ck[j], build[j].stage))
                 /\ hand[w].at = "begin" /\ UNCHANGED <<pack, node, learner>>
              \/ Waits(w, j)
              \/ Over(w, j)
<1> USE DEF BuildInv
<1>1. hand[w].at \in {"begin", "work", "absorbed", "publish"}
    BY DEF HandlerStep, Begin, Absorb, EndStage, FailStage, Publish, Answer, NoAnswer
<1>2. j \in Items
    BY <1>1, AtWork
<1>3. CASE Begin(w)
    <2>1. ASSUME UNCHANGED <<ck, calls>>,
                 \E x \in Hands : x.at \in {"complete", "raise"} /\ hand' = [hand EXCEPT ![w] = x],
                 \/ UNCHANGED <<build, work_vars, copied>> /\ (UNCHANGED used \/ RunsOut)
                 \/ /\ w \in copied /\ build[j].st \in Active
                    /\ UNCHANGED <<work_vars, copied, used>>
                    /\ \E o \in {"skipped", "failed"} : build' = [build EXCEPT ![j].st = o],
                 UNCHANGED <<pack, node, learner>>
          PROVE  Over(w, j)
        BY <2>1 DEF Over
    <2> QED BY <1>1, <1>2, <1>3, <2>1, BeginEnds
<1>4. CASE EndStage(w) \/ FailStage(w) \/ Publish(w)
    BY <1>1, <1>2, <1>4, EndingIsOver
<1>5. CASE Absorb(w) \/ \E p \in AllParts : Answer(w, p) \/ NoAnswer(w, p)
    BY <1>1, <1>2, <1>5, AbsorbWaits, AnswerWaits
<1> QED BY <1>3, <1>4, <1>5 DEF HandlerStep

\* What the other steps do: nothing to the build and its worker, a new row, a
\* cancellation of some builds, or a move of the queue.
Quiet ==
    /\ UNCHANGED <<work_vars, ck, pack, hand, calls, copied, late, adopted>>
    /\ build' \in [Items -> Builds] /\ node' \in Nodes /\ trouble' \in 0..MaxTrouble
    /\ learner' \in [job : Items \cup {None}, ck : Checkpoints]
    /\ \A j \in Items : build'[j].st = build[j].st /\ build'[j].stage = build[j].stage
    /\ node.engaged => node'.engaged

RowMade(j) ==
    /\ Offer(j) /\ build[j].st = "none"
    /\ \E b \in Builds : b.st = "queued" /\ b.stage = 0 /\ build' = [build EXCEPT ![j] = b]
    /\ UNCHANGED <<ck, pack, hand, learner, calls, copied, used>>
    /\ node' \in Nodes /\ (node.engaged => node'.engaged)

Cancelled(S) ==
    /\ S \subseteq Items /\ Decide(S, "settled") /\ NewToken(S)
    /\ \A j \in S : build[j].st \in Active
    /\ build' = [j \in Items |-> IF j \in S THEN [build[j] EXCEPT !.st = "cancelled"]
                                 ELSE build[j]]
    /\ UNCHANGED <<ck, pack, hand, learner, calls, late, adopted>>
    /\ node' \in Nodes /\ node'.engaged = node.engaged /\ trouble' \in 0..MaxTrouble

Around(w) ==
    /\ UNCHANGED <<build, ck, pack, node, learner, calls>>
    /\ \E x \in Hands :
         /\ hand' = [hand EXCEPT ![w] = x]
         /\ \/ /\ x.at = "claimed" /\ (UNCHANGED used \/ RunsOut)
               /\ \E j \in Items : /\ Take(w, j) /\ NewToken({j})
                                   /\ late' \/ \A v \in current : work[v] # j
            \/ /\ x.at = "begin" /\ hand[w].at = "claimed"
               /\ UNCHANGED <<work_vars, trouble, late>>
               /\ copied' = IF state[work[w]] = "held" THEN copied \cup {w} ELSE copied
               /\ adopted' = IF state[work[w]] = "held" /\ w \notin current THEN TRUE ELSE adopted
            \/ /\ x.at = "none" /\ (UNCHANGED used \/ Move)
               /\ \/ Drop(w) /\ copied' = copied \ {w}
                  \/ \E o \in {"open", "settled"} :
                        Deliver(w, work[w], o) /\ NewToken({work[w]})

LEMMA TroubleTyped ==
    ASSUME LearningTypeOK
    PROVE  /\ RunsOut => trouble' \in 0..MaxTrouble /\ late' = TRUE /\ adopted' = adopted
           /\ Move => trouble' \in 0..MaxTrouble /\ late' = late /\ adopted' = adopted
           /\ UNCHANGED used => trouble' \in 0..MaxTrouble /\ late' = late
                               /\ adopted' = adopted
<1>1. trouble \in 0..MaxTrouble
    BY Typed
<1> QED BY <1>1, BuildAssumption DEF RunsOut, Move, Trouble, used

LEMMA NodeChanged ==
    ASSUME NEW n \in Nodes, NEW b \in BOOLEAN
    PROVE  /\ [n EXCEPT !.engaged = TRUE] \in Nodes /\ [n EXCEPT !.engaged = TRUE].engaged
           /\ [n EXCEPT !.on = b, !.epoch = @ + 1] \in Nodes
           /\ [n EXCEPT !.on = b, !.epoch = @ + 1].engaged = n.engaged
           /\ [n EXCEPT !.print = @ + 1] \in Nodes
           /\ [n EXCEPT !.print = @ + 1].engaged = n.engaged
           /\ \A j \in Items : [n EXCEPT !.current = j] \in Nodes
                              /\ [n EXCEPT !.current = j].engaged = n.engaged
<1>1. n.epoch + 1 \in Nat /\ n.print + 1 \in Nat
    BY DEF Nodes
<1> DEFINE e == n.epoch + 1
           q == n.print + 1
<1> HIDE DEF e, q
<1>2. /\ [n EXCEPT !.on = b, !.epoch = e] \in Nodes
      /\ [n EXCEPT !.on = b, !.epoch = e].engaged = n.engaged
      /\ [n EXCEPT !.print = q] \in Nodes /\ [n EXCEPT !.print = q].engaged = n.engaged
    BY <1>1 DEF Nodes, e, q
<1>3. /\ [n EXCEPT !.on = b, !.epoch = @ + 1] = [n EXCEPT !.on = b, !.epoch = e]
      /\ [n EXCEPT !.print = @ + 1] = [n EXCEPT !.print = q]
    BY DEF Nodes, e, q
<1>4. /\ [n EXCEPT !.engaged = TRUE] \in Nodes /\ [n EXCEPT !.engaged = TRUE].engaged
      /\ \A j \in Items : [n EXCEPT !.current = j] \in Nodes
                         /\ [n EXCEPT !.current = j].engaged = n.engaged
    BY DEF Nodes
<1> QED BY <1>2, <1>3, <1>4

LEMMA EnqueueKinds ==
    ASSUME LearningTypeOK, NEW t \in Triggers, Enqueue(t)
    PROVE  Quiet \/ \E j \in Items : RowMade(j)
<1>1. /\ node \in Nodes /\ build \in [Items -> Builds] /\ trouble \in 0..MaxTrouble
      /\ learner \in [job : Items \cup {None}, ck : Checkpoints]
    BY Typed
<1>2. node' \in Nodes /\ (node.engaged => node'.engaged)
    BY <1>1 DEF Enqueue, Nodes
<1>3. UNCHANGED <<ck, pack, hand, learner, calls, copied, used>>
    BY DEF Enqueue
<1>4. ASSUME NEW j \in Items, build' = [build EXCEPT ![j].trigger = t], UNCHANGED work_vars
      PROVE  Quiet
    <2>1. /\ build' \in [Items -> Builds]
          /\ \A i \in Items : build'[i].st = build[i].st /\ build'[i].stage = build[i].stage
        BY <1>1, <1>4 DEF Builds
    <2> QED BY <1>1, <1>2, <1>3, <1>4, <2>1 DEF Quiet, used
<1>5. ASSUME NEW j \in Items, NextRow(j), NewBuild(j, t)
      PROVE  RowMade(j)
    <2> DEFINE b == [st |-> "queued", stage |-> 0, trigger |-> t, epoch |-> node.epoch,
                     print |-> node.print]
    <2>1. b \in Builds /\ b.st = "queued" /\ b.stage = 0
        BY <1>1, BuildAssumption DEF Builds, Nodes, Active
    <2>2. build[j].st = "none" /\ build' = [build EXCEPT ![j] = b] /\ Offer(j)
        BY <1>5 DEF NextRow, Rows, NewBuild
    <2> HIDE DEF b
    <2> QED BY <1>2, <1>3, <2>1, <2>2 DEF RowMade
<1> QED BY <1>4, <1>5 DEF Enqueue

LEMMA QuietSteps ==
    ASSUME LearningTypeOK,
           \/ Engage \/ SwitchOn \/ EditNode \/ UNCHANGED lvars
           \/ \E j \in Items : StartRead(j)
    PROVE  Quiet
<1>1. /\ node \in Nodes /\ build \in [Items -> Builds] /\ trouble \in 0..MaxTrouble
      /\ learner \in [job : Items \cup {None}, ck : Checkpoints] /\ ck \in [Items -> Checkpoints]
    BY Typed
<1>2. /\ UNCHANGED <<work_vars, ck, pack, hand, calls, copied, late, adopted, build>>
      /\ trouble' \in 0..MaxTrouble
    BY TroubleTyped DEF Engage, SwitchOn, EditNode, StartRead, lvars, learning, used, Move
<1>3. learner' \in [job : Items \cup {None}, ck : Checkpoints]
    BY <1>1 DEF Engage, SwitchOn, EditNode, StartRead, lvars, learning
<1>4. node' \in Nodes /\ (node.engaged => node'.engaged)
    <2>1. CASE UNCHANGED node
        BY <1>1, <2>1
    <2>2. CASE Engage
        BY <1>1, <2>2, NodeChanged DEF Engage
    <2>3. CASE SwitchOn
        BY <1>1, <2>3, NodeChanged DEF SwitchOn
    <2>4. CASE EditNode
        BY <1>1, <2>4, NodeChanged DEF EditNode
    <2> QED BY <2>1, <2>2, <2>3, <2>4 DEF StartRead, lvars, learning
<1> QED BY <1>1, <1>2, <1>3, <1>4 DEF Quiet

LEMMA CancelKinds ==
    ASSUME LearningTypeOK, SwitchOff \/ \E j \in Items : CancelByUser(j)
    PROVE  \E S \in SUBSET Items : Cancelled(S)
<1>1. node \in Nodes /\ build \in [Items -> Builds]
    BY Typed
<1>2. CASE SwitchOff
    <2> DEFINE S == {j \in Items : build[j].st \in Active /\ build[j].trigger = "auto"}
    <2>1. node' \in Nodes /\ node'.engaged = node.engaged
        BY <1>1, <1>2, NodeChanged DEF SwitchOff
    <2>2. trouble' \in 0..MaxTrouble /\ late' = late /\ adopted' = adopted
        BY <1>2, TroubleTyped DEF SwitchOff
    <2>3. Cancelled(S)
        BY <1>2, <2>1, <2>2 DEF SwitchOff, Cancelled
    <2> HIDE DEF S
    <2> QED BY <2>3 DEF Cancelled
<1>3. ASSUME NEW j \in Items, CancelByUser(j)
      PROVE  Cancelled({j})
    <2>1. trouble' \in 0..MaxTrouble /\ late' = late /\ adopted' = adopted
        BY <1>3, TroubleTyped DEF CancelByUser
    <2>2. build' = [i \in Items |-> IF i \in {j} THEN [build[i] EXCEPT !.st = "cancelled"]
                                    ELSE build[i]]
        BY <1>1, <1>3 DEF CancelByUser
    <2> QED BY <1>1, <1>3, <2>1, <2>2 DEF CancelByUser, Cancelled
<1>4. \A j \in Items : {j} \in SUBSET Items
    OBVIOUS
<1> QED BY <1>2, <1>3, <1>4

LEMMA AroundKinds ==
    ASSUME LearningTypeOK, NEW w \in Workers,
           ClaimStep(w) \/ Reload(w) \/ ReportStep(w) \/ Crash(w)
    PROVE  Around(w)
<1>1. hand \in [Workers -> Hands]
    BY Typed
<1>2. CASE ClaimStep(w)
    <2>1. PICK x \in Hands : x.at = "claimed" /\ hand' = [hand EXCEPT ![w] = x]
        BY <1>1, <1>2, HandedBack DEF ClaimStep
    <2>2. PICK j \in Items :
             /\ Take(w, j) /\ NewToken({j})
             /\ IF \E v \in current \cup copied : work[v] = j THEN RunsOut ELSE UNCHANGED used
        BY <1>2 DEF ClaimStep
    <2>3. late' \/ \A v \in current : work[v] # j
        BY <2>2 DEF RunsOut
    <2> QED BY <1>2, <2>1, <2>2, <2>3 DEF ClaimStep, Around
<1>3. CASE Reload(w)
    <2>1. PICK x \in Hands : x.at = "begin" /\ hand' = [hand EXCEPT ![w] = x]
        BY <1>1, <1>3, HandedBack DEF Reload
    <2> QED BY <1>3, <2>1 DEF Reload, Around
<1>4. CASE ReportStep(w)
    <2>1. hand' = [hand EXCEPT ![w] = NoHand]
        BY <1>4 DEF ReportStep
    <2>2. \/ Drop(w) /\ copied' = copied \ {w}
          \/ \E o \in {"open", "settled"} : Deliver(w, work[w], o) /\ NewToken({work[w]})
        BY <1>4 DEF ReportStep
    <2> QED BY <1>4, <2>1, <2>2, NothingYet DEF ReportStep, Around
<1>5. CASE Crash(w)
    <2>1. hand' = [hand EXCEPT ![w] = NoHand] /\ Drop(w) /\ copied' = copied \ {w}
        BY <1>5 DEF Crash
    <2> QED BY <1>5, <2>1, NothingYet DEF Crash, Around
<1> QED BY <1>2, <1>3, <1>4, <1>5

\* The kinds of steps there are.
LEMMA NextKinds ==
    ASSUME BuildInv, [LearningNext]_lvars
    PROVE  \/ Quiet
           \/ StartCommit
           \/ \E j \in Items : RowMade(j) \/ RetryByUser(j)
           \/ \E S \in SUBSET Items : Cancelled(S)
           \/ \E w \in Workers : Around(w) \/ HandlerStep(w)
<1>1. LearningTypeOK
    BY DEF BuildInv
<1> QED BY <1>1, EnqueueKinds, QuietSteps, CancelKinds, AroundKinds
        DEF LearningNext, LearningWorkerStep

-----------------------------------------------------------------------------
(* Steps keep the types and the queue's part.                              *)

LEMMA CommitTypes ==
    ASSUME LearningTypeOK, StartCommit
    PROVE  /\ UNCHANGED <<work_vars, copied, build, hand, calls, used>> /\ node'.engaged
           /\ node' \in Nodes /\ pack' \in [Items -> Packs] /\ ck' \in [Items -> Checkpoints]
           /\ learner' \in [job : Items \cup {None}, ck : Checkpoints]
<1> DEFINE j == learner.job
           c == learner.ck
<1>1. /\ node \in Nodes /\ pack \in [Items -> Packs] /\ ck \in [Items -> Checkpoints]
      /\ j \in Items /\ c \in Checkpoints
    BY Typed DEF StartCommit
<1>2. node' \in Nodes /\ node'.engaged
    BY <1>1, NodeChanged DEF StartCommit
<1>3. learner' \in [job : Items \cup {None}, ck : Checkpoints]
    BY NothingYet DEF StartCommit
<1>4. pack' \in [Items -> Packs]
    <2>1. c.parts \in SUBSET AllParts
        BY <1>1 DEF Checkpoints
    <2>2. [kind |-> "draft", parts |-> c.parts] \in Packs
        BY <2>1 DEF Packs
    <2> QED BY <1>1, <2>2 DEF StartCommit
<1>5. ck' \in [Items -> Checkpoints]
    BY <1>1, Written DEF StartCommit
<1> QED BY <1>2, <1>3, <1>4, <1>5 DEF StartCommit

LEMMA RetryTypes ==
    ASSUME LearningTypeOK, NEW j \in Items, RetryByUser(j)
    PROVE  /\ build' \in [Items -> Builds] /\ build' = [build EXCEPT ![j].st = "queued"]
           /\ ck' \in [Items -> Checkpoints] /\ ck'[j].parts = ck[j].parts
           /\ \A i \in Items \ {j} : ck'[i] = ck[i] /\ calls'[i] = calls[i]
           /\ calls' \in [Items -> [AllParts -> Nat]] /\ \A p \in AllParts : calls'[j][p] = 0
           /\ UNCHANGED <<pack, node, hand, learner, late, adopted>>
           /\ copied' \subseteq copied /\ trouble' \in 0..MaxTrouble
<1>1. /\ build \in [Items -> Builds] /\ ck \in [Items -> Checkpoints]
      /\ calls \in [Items -> [AllParts -> Nat]]
    BY Typed
<1>2. trouble' \in 0..MaxTrouble /\ late' = late /\ adopted' = adopted /\ copied' \subseteq copied
    BY TroubleTyped DEF RetryByUser, NewToken
<1>3. build' \in [Items -> Builds] /\ build' = [build EXCEPT ![j].st = "queued"]
    BY <1>1 DEF RetryByUser, Builds, Active
<1>4. /\ ck' = [ck EXCEPT ![j] = [ck[j] EXCEPT !.inflight = None]]
      /\ [ck[j] EXCEPT !.inflight = None] \in Checkpoints
      /\ [ck[j] EXCEPT !.inflight = None].parts = ck[j].parts
    BY <1>1, Written DEF RetryByUser
<1>5. calls' = [calls EXCEPT ![j] = [p \in AllParts |-> 0]]
    BY DEF RetryByUser
<1> QED BY <1>1, <1>2, <1>3, <1>4, <1>5 DEF RetryByUser

LEMMA HandlerTypes ==
    ASSUME BuildInv, NEW w \in Workers, HandlerStep(w)
    PROVE  LearningTypeOK'
<1> DEFINE j == work[w]
<1>1. LearningTypeOK /\ j \in Items
    BY Handling DEF BuildInv
<1>2. /\ build \in [Items -> Builds] /\ ck \in [Items -> Checkpoints]
      /\ pack \in [Items -> Packs] /\ node \in Nodes /\ hand \in [Workers -> Hands]
      /\ learner \in [job : Items \cup {None}, ck : Checkpoints]
      /\ calls \in [Items -> [AllParts -> Nat]] /\ copied \subseteq Workers
      /\ hand[w].ck \in Checkpoints /\ hand[w].stage \in 0..(Last + 1)
    BY <1>1, Typed DEF Hands
<1> SUFFICES /\ build' \in [Items -> Builds] /\ ck' \in [Items -> Checkpoints]
             /\ pack' \in [Items -> Packs] /\ node' \in Nodes /\ hand' \in [Workers -> Hands]
             /\ learner' \in [job : Items \cup {None}, ck : Checkpoints]
             /\ calls' \in [Items -> [AllParts -> Nat]] /\ copied' \subseteq Workers
             /\ trouble' \in 0..MaxTrouble /\ late' \in BOOLEAN /\ adopted' \in BOOLEAN
    BY DEF LearningTypeOK, Builds, Packs, Nodes, Hands
<1>3. UNCHANGED used \/ RunsOut => trouble' \in 0..MaxTrouble /\ late' \in BOOLEAN /\ adopted' \in BOOLEAN
    BY <1>1, TroubleTyped, Typed
<1> HIDE DEF j
<1>4. ASSUME NEW c, NEW s, Started(w, j, s, c), UNCHANGED <<pack, node, learner>>
      PROVE  /\ build' \in [Items -> Builds] /\ ck' \in [Items -> Checkpoints]
             /\ hand' \in [Workers -> Hands] /\ calls' \in [Items -> [AllParts -> Nat]]
             /\ copied' \subseteq Workers
             /\ trouble' \in 0..MaxTrouble /\ late' \in BOOLEAN /\ adopted' \in BOOLEAN
    <2>1. hand' \in [Workers -> Hands] /\ ck' \in [Items -> Checkpoints]
        BY <1>1, <1>2, <1>4 DEF Started
    <2>2. build' \in [Items -> Builds]
        <3>1. build' = [build EXCEPT ![j].st = "running"]
            BY <1>4 DEF Started
        <3> QED BY <1>1, <1>2, <3>1 DEF Builds, Active
    <2>3. calls' \in [Items -> [AllParts -> Nat]]
        <3> DEFINE q == [p \in AllParts |->
                           IF p \in Missing(c, s) THEN calls[j][p] + 1 ELSE calls[j][p]]
        <3>1. q \in [AllParts -> Nat]
            BY <1>1, <1>2
        <3>2. calls' = [calls EXCEPT ![j] = q]
            BY <1>4 DEF Started
        <3> HIDE DEF q
        <3> QED BY <1>1, <1>2, <3>1, <3>2
    <2> QED BY <1>2, <1>3, <1>4, <2>1, <2>2, <2>3 DEF Started
<1>5. ASSUME Waits(w, j)
      PROVE  /\ ck' \in [Items -> Checkpoints] /\ hand' \in [Workers -> Hands]
             /\ pack' \in [Items -> Packs] /\ UNCHANGED <<build, node, learner, calls, copied, used>>
    BY <1>1, <1>2, <1>5 DEF Waits
<1>6. ASSUME Over(w, j)
      PROVE  /\ build' \in [Items -> Builds] /\ ck' \in [Items -> Checkpoints]
             /\ pack' \in [Items -> Packs] /\ node' \in Nodes /\ hand' \in [Workers -> Hands]
             /\ UNCHANGED <<learner, calls, copied>> /\ (UNCHANGED used \/ RunsOut)
    <2>1. hand' \in [Workers -> Hands] /\ UNCHANGED <<learner, calls, copied>>
        BY <1>2, <1>6 DEF Over
    <2>2. CASE UNCHANGED <<build, ck, pack, node>>
        BY <1>2, <1>6, <2>1, <2>2 DEF Over
    <2>3. ASSUME NEW o \in {"skipped", "failed"}, build' = [build EXCEPT ![j].st = o]
          PROVE  build' \in [Items -> Builds]
        BY <1>1, <1>2, <2>3 DEF Builds
    <2>4. ASSUME hand[w].stage < Last,
                 build' = [build EXCEPT ![j].stage = hand[w].stage + 1],
                 ck' = [ck EXCEPT ![j] = [hand[w].ck EXCEPT !.inflight = None]]
          PROVE  build' \in [Items -> Builds] /\ ck' \in [Items -> Checkpoints]
          <3>1. hand[w].stage + 1 \in 0..(Last + 1)
              BY <1>2, <2>4, BuildAssumption
          <3>2. build' \in [Items -> Builds]
              BY <1>1, <1>2, <2>4, <3>1 DEF Builds
          <3>3. ck' \in [Items -> Checkpoints]
              BY <1>1, <1>2, <2>4, Written
          <3> QED BY <3>2, <3>3
    <2>5. ASSUME build' = [build EXCEPT ![j].st = "ready", ![j].stage = Last + 1],
                 pack' = [pack EXCEPT ![j] = [kind |-> "published", parts |-> AllParts]],
                 node' = [node EXCEPT !.current = j]
          PROVE  build' \in [Items -> Builds] /\ pack' \in [Items -> Packs] /\ node' \in Nodes
          <3>1. Last + 1 \in 0..(Last + 1)
              BY BuildAssumption
          <3>2. build' \in [Items -> Builds]
              BY <1>1, <1>2, <2>5, <3>1 DEF Builds
          <3>3. pack' \in [Items -> Packs]
              BY <1>1, <1>2, <2>5 DEF Packs
          <3> QED BY <1>1, <1>2, <2>5, <3>2, <3>3, NodeChanged
    <2> QED BY <1>2, <1>6, <2>1, <2>2, <2>3, <2>4, <2>5 DEF Over
<1> QED BY <1>1, <1>2, <1>3, <1>4, <1>5, <1>6, Handling DEF j

LEMMA StepLearningTypes ==
    ASSUME BuildInv, [LearningNext]_lvars
    PROVE  LearningTypeOK'
<1>1. LearningTypeOK
    BY DEF BuildInv
<1>2. /\ build \in [Items -> Builds] /\ ck \in [Items -> Checkpoints]
      /\ pack \in [Items -> Packs] /\ node \in Nodes /\ hand \in [Workers -> Hands]
      /\ learner \in [job : Items \cup {None}, ck : Checkpoints]
      /\ calls \in [Items -> [AllParts -> Nat]] /\ copied \subseteq Workers
      /\ trouble \in 0..MaxTrouble /\ late \in BOOLEAN /\ adopted \in BOOLEAN
    BY <1>1, Typed
<1> DEFINE Goal == /\ build' \in [Items -> Builds] /\ ck' \in [Items -> Checkpoints]
                   /\ pack' \in [Items -> Packs] /\ node' \in Nodes
                   /\ hand' \in [Workers -> Hands]
                   /\ learner' \in [job : Items \cup {None}, ck : Checkpoints]
                   /\ calls' \in [Items -> [AllParts -> Nat]] /\ copied' \subseteq Workers
                   /\ trouble' \in 0..MaxTrouble /\ late' \in BOOLEAN /\ adopted' \in BOOLEAN
<1>3. Goal => LearningTypeOK'
    BY DEF LearningTypeOK, Builds, Packs, Nodes, Hands
<1>4. CASE Quiet
    BY <1>2, <1>3, <1>4 DEF Quiet
<1>5. CASE StartCommit
    BY <1>1, <1>2, <1>3, <1>5, CommitTypes DEF used
<1>6. ASSUME NEW j \in Items, RetryByUser(j) PROVE LearningTypeOK'
    BY <1>1, <1>2, <1>3, <1>6, RetryTypes
<1>7. ASSUME NEW j \in Items, RowMade(j) PROVE LearningTypeOK'
    <2>1. build' \in [Items -> Builds]
        BY <1>2, <1>7 DEF RowMade
    <2> QED BY <1>2, <1>3, <1>7, <2>1 DEF RowMade, used
<1>8. ASSUME NEW S, Cancelled(S) PROVE LearningTypeOK'
    <2>1. build' \in [Items -> Builds]
        <3>1. \A j \in Items : [build[j] EXCEPT !.st = "cancelled"] \in Builds
            BY <1>2 DEF Builds
        <3> QED BY <1>2, <1>8, <3>1 DEF Cancelled
    <2> QED BY <1>2, <1>3, <1>8, <2>1 DEF Cancelled, NewToken
<1>9. ASSUME NEW w \in Workers, Around(w) PROVE LearningTypeOK'
    <2>1. hand' \in [Workers -> Hands]
        BY <1>2, <1>9 DEF Around
    <2>2. trouble' \in 0..MaxTrouble /\ late' \in BOOLEAN /\ adopted' \in BOOLEAN
        BY <1>1, <1>2, <1>9, TroubleTyped DEF Around
    <2>3. copied' \subseteq Workers
        BY <1>2, <1>9 DEF Around, NewToken
    <2> QED BY <1>2, <1>3, <1>9, <2>1, <2>2, <2>3 DEF Around
<1> QED BY <1>4, <1>5, <1>6, <1>7, <1>8, <1>9, NextKinds, HandlerTypes

\* The queue moves as FencedWork allows.
LEMMA StepIsFenced ==
    ASSUME BuildInv, [LearningNext]_lvars
    PROVE  [FencedNext]_work_vars
<1>1. CASE UNCHANGED work_vars
    BY <1>1
<1>2. ASSUME NEW j \in Items, RowMade(j) PROVE FencedNext
    BY <1>2 DEF RowMade, FencedNext
<1>3. ASSUME NEW j \in Items, RetryByUser(j) PROVE FencedNext
    <2>1. {j} \in SUBSET Items /\ Decide({j}, "open")
        BY <1>3 DEF RetryByUser
    <2> QED BY <2>1 DEF FencedNext
<1>4. ASSUME NEW S \in SUBSET Items, Cancelled(S) PROVE FencedNext
    BY <1>4 DEF Cancelled, FencedNext
<1>5. ASSUME NEW w \in Workers, Around(w) PROVE [FencedNext]_work_vars
    <2>1. ASSUME NEW o \in {"open", "settled"}, Deliver(w, work[w], o) PROVE FencedNext
        <3>1. work[w] \in Items
            BY <2>1 DEF Deliver, BuildInv, QueueTypeOK, HeldByOne
        <3> QED BY <2>1, <3>1 DEF FencedNext
    <2> QED BY <1>1, <1>5, <2>1 DEF Around, FencedNext
<1>6. ASSUME NEW w \in Workers, HandlerStep(w) PROVE UNCHANGED work_vars
    BY <1>6, Handling DEF Started, Waits, Over
<1>7. Quiet \/ StartCommit => UNCHANGED work_vars
    BY DEF Quiet, StartCommit
<1> QED BY <1>1, <1>2, <1>3, <1>4, <1>5, <1>6, <1>7, NextKinds

\* What FencedWork keeps.
LEMMA FencedKeeps ==
    ASSUME QueueTypeOK, HeldByOne, [FencedNext]_work_vars
    PROVE  QueueTypeOK' /\ HeldByOne'
<1> USE DEF QueueTypeOK, HeldByOne, States
<1>1. None \notin Items
    BY BuildAssumption
<1>2. CASE UNCHANGED work_vars
    BY <1>2 DEF work_vars
<1>3. ASSUME NEW i \in Items, Offer(i) PROVE QueueTypeOK' /\ HeldByOne'
    BY <1>1, <1>3 DEF Offer
<1>4. ASSUME NEW w \in Workers, NEW i \in Items, Take(w, i) PROVE QueueTypeOK' /\ HeldByOne'
    <2>1. QueueTypeOK'
        BY <1>4 DEF Take
    <2>2. w \notin current
        BY <1>4 DEF Take
    <2>3. HeldByOne'
        BY <1>1, <1>4, <2>2 DEF Take
    <2> QED BY <2>1, <2>3
<1>5. ASSUME NEW w \in Workers, NEW i \in Items, NEW o \in {"open", "settled"}, Deliver(w, i, o)
      PROVE  QueueTypeOK' /\ HeldByOne'
    BY <1>1, <1>5 DEF Deliver
<1>6. ASSUME NEW w \in Workers, Drop(w) PROVE QueueTypeOK' /\ HeldByOne'
    BY <1>1, <1>6 DEF Drop
<1>7. ASSUME NEW S \in SUBSET Items, NEW o \in {"open", "settled"}, Decide(S, o)
      PROVE  QueueTypeOK' /\ HeldByOne'
    BY <1>1, <1>7 DEF Decide
<1> QED BY <1>2, <1>3, <1>4, <1>5, <1>6, <1>7 DEF FencedNext

-----------------------------------------------------------------------------
(* Steps keep what is known of the builds and of their workers.            *)

\* A worker that passed its fence; unless a token was adopted it is current, and its
\* build is under way.
Fenced(w) ==
    /\ w \in copied
    /\ ~adopted => w \in current /\ build[work[w]].st \in Active

\* What a step of the handler leaves alone.
LEMMA HandlerFrame ==
    ASSUME BuildInv, NEW w \in Workers, HandlerStep(w), NEW j, j = work[w]
    PROVE  /\ UNCHANGED <<work_vars, copied>>
           /\ \A v \in Workers \ {w} : hand'[v] = hand[v]
           /\ \A i \in Items \ {j} : build'[i] = build[i] /\ ck'[i] = ck[i]
                                     /\ calls'[i] = calls[i]
           /\ UNCHANGED build \/ Fenced(w)
           /\ UNCHANGED <<build, ck>> \/ Working(w) \/ Fenced(w)
           /\ (late => late') /\ adopted' = adopted /\ node'.engaged = node.engaged
<1>0. /\ build \in [Items -> Builds] /\ ck \in [Items -> Checkpoints]
      /\ calls \in [Items -> [AllParts -> Nat]] /\ hand \in [Workers -> Hands] /\ node \in Nodes
    BY Typed DEF BuildInv
<1>1. RunsOut \/ UNCHANGED used => (late => late') /\ adopted' = adopted
    BY DEF RunsOut, used
<1>2. j \in Items
    BY Handling
<1> DEFINE Good == w \in copied /\ (~adopted => build[j].st \in Active)
<1>9. Good => Fenced(w)
    BY DEF Fenced, BuildInv, FenceExact
<1>3. ASSUME NEW s, NEW c, Started(w, j, s, c), UNCHANGED node
      PROVE  /\ UNCHANGED <<work_vars, copied>> /\ UNCHANGED used /\ Good
             /\ \A v \in Workers \ {w} : hand'[v] = hand[v]
             /\ \A i \in Items \ {j} : build'[i] = build[i] /\ ck'[i] = ck[i]
                                       /\ calls'[i] = calls[i]
    BY <1>0, <1>2, <1>3 DEF Started
<1>4. ASSUME Waits(w, j)
      PROVE  /\ UNCHANGED <<work_vars, copied, build, node, calls, used>> /\ Working(w)
             /\ \A v \in Workers \ {w} : hand'[v] = hand[v]
             /\ \A i \in Items \ {j} : ck'[i] = ck[i]
    BY <1>0, <1>2, <1>4 DEF Waits, Working
<1>5. ASSUME Over(w, j)
      PROVE  /\ UNCHANGED <<work_vars, copied>> /\ (RunsOut \/ UNCHANGED used)
             /\ UNCHANGED <<build, ck>> \/ Good
             /\ \A v \in Workers \ {w} : hand'[v] = hand[v]
             /\ \A i \in Items \ {j} : build'[i] = build[i] /\ ck'[i] = ck[i]
                                       /\ calls'[i] = calls[i]
             /\ node'.engaged = node.engaged
    <2>1. \A v \in Workers \ {w} : hand'[v] = hand[v]
        BY <1>0, <1>5 DEF Over
    <2>2. node'.engaged = node.engaged
        <3>1. UNCHANGED node \/ node' = [node EXCEPT !.current = j]
            BY <1>5 DEF Over
        <3>2. [node EXCEPT !.current = j].engaged = node.engaged
            BY <1>0 DEF Nodes
        <3> QED BY <3>1, <3>2
    <2>3. \A i \in Items \ {j} : build'[i] = build[i] /\ ck'[i] = ck[i] /\ calls'[i] = calls[i]
        BY <1>0, <1>2, <1>5 DEF Over
    <2>4. UNCHANGED <<work_vars, copied>> /\ (RunsOut \/ UNCHANGED used)
        BY <1>5 DEF Over
    <2>5. UNCHANGED <<build, ck>> \/ Good
        BY <1>5 DEF Over
    <2> QED BY <2>1, <2>2, <2>3, <2>4, <2>5
<1> QED BY <1>1, <1>3, <1>4, <1>5, <1>9, Handling

\* Nothing takes a lease's end, an adopted token or an engagement back.
LEMMA StaysSo ==
    ASSUME BuildInv, [LearningNext]_lvars
    PROVE  (late => late') /\ (adopted => adopted') /\ (node.engaged => node'.engaged)
<1>1. RunsOut \/ Move \/ UNCHANGED used => (late => late') /\ (adopted => adopted')
    BY DEF RunsOut, Move, used
<1>2. ASSUME NEW w \in Workers, HandlerStep(w)
      PROVE  (late => late') /\ (adopted => adopted') /\ node'.engaged = node.engaged
    BY <1>2, HandlerFrame
<1>3. StartCommit => node'.engaged /\ late' = late /\ adopted' = adopted
    BY CommitTypes DEF BuildInv, used
<1>4. ASSUME NEW j \in Items, RetryByUser(j) PROVE UNCHANGED <<late, adopted, node>>
    BY <1>4, RetryTypes DEF BuildInv
<1>5. ASSUME NEW w \in Workers, Around(w)
      PROVE  (late => late') /\ (adopted => adopted') /\ UNCHANGED node
    <2>1. \/ UNCHANGED used \/ RunsOut \/ Move
          \/ late' = late /\ (adopted' = TRUE \/ adopted' = adopted)
        BY <1>5 DEF Around
    <2>2. UNCHANGED node
        BY <1>5 DEF Around
    <2>3. CASE UNCHANGED used \/ RunsOut \/ Move
        BY <1>1, <2>2, <2>3
    <2>4. CASE late' = late /\ (adopted' = TRUE \/ adopted' = adopted)
        BY <2>2, <2>4
    <2> QED BY <2>1, <2>3, <2>4
<1> QED BY <1>1, <1>2, <1>3, <1>4, <1>5, NextKinds DEF Quiet, RowMade, Cancelled, used

LEMMA StepHandsBusy ==
    ASSUME BuildInv, [LearningNext]_lvars
    PROVE  HandsBusy'
<1> USE DEF BuildInv, HandsBusy
<1>0. hand \in [Workers -> Hands] /\ work \in [Workers -> Items \cup {None}] /\ None \notin Items
    BY Typed, BuildAssumption DEF QueueTypeOK
<1>1. CASE UNCHANGED <<work, hand>>
    BY <1>1
<1>2. ASSUME NEW w \in Workers, Around(w) PROVE HandsBusy'
    <2>1. \A v \in Workers \ {w} : hand'[v] = hand[v] /\ work'[v] = work[v]
        BY <1>0, <1>2 DEF Around, Take, Drop, Deliver, work_vars
    <2>2. hand'[w].at = "none" <=> work'[w] = None
        BY <1>0, <1>2 DEF Around, Take, Drop, Deliver, work_vars
    <2> QED BY <2>1, <2>2
<1>3. ASSUME NEW w \in Workers, HandlerStep(w) PROVE HandsBusy'
    <2>1. hand[w].at # "none" /\ UNCHANGED work
        BY <1>3, Handling DEF Started, Waits, Over, work_vars
    <2>2. \E x \in Hands : x.at # "none" /\ hand' = [hand EXCEPT ![w] = x]
        <3>1. CASE Waits(w, work[w])
            BY <3>1 DEF Waits
        <3>2. CASE Over(w, work[w])
            BY <3>2 DEF Over
        <3>3. ASSUME NEW s, NEW c, Started(w, work[w], s, c)
              PROVE  \E x \in Hands : x.at # "none" /\ hand' = [hand EXCEPT ![w] = x]
            BY <3>3 DEF Started
        <3> QED BY <1>3, <3>1, <3>2, <3>3, Handling
    <2> QED BY <1>0, <2>1, <2>2
<1> QED BY <1>1, <1>2, <1>3, NextKinds
        DEF Quiet, StartCommit, RowMade, RetryByUser, Cancelled, Offer, Decide, work_vars

\* A build moves on, and its row is there when its job is.
MovesOn(j) ==
    /\ build[j].st = "cancelled" => build'[j].st = "cancelled"
    /\ build[j].st = "none" /\ build'[j].st # "none" => build'[j].stage = 0
    /\ build'[j].st = "none" => build[j].st = "none" /\ build'[j].stage = build[j].stage
    /\ build'[j].st = "none" <=> state'[j] = "none"
    /\ build'[j].st = "cancelled" => state'[j] = "settled"
    /\ ~adopted => /\ build'[j].stage \in {build[j].stage, build[j].stage + 1}
                   /\ build[j].st \in {"ready", "skipped"} => build'[j].st = build[j].st
                   /\ build'[j].stage = Last + 1 => build'[j].st = "ready"

LEMMA StepMovesOn ==
    ASSUME BuildInv, [LearningNext]_lvars, NEW j \in Items
    PROVE  MovesOn(j)
<1> USE DEF BuildInv
<1>0. /\ build \in [Items -> Builds] /\ state \in [Items -> States]
      /\ build[j].stage \in 0..(Last + 1) /\ Last \in Nat
    BY Typed, BuildAssumption DEF QueueTypeOK, Builds
<1>1. /\ build[j].st = "none" <=> state[j] = "none"
      /\ build[j].st = "none" => build[j].stage = 0
      /\ build[j].st = "cancelled" => state[j] = "settled"
      /\ ~adopted /\ build[j].stage = Last + 1 => build[j].st = "ready"
    BY DEF RowsHaveJobs, Finished
<1>2. ASSUME build'[j].st = build[j].st, build'[j].stage = build[j].stage,
             state'[j] = "none" <=> state[j] = "none",
             state[j] = "settled" => state'[j] = "settled"
      PROVE  MovesOn(j)
    BY <1>0, <1>1, <1>2 DEF MovesOn
<1>3. ASSUME build'[j].st \in {"queued", "running", "skipped", "failed", "cancelled"},
             build'[j].stage = build[j].stage,
             state'[j] # "none", build[j].st \in Active \cup {"failed"},
             build'[j].st = "cancelled" => state'[j] = "settled"
      PROVE  MovesOn(j)
    BY <1>0, <1>1, <1>3 DEF MovesOn, Active
<1>4. CASE Quiet \/ StartCommit
    BY <1>2, <1>4 DEF Quiet, StartCommit, work_vars
<1>5. ASSUME NEW i \in Items, RowMade(i) PROVE MovesOn(j)
    <2>1. CASE i # j
        BY <1>0, <1>2, <1>5, <2>1 DEF RowMade, Offer
    <2>2. CASE i = j
        <3>1. build'[j].st = "queued" /\ build'[j].stage = 0 /\ build[j].st = "none"
            BY <1>0, <1>5, <2>2 DEF RowMade
        <3>2. state'[j] = "open"
            BY <1>0, <1>5, <2>2 DEF RowMade, Offer
        <3> QED BY <1>0, <1>1, <3>1, <3>2 DEF MovesOn
    <2> QED BY <2>1, <2>2
<1>6. ASSUME NEW i \in Items, RetryByUser(i) PROVE MovesOn(j)
    <2>1. build' = [build EXCEPT ![i].st = "queued"]
        BY <1>6 DEF RetryByUser
    <2>2. state' = [k \in Items |-> IF k \in {i} THEN "open" ELSE state[k]]
        BY <1>6 DEF RetryByUser, Decide
    <2>3. CASE i # j
        BY <1>0, <1>2, <2>1, <2>2, <2>3
    <2>4. CASE i = j
        <3>1. build'[j].st = "queued" /\ build'[j].stage = build[j].stage /\ state'[j] = "open"
            BY <1>0, <2>1, <2>2, <2>4 DEF Builds
        <3>2. build[j].st \in Active \cup {"failed"}
            BY <1>6, <2>4 DEF RetryByUser, ShownFailed
        <3> QED BY <1>3, <3>1, <3>2
    <2> QED BY <2>3, <2>4
<1>7. ASSUME NEW S \in SUBSET Items, Cancelled(S) PROVE MovesOn(j)
    <2>1. state' = [k \in Items |-> IF k \in S THEN "settled" ELSE state[k]]
        BY <1>7 DEF Cancelled, Decide
    <2>2. CASE j \notin S
        BY <1>0, <1>2, <1>7, <2>1, <2>2 DEF Cancelled
    <2>3. CASE j \in S
        <3>1. /\ build'[j].st = "cancelled" /\ build'[j].stage = build[j].stage
              /\ build[j].st \in Active
            BY <1>0, <1>7, <2>3 DEF Cancelled, Builds
        <3> QED BY <1>3, <2>1, <2>3, <3>1
    <2> QED BY <2>2, <2>3
<1>8. ASSUME NEW w \in Workers, Around(w) PROVE MovesOn(j)
    <2>1. UNCHANGED build
        BY <1>8 DEF Around
    <2>2. /\ state'[j] = "none" <=> state[j] = "none"
          /\ state[j] = "settled" => state'[j] = "settled"
        <3>1. ASSUME NEW i \in Items, Take(w, i)
              PROVE  state'[j] = state[j] \/ (state[j] \in {"open", "held"} /\ state'[j] = "held")
            BY <1>0, <3>1 DEF Take, States
        <3>2. ASSUME NEW o \in {"open", "settled"}, Deliver(w, work[w], o)
              PROVE  state'[j] = state[j] \/ (state[j] = "held" /\ state'[j] = o)
            BY <1>0, <3>2 DEF Deliver, HeldByOne, QueueTypeOK
        <3> QED BY <1>8, <3>1, <3>2 DEF Around, Drop, work_vars
    <2> QED BY <1>2, <2>1, <2>2
<1>9. ASSUME NEW w \in Workers, HandlerStep(w) PROVE MovesOn(j)
    <2> DEFINE i == work[w]
    <2>1. UNCHANGED state /\ i \in Items
        BY <1>9, Handling DEF Started, Waits, Over, work_vars
    <2>2. w \in copied => state[i] = "held"
        BY DEF Copies
    <2>3. Started(w, i, build[i].stage, Marked(ck[i], build[i].stage)) \/ Waits(w, i) \/ Over(w, i)
        BY <1>9, Handling
    <2> HIDE DEF i
    <2>4. UNCHANGED build => MovesOn(j)
        BY <1>2, <2>1
    <2>5. ASSUME i # j, \E b : build' = [build EXCEPT ![i] = b] PROVE MovesOn(j)
        BY <1>0, <1>2, <2>1, <2>5
    <2>6. ASSUME NEW o \in {"running", "skipped", "failed"}, build' = [build EXCEPT ![i].st = o],
                 w \in copied, ~adopted => build[i].st \in Active
          PROVE  MovesOn(j)
        <3>1. CASE i = j
            <4>1. build'[j].st = o /\ build'[j].stage = build[j].stage
                BY <1>0, <2>6, <3>1 DEF Builds
            <4>2. state'[j] = "held" /\ build[j].st # "none" /\ build[j].st # "cancelled"
                BY <1>1, <2>1, <2>2, <2>6, <3>1
            <4> QED BY <1>0, <1>1, <2>6, <3>1, <4>1, <4>2 DEF MovesOn, Active
        <3> QED BY <2>5, <2>6, <3>1
    <2>7. ASSUME build' = [build EXCEPT ![i].stage = hand[w].stage + 1], hand[w].stage < Last,
                 w \in copied,
                 ~adopted => build[i].stage = hand[w].stage /\ build[i].st \in Active
          PROVE  MovesOn(j)
        <3>1. CASE i = j
            <4>1. build'[j].st = build[j].st /\ build'[j].stage = hand[w].stage + 1
                BY <1>0, <2>7, <3>1 DEF Builds
            <4>2. state'[j] = "held" /\ build[j].st # "none" /\ build[j].st # "cancelled"
                BY <1>1, <2>1, <2>2, <2>7, <3>1
            <4>3. hand[w].stage \in Nat
                BY Typed, BuildAssumption DEF Hands
            <4> QED BY <1>0, <1>1, <2>7, <3>1, <4>1, <4>2, <4>3 DEF MovesOn, Active
        <3> QED BY <2>5, <2>7, <3>1
    <2>8. ASSUME build' = [build EXCEPT ![i].st = "ready", ![i].stage = Last + 1],
                 w \in copied, ~adopted => build[i].stage = Last /\ build[i].st \in Active
          PROVE  MovesOn(j)
        <3>1. CASE i = j
            <4>1. build'[j].st = "ready" /\ build'[j].stage = Last + 1
                BY <1>0, <2>8, <3>1 DEF Builds
            <4>2. state'[j] = "held" /\ build[j].st # "none" /\ build[j].st # "cancelled"
                BY <1>1, <2>1, <2>2, <2>8, <3>1
            <4> QED BY <1>0, <1>1, <2>8, <3>1, <4>1, <4>2 DEF MovesOn, Active
        <3> QED BY <2>5, <2>8, <3>1
    <2> QED BY <2>3, <2>4, <2>6, <2>7, <2>8 DEF Started, Waits, Over
<1> QED BY <1>4, <1>5, <1>6, <1>7, <1>8, <1>9, NextKinds

LEMMA StepRows ==
    ASSUME BuildInv, [LearningNext]_lvars
    PROVE  RowsHaveJobs' /\ (~adopted => Finished')
BY StepMovesOn DEF RowsHaveJobs, Finished, MovesOn, BuildInv

\* A worker keeps the right token until the row gets another.
LEMMA StepCopies ==
    ASSUME BuildInv, [LearningNext]_lvars
    PROVE  Copies' /\ (~adopted' => FenceExact')
<1> USE DEF BuildInv, Copies, FenceExact
<1>0. /\ hand \in [Workers -> Hands] /\ state \in [Items -> States]
      /\ current \subseteq Workers /\ copied \subseteq Workers
      /\ work \in [Workers -> Items \cup {None}] /\ None \notin Items
      /\ ~adopted => copied \subseteq current
    BY Typed, BuildAssumption DEF QueueTypeOK
<1>1. CASE UNCHANGED <<work_vars, hand, copied, adopted>>
    BY <1>1 DEF work_vars
<1>2. ASSUME NEW j \in Items, RowMade(j) PROVE Copies' /\ (~adopted' => FenceExact')
    BY <1>0, <1>2 DEF RowMade, Offer, used
<1>3. ASSUME NEW S \in SUBSET Items, NEW o, Decide(S, o), NewToken(S), UNCHANGED <<hand, adopted>>
      PROVE  Copies' /\ (~adopted' => FenceExact')
    BY <1>0, <1>3 DEF Decide, NewToken
<1>4. ASSUME NEW w \in Workers, Around(w) PROVE Copies' /\ (~adopted' => FenceExact')
    <2>1. PICK x \in Hands :
            /\ hand' = [hand EXCEPT ![w] = x]
            /\ \/ /\ x.at = "claimed" /\ adopted' = adopted
                  /\ \E j \in Items : Take(w, j) /\ NewToken({j})
               \/ /\ x.at = "begin" /\ hand[w].at = "claimed" /\ UNCHANGED work_vars
                  /\ copied' = IF state[work[w]] = "held" THEN copied \cup {w} ELSE copied
                  /\ adopted' = IF state[work[w]] = "held" /\ w \notin current THEN TRUE ELSE adopted
               \/ /\ x.at = "none" /\ adopted' = adopted
                  /\ \/ Drop(w) /\ copied' = copied \ {w}
                     \/ \E o \in {"open", "settled"} :
                           Deliver(w, work[w], o) /\ NewToken({work[w]})
        BY <1>4, TroubleTyped DEF Around
    <2>2. hand'[w] = x /\ \A v \in Workers \ {w} : hand'[v] = hand[v]
        BY <1>0, <2>1
    <2>3. ASSUME NEW j \in Items, Take(w, j), NewToken({j}), x.at = "claimed", adopted' = adopted
          PROVE  Copies' /\ (~adopted' => FenceExact')
        BY <1>0, <2>2, <2>3 DEF Take, NewToken
    <2>4. ASSUME x.at = "begin", hand[w].at = "claimed", UNCHANGED work_vars,
                 copied' = IF state[work[w]] = "held" THEN copied \cup {w} ELSE copied,
                 adopted' = IF state[work[w]] = "held" /\ w \notin current THEN TRUE ELSE adopted
          PROVE  Copies' /\ (~adopted' => FenceExact')
        <3>1. work[w] # None
            BY <2>4 DEF HandsBusy
        <3>2. w \in current => state[work[w]] = "held"
            BY DEF HeldByOne
        <3>3. Copies'
            BY <1>0, <2>2, <2>4, <3>1, <3>2 DEF work_vars
        <3>4. ~adopted' => FenceExact'
            BY <1>0, <2>4 DEF work_vars
        <3> QED BY <3>3, <3>4
    <2>5. ASSUME x.at = "none", adopted' = adopted, Drop(w), copied' = copied \ {w}
          PROVE  Copies' /\ (~adopted' => FenceExact')
        BY <1>0, <2>2, <2>5 DEF Drop
    <2>6. ASSUME x.at = "none", adopted' = adopted, NEW o, Deliver(w, work[w], o),
                 NewToken({work[w]})
          PROVE  Copies' /\ (~adopted' => FenceExact')
        BY <1>0, <2>2, <2>6 DEF Deliver, NewToken, HeldByOne
    <2> QED BY <2>1, <2>3, <2>4, <2>5, <2>6
<1>5. ASSUME NEW w \in Workers, HandlerStep(w) PROVE Copies' /\ (~adopted' => FenceExact')
    <2>1. /\ UNCHANGED <<work_vars, copied, adopted>> /\ hand[w].at # "claimed"
          /\ \A v \in Workers \ {w} : hand'[v] = hand[v]
        BY <1>5, Handling, HandlerFrame
    <2> QED BY <1>0, <2>1 DEF work_vars
<1>6. ASSUME NEW j \in Items, RetryByUser(j) PROVE Copies' /\ (~adopted' => FenceExact')
    <2>1. {j} \in SUBSET Items /\ Decide({j}, "open") /\ NewToken({j}) /\ UNCHANGED <<hand, adopted>>
        BY <1>6, RetryTypes DEF RetryByUser
    <2> QED BY <1>3, <2>1
<1>7. ASSUME NEW S \in SUBSET Items, Cancelled(S) PROVE Copies' /\ (~adopted' => FenceExact')
    BY <1>3, <1>7 DEF Cancelled
<1>8. Quiet \/ StartCommit => UNCHANGED <<work_vars, hand, copied, adopted>>
    BY CommitTypes DEF Quiet, used
<1> QED BY <1>1, <1>2, <1>4, <1>5, <1>6, <1>7, <1>8, NextKinds

\* What a worker knows of its stage is in its hand.
LEMMA StepStagesRun ==
    ASSUME BuildInv, [LearningNext]_lvars
    PROVE  StagesRun'
<1> USE DEF BuildInv
<1> DEFINE Right(x) == x.at \in {"work", "absorbed", "publish"} =>
              /\ x.ck.inflight = x.stage
              /\ x.at = "publish" <=> x.stage >= Last
              /\ x.at # "work" => x.todo = {}
              /\ x.at # "publish" /\ ~x.failed => Needs[x.stage] \subseteq x.ck.parts \cup x.todo
<1>1. \A w \in Workers : Right(hand[w])
    BY DEF StagesRun, Working
<1>2. (\A w \in Workers : Right(hand'[w])) => StagesRun'
    BY DEF StagesRun, Working
<1>3. ASSUME NEW w \in Workers, NEW x \in Hands, Right(x), hand' = [hand EXCEPT ![w] = x]
      PROVE  StagesRun'
    <2>1. \A v \in Workers : hand'[v] = x \/ hand'[v] = hand[v]
        BY <1>3, Typed
    <2> QED BY <1>1, <1>2, <1>3, <2>1
<1>4. CASE UNCHANGED hand
    BY <1>1, <1>2, <1>4
<1>5. ASSUME NEW w \in Workers, Around(w) PROVE StagesRun'
    BY <1>3, <1>5 DEF Around
<1>6. ASSUME NEW w \in Workers, HandlerStep(w) PROVE StagesRun'
    <2> DEFINE j == work[w]
    <2>1. j \in Items
        BY <1>6, Handling
    <2> HIDE DEF j
    <2>2. ASSUME NEW s, NEW c, Started(w, j, s, c) PROVE StagesRun'
        <3>1. PICK x \in Hands :
                /\ hand' = [hand EXCEPT ![w] = x]
                /\ x.at = IF s >= Last THEN "publish"
                          ELSE IF Missing(c, s) # {} THEN "work" ELSE "absorbed"
                /\ x.stage = s /\ x.ck = c /\ x.todo = Missing(c, s) /\ x.failed = FALSE
            BY <2>2 DEF Started
        <3>2. c.inflight = s
            <4>1. s \in 0..(Last + 1) /\ ck[j] \in Checkpoints /\ c = Marked(ck[j], s)
                BY <2>1, <2>2, Typed DEF Started
            <4>2. ~(ck[j].inflight = s /\ ck[j].replays[s] >= ReplayLimit)
                BY <2>2 DEF Started, ReplaysUsedUp
            <4> QED BY <4>1, <4>2, MarkedRight
        <3>3. x.at # "work" => x.todo = {}
            BY <3>1 DEF Missing
        <3>4. x.at # "publish" => Needs[x.stage] \subseteq x.ck.parts \cup x.todo
            BY <3>1 DEF Missing
        <3>5. x.at = "publish" <=> x.stage >= Last
            BY <3>1
        <3>6. Right(x)
            BY <3>1, <3>2, <3>3, <3>4, <3>5
        <3> QED BY <1>3, <3>1, <3>6
    <2>3. CASE Waits(w, j)
        <3>1. PICK x \in Hands :
                /\ hand' = [hand EXCEPT ![w] = x] /\ hand[w].at = "work"
                /\ x.at \in {"work", "absorbed"} /\ (x.at = "absorbed" => x.todo = {})
                /\ x.stage = hand[w].stage /\ x.ck.inflight = hand[w].ck.inflight
                /\ ~x.failed => /\ ~hand[w].failed
                                /\ hand[w].ck.parts \cup hand[w].todo \subseteq x.ck.parts \cup x.todo
            BY <2>3 DEF Waits
        <3>2. Right(hand[w])
            BY <1>1
        <3>3. Right(x)
            BY <3>1, <3>2
        <3> QED BY <1>3, <3>1, <3>3
    <2>4. CASE Over(w, j)
        BY <1>3, <2>4 DEF Over
    <2> QED BY <1>6, <2>2, <2>3, <2>4, Handling DEF j
<1>7. \/ Quiet \/ StartCommit \/ \E j \in Items : RowMade(j) \/ RetryByUser(j)
      \/ \E S \in SUBSET Items : Cancelled(S)
      => UNCHANGED hand
    BY DEF Quiet, StartCommit, RowMade, RetryByUser, Cancelled
<1> QED BY <1>4, <1>5, <1>6, <1>7, NextKinds

\* Where a step leaves the worker alone, it leaves it its build, or takes the item
\* from it.
LEMMA StepCurrentRuns ==
    ASSUME BuildInv, [LearningNext]_lvars, ~adopted'
    PROVE  CurrentRuns'
<1> USE DEF BuildInv
<1>9. ~adopted
    BY StaysSo
<1>0. /\ build \in [Items -> Builds] /\ hand \in [Workers -> Hands]
      /\ current \subseteq Workers /\ work \in [Workers -> Items \cup {None}]
      /\ \A w \in Workers : Working(w) => work[w] \in Items
    BY Typed, AtWork DEF QueueTypeOK, Working
<1>10. CurrentRuns
    BY <1>9
<1>1. ASSUME \A v \in current' :
                \/ ~Working(v)'
                \/ /\ v \in current /\ hand'[v] = hand[v] /\ work'[v] = work[v]
                   /\ build'[work[v]].st = build[work[v]].st
                   /\ build'[work[v]].stage = build[work[v]].stage
      PROVE  CurrentRuns'
    BY <1>1, <1>10 DEF CurrentRuns, Working
<1>2. CASE Quiet \/ StartCommit
    BY <1>0, <1>1, <1>2 DEF Quiet, StartCommit, work_vars, Working
<1>3. ASSUME NEW j \in Items, RowMade(j) PROVE CurrentRuns'
    <2>1. \A v \in current : work[v] # j /\ work[v] # None
        BY <1>3 DEF RowMade, Offer, HeldByOne
    <2> QED BY <1>0, <1>1, <1>3, <2>1 DEF RowMade, Offer, Working
<1>4. ASSUME NEW S \in SUBSET Items, NEW o, Decide(S, o), UNCHANGED hand,
             \A j \in Items \ S : build'[j] = build[j]
      PROVE  CurrentRuns'
    BY <1>0, <1>1, <1>4 DEF Decide, Working
<1>5. ASSUME NEW j \in Items, RetryByUser(j) PROVE CurrentRuns'
    <2>1. \A i \in Items \ {j} : build'[i] = build[i]
        BY <1>0, <1>5 DEF RetryByUser
    <2>2. {j} \in SUBSET Items /\ Decide({j}, "open") /\ UNCHANGED hand
        BY <1>5 DEF RetryByUser
    <2> QED BY <1>4, <2>1, <2>2
<1>6. ASSUME NEW S \in SUBSET Items, Cancelled(S) PROVE CurrentRuns'
    BY <1>0, <1>4, <1>6 DEF Cancelled
<1>7. ASSUME NEW w \in Workers, Around(w) PROVE CurrentRuns'
    <2>1. /\ \A v \in Workers \ {w} : hand'[v] = hand[v] /\ work'[v] = work[v]
          /\ ~Working(w)' /\ UNCHANGED build
        BY <1>0, <1>7 DEF Around, Take, Drop, Deliver, Working, work_vars
    <2>2. current' \subseteq current \cup {w}
        BY <1>7 DEF Around, Take, Drop, Deliver, work_vars
    <2> QED BY <1>0, <1>1, <2>1, <2>2
<1>8. ASSUME NEW w \in Workers, HandlerStep(w) PROVE CurrentRuns'
    <2> DEFINE j == work[w]
    <2>1. j \in Items /\ UNCHANGED work_vars
        BY <1>8, Handling DEF Started, Waits, Over
    <2>2. \A v \in Workers \ {w} : hand'[v] = hand[v]
        BY <1>8, HandlerFrame
    <2>3. \A v \in current \ {w} : work[v] # None /\ (w \in current => work[v] # j)
        BY <1>0 DEF HeldByOne
    <2>4. UNCHANGED build \/ (w \in current /\ \A i \in Items \ {j} : build'[i] = build[i])
        BY <1>8, <1>9, HandlerFrame DEF Fenced
    <2>5. \A v \in current \ {w} : /\ hand'[v] = hand[v] /\ work'[v] = work[v]
                                   /\ build'[work[v]] = build[work[v]]
        BY <1>0, <2>1, <2>2, <2>3, <2>4 DEF work_vars
    <2>6. w \in current /\ Working(w)' => /\ build'[work'[w]].st = "running"
                                          /\ build'[work'[w]].stage = hand'[w].stage
        <3> HIDE DEF j
        <3>1. ASSUME NEW c, Started(w, j, build[j].stage, c)
              PROVE  build'[j].st = "running" /\ build'[j].stage = hand'[w].stage
            BY <1>0, <2>1, <3>1 DEF Started, Builds
        <3>2. CASE Waits(w, j)
            <4>1. UNCHANGED build /\ hand'[w].stage = hand[w].stage /\ hand[w].at = "work"
                BY <1>0, <3>2 DEF Waits
            <4> QED BY <1>10, <2>1, <4>1 DEF CurrentRuns, Working, j, work_vars
        <3>3. Over(w, j) => ~Working(w)'
            BY <1>0 DEF Over, Working
        <3> QED BY <1>8, <2>1, <3>1, <3>2, <3>3, Handling DEF j, work_vars
    <2>7. current' = current
        BY <2>1 DEF work_vars
    <2> QED BY <1>10, <2>5, <2>6, <2>7 DEF CurrentRuns, Working
<1> QED BY <1>2, <1>3, <1>5, <1>6, <1>7, <1>8, NextKinds

\* While no lease has run out, a worker that is current is alone with a build that is
\* not over, and no build is retried while a worker runs a stage of it.
LEMMA NobodyElse ==
    ASSUME BuildInv, Orderly, NEW v \in Workers, Working(v)
    PROVE  /\ \A w \in current : work[w] = work[v] /\ build[work[v]].st \in Active => w = v
           /\ ~RetryByUser(work[v])
<1>1. v \in current \/ build[work[v]].st = "cancelled"
    BY DEF BuildInv, Alone
<1>4. CurrentRuns
    BY DEF BuildInv, Orderly
<1>2. CASE v \in current
    <2>1. build[work[v]].st = "running" /\ state[work[v]] = "held"
        BY <1>2, <1>4 DEF BuildInv, CurrentRuns, HeldByOne
    <2> QED BY <1>2, <2>1 DEF BuildInv, HeldByOne, RetryByUser, ShownFailed
<1>3. CASE build[work[v]].st = "cancelled"
    BY <1>3 DEF Active, RetryByUser, ShownFailed
<1> QED BY <1>1, <1>2, <1>3

LEMMA StepAlone ==
    ASSUME BuildInv, [LearningNext]_lvars, Orderly'
    PROVE  Alone'
<1> USE DEF BuildInv
<1>0. /\ build \in [Items -> Builds] /\ hand \in [Workers -> Hands]
      /\ current \subseteq Workers /\ work \in [Workers -> Items \cup {None}]
      /\ \A w \in Workers : Working(w) => work[w] \in Items
      /\ Orderly /\ Alone
    BY Typed, AtWork, StaysSo DEF QueueTypeOK, Working, Orderly
<1> DEFINE Stays(v) == /\ hand'[v] = hand[v] /\ work'[v] = work[v]
                       /\ build'[work[v]].stage = build[work[v]].stage
                       /\ \/ v \in current' /\ v \in current
                          \/ v \notin current /\ build'[work[v]].st = build[work[v]].st
                          \/ build'[work[v]].st = "cancelled"
<1>1. ASSUME \A v \in Workers : ~Working(v)' \/ Stays(v)
      PROVE  Alone'
    <2> SUFFICES ASSUME NEW v \in Workers, Working(v)'
                 PROVE  /\ v \in current' \/ build'[work'[v]].st = "cancelled"
                        /\ build'[work'[v]].stage = hand'[v].stage
                        /\ \A w \in Workers : Working(w)' /\ work'[w] = work'[v] => w = v
        BY DEF Alone, Working
    <2>1. \A w \in Workers : Working(w)' => Working(w) /\ Stays(w)
        BY <1>1 DEF Working
    <2>2. \A w \in Workers : Working(w)' /\ work'[w] = work'[v] => w = v
        BY <1>0, <2>1 DEF Alone
    <2>3. /\ v \in current \/ build[work[v]].st = "cancelled"
          /\ build[work[v]].stage = hand[v].stage
        BY <1>0, <2>1 DEF Alone
    <2> QED BY <2>1, <2>2, <2>3
<1>2. CASE Quiet \/ StartCommit
    BY <1>0, <1>1, <1>2 DEF Quiet, StartCommit, work_vars, Working
<1>3. ASSUME NEW j \in Items, RowMade(j) PROVE Alone'
    <2>1. UNCHANGED <<work, current, hand>> /\ \A i \in Items \ {j} : build'[i] = build[i]
        BY <1>0, <1>3 DEF RowMade, Offer
    <2>2. \A v \in Workers : Working(v) => work[v] # j
        BY <1>0, <1>3 DEF RowMade, Offer, HeldByOne, Working, HandsBusy
    <2> QED BY <1>0, <1>1, <2>1, <2>2 DEF Working
<1>4. ASSUME NEW j \in Items, RetryByUser(j) PROVE Alone'
    <2>1. \A i \in Items \ {j} : build'[i] = build[i]
        BY <1>0, <1>4 DEF RetryByUser
    <2>2. UNCHANGED <<hand, work>> /\ current' = {v \in current : work[v] \notin {j}}
        BY <1>4 DEF RetryByUser, Decide
    <2>3. \A v \in Workers : Working(v) => work[v] # j
        BY <1>0, <1>4, NobodyElse
    <2> QED BY <1>0, <1>1, <2>1, <2>2, <2>3 DEF Working
<1>5. ASSUME NEW S \in SUBSET Items, Cancelled(S) PROVE Alone'
    <2>1. UNCHANGED <<hand, work>> /\ current' = {v \in current : work[v] \notin S}
        BY <1>5 DEF Cancelled, Decide
    <2>2. \A i \in Items : /\ build'[i].stage = build[i].stage
                           /\ i \in S => build'[i].st = "cancelled"
                           /\ i \notin S => build'[i] = build[i]
        BY <1>0, <1>5 DEF Cancelled, Builds
    <2> QED BY <1>0, <1>1, <2>1, <2>2 DEF Working
<1>6. ASSUME NEW w \in Workers, Around(w) PROVE Alone'
    <2>1. /\ \A v \in Workers \ {w} : hand'[v] = hand[v] /\ work'[v] = work[v]
          /\ ~Working(w)' /\ UNCHANGED build
        BY <1>0, <1>6 DEF Around, Take, Drop, Deliver, Working, work_vars
    <2>2. current \ {w} \subseteq current' /\ current' \subseteq current \cup {w}
        BY <1>6 DEF Around, Take, Drop, Deliver, work_vars, Orderly
    <2>3. \A v \in Workers \ {w} : Working(v)' => Stays(v)
        BY <1>0, <2>1, <2>2
    <2> QED BY <1>1, <2>1, <2>3
<1>7. ASSUME NEW w \in Workers, HandlerStep(w) PROVE Alone'
    <2> DEFINE j == work[w]
    <2>1. /\ j \in Items /\ UNCHANGED <<work, current>>
          /\ \A v \in Workers \ {w} : hand'[v] = hand[v]
          /\ \A i \in Items \ {j} : build'[i] = build[i]
          /\ UNCHANGED build \/ (w \in current /\ build[j].st \in Active)
        BY <1>0, <1>7, Handling, HandlerFrame DEF work_vars, Fenced, Orderly
    <2>2. \A v \in Workers \ {w} : Working(v) /\ w \in current /\ build[j].st \in Active
                                     => work[v] # j
        BY <1>0, NobodyElse
    <2>3. \A v \in Workers \ {w} : Working(v)' => Working(v) /\ Stays(v)
        BY <1>0, <2>1, <2>2 DEF Working
    <2>4. CASE ~Working(w)'
        BY <1>1, <2>3, <2>4
    <2>5. CASE Waits(w, j)
        <3>1. UNCHANGED build /\ hand'[w].stage = hand[w].stage /\ Working(w)
            BY <1>0, <2>5 DEF Waits, Working
        <3> QED BY <1>0, <2>1, <2>3, <3>1 DEF Alone, Working
    <2>6. ASSUME NEW c, Started(w, j, build[j].stage, c) PROVE Alone'
        <3>1. /\ w \in current /\ build[j].st \in Active
              /\ build'[j].stage = build[j].stage /\ hand'[w].stage = build[j].stage
            <4> HIDE DEF j
            <4> QED BY <1>0, <2>1, <2>6 DEF Started, Builds, FenceExact, Orderly
        <3>2. \A v \in Workers \ {w} : Working(v)' => work[v] # j
            BY <2>2, <2>3, <3>1
        <3> QED BY <1>0, <2>1, <2>3, <3>1, <3>2 DEF Alone, Working
    <2>7. Over(w, j) => ~Working(w)'
        BY <1>0 DEF Over, Working
    <2> QED BY <1>7, <2>4, <2>5, <2>6, <2>7, Handling
<1> QED BY <1>2, <1>3, <1>4, <1>5, <1>6, <1>7, NextKinds

\* As long as no learner has started, nobody else writes the checkpoints of a build
\* while a worker runs a stage of it.
LEMMA StepSnapshots ==
    ASSUME BuildInv, [LearningNext]_lvars, Orderly', ~node'.engaged
    PROVE  SnapshotsRight'
<1> USE DEF BuildInv
<1>0. /\ ck \in [Items -> Checkpoints] /\ hand \in [Workers -> Hands]
      /\ work \in [Workers -> Items \cup {None}]
      /\ \A w \in Workers : Working(w) => work[w] \in Items
      /\ Orderly /\ Alone /\ SnapshotsRight
    BY Typed, AtWork, StaysSo DEF Working, QueueTypeOK, Orderly
<1> DEFINE Stays(v) == hand'[v] = hand[v] /\ work'[v] = work[v] /\ ck'[work[v]] = ck[work[v]]
<1>1. ASSUME \A v \in Workers : ~Working(v)' \/ Stays(v)
      PROVE  SnapshotsRight'
    BY <1>0, <1>1 DEF SnapshotsRight, Working
<1>2. CASE Quiet
    BY <1>1, <1>2 DEF Quiet, work_vars
<1>3. CASE StartCommit
    BY <1>3, CommitTypes
<1>4. ASSUME NEW j \in Items, RowMade(j) PROVE SnapshotsRight'
    BY <1>1, <1>4 DEF RowMade, Offer
<1>5. ASSUME NEW j \in Items, RetryByUser(j) PROVE SnapshotsRight'
    <2>1. UNCHANGED <<hand, work>> /\ \A i \in Items \ {j} : ck'[i] = ck[i]
        BY <1>5, RetryTypes DEF RetryByUser, Decide
    <2>2. \A v \in Workers : Working(v) => work[v] # j
        BY <1>0, <1>5, NobodyElse
    <2> QED BY <1>0, <1>1, <2>1, <2>2 DEF Working
<1>6. ASSUME NEW S \in SUBSET Items, Cancelled(S) PROVE SnapshotsRight'
    BY <1>1, <1>6 DEF Cancelled, Decide
<1>7. ASSUME NEW w \in Workers, Around(w) PROVE SnapshotsRight'
    <2>1. /\ \A v \in Workers \ {w} : hand'[v] = hand[v] /\ work'[v] = work[v]
          /\ ~Working(w)' /\ UNCHANGED ck
        BY <1>0, <1>7 DEF Around, Take, Drop, Deliver, Working, work_vars
    <2> QED BY <1>1, <2>1
<1>8. ASSUME NEW w \in Workers, HandlerStep(w) PROVE SnapshotsRight'
    <2> DEFINE j == work[w]
    <2>1. /\ j \in Items /\ UNCHANGED work
          /\ \A v \in Workers \ {w} : hand'[v] = hand[v]
          /\ \A i \in Items \ {j} : ck'[i] = ck[i]
          /\ UNCHANGED ck \/ Working(w) \/ (w \in current /\ build[j].st \in Active)
        BY <1>0, <1>8, Handling, HandlerFrame DEF work_vars, Fenced, Orderly
    <2>2. \A v \in Workers \ {w} : Working(v) /\ ck' # ck => work[v] # j
        BY <1>0, <2>1, NobodyElse DEF Alone
    <2>3. \A v \in Workers \ {w} : Working(v)' => Working(v) /\ Stays(v)
        <3> HIDE DEF j
        <3> QED BY <1>0, <2>1, <2>2 DEF Working
    <2>4. CASE ~Working(w)'
        BY <1>1, <2>3, <2>4
    <2>5. CASE Waits(w, j)
        <3>1. PICK x \in Hands :
                /\ hand' = [hand EXCEPT ![w] = x] /\ hand[w].at = "work"
                /\ hand[w].ck.parts \subseteq x.ck.parts
                /\ x.ck.inflight = hand[w].ck.inflight /\ x.ck.replays = hand[w].ck.replays
                /\ UNCHANGED ck \/ ck' = [ck EXCEPT ![j] = x.ck]
            BY <2>5 DEF Waits
        <3>2. hand'[w] = x /\ Working(w) /\ ck'[j] \in {ck[j], x.ck}
            BY <1>0, <2>1, <3>1 DEF Working
        <3>3. /\ ck'[j].parts \subseteq hand'[w].ck.parts
              /\ ck'[j].inflight = hand'[w].ck.inflight
              /\ ck'[j].replays = hand'[w].ck.replays
            BY <1>0, <3>1, <3>2 DEF SnapshotsRight
        <3> QED BY <1>0, <2>1, <2>3, <3>3 DEF SnapshotsRight, Working
    <2>6. ASSUME NEW c, NEW s, Started(w, j, s, c) PROVE SnapshotsRight'
        <3>1. ck'[j] = c /\ hand'[w].ck = c
            BY <1>0, <2>1, <2>6 DEF Started
        <3> QED BY <1>0, <2>1, <2>3, <3>1 DEF SnapshotsRight, Working
    <2>7. Over(w, j) => ~Working(w)'
        BY <1>0 DEF Over, Working
    <2> QED BY <1>8, <2>4, <2>5, <2>6, <2>7, Handling
<1> QED BY <1>2, <1>3, <1>4, <1>5, <1>6, <1>7, <1>8, NextKinds

\* The count of one build, from its stage and its checkpoints.
Counted(n, s, c, p) ==
    IF p \in c.parts THEN n <= ReplayLimit + 1
    ELSE IF s < Last /\ p \in Needs[s] /\ c.inflight = s THEN n <= c.replays[s] + 1
    ELSE n = 0

LEMMA CountedBounded ==
    ASSUME NEW n \in Nat, NEW s \in 0..(Last + 1), NEW c \in Checkpoints, NEW p,
           Counted(n, s, c, p)
    PROVE  n <= ReplayLimit + 1
<1>1. c.replays \in [0..(Last + 1) -> 0..ReplayLimit] /\ ReplayLimit \in Nat /\ Last \in Nat
    BY BuildAssumption DEF Checkpoints
<1>2. s < Last => c.replays[s] \in 0..ReplayLimit
    BY <1>1
<1> QED BY <1>1, <1>2 DEF Counted

LEMMA ZeroIsCounted ==
    ASSUME NEW s \in 0..(Last + 1), NEW c \in Checkpoints, NEW p
    PROVE  Counted(0, s, c, p)
<1>1. c.replays \in [0..(Last + 1) -> 0..ReplayLimit] /\ ReplayLimit \in Nat /\ Last \in Nat
    BY BuildAssumption DEF Checkpoints
<1>2. s < Last => c.replays[s] \in 0..ReplayLimit
    BY <1>1
<1> QED BY <1>1, <1>2 DEF Counted

LEMMA StepCalls ==
    ASSUME BuildInv, [LearningNext]_lvars, Orderly', ~node'.engaged
    PROVE  CallsCounted'
<1> USE DEF BuildInv
<1>0. /\ build \in [Items -> Builds] /\ ck \in [Items -> Checkpoints]
      /\ calls \in [Items -> [AllParts -> Nat]] /\ hand \in [Workers -> Hands]
      /\ Orderly /\ ~adopted /\ Alone /\ SnapshotsRight
      /\ \A j \in Items : build[j].stage \in 0..(Last + 1)
      /\ ReplayLimit \in Nat /\ Last \in Nat
    BY Typed, StaysSo, BuildAssumption DEF Builds, Orderly
<1>1. \A i \in Items, p \in AllParts : Counted(calls[i][p], build[i].stage, ck[i], p)
    BY <1>0, StaysSo DEF CallsCounted, Counted
<1> SUFFICES ASSUME NEW i \in Items, NEW p \in AllParts
             PROVE  Counted(calls'[i][p], build'[i].stage, ck'[i], p)
    BY DEF CallsCounted, Counted
<1> DEFINE Goal == Counted(calls'[i][p], build'[i].stage, ck'[i], p)
<1>2. ASSUME calls'[i] = calls[i], build'[i].stage = build[i].stage, ck'[i] = ck[i]
      PROVE  Goal
    BY <1>1, <1>2
<1>3. build'[i].stage \in 0..(Last + 1) /\ ck'[i] \in Checkpoints
    BY StepLearningTypes DEF LearningTypeOK
<1>4. CASE Quiet
    BY <1>2, <1>4 DEF Quiet
<1>5. CASE StartCommit
    BY <1>5, CommitTypes
<1>6. ASSUME NEW j \in Items, RowMade(j) PROVE Goal
    <2>1. build'[i].stage = build[i].stage
        BY <1>0, <1>6 DEF RowMade, RowsHaveJobs
    <2> QED BY <1>2, <1>6, <2>1 DEF RowMade
<1>7. ASSUME NEW j \in Items, RetryByUser(j) PROVE Goal
    <2>1. CASE i = j
        BY <1>3, <1>7, <2>1, RetryTypes, ZeroIsCounted
    <2>2. CASE i # j
        <3>1. build'[i] = build[i]
            BY <1>0, <1>7, <2>2 DEF RetryByUser
        <3> QED BY <1>2, <1>7, <2>2, <3>1, RetryTypes
    <2> QED BY <2>1, <2>2
<1>8. ASSUME NEW S \in SUBSET Items, Cancelled(S) PROVE Goal
    <2>1. build'[i].stage = build[i].stage
        BY <1>0, <1>8 DEF Cancelled, Builds
    <2> QED BY <1>2, <1>8, <2>1 DEF Cancelled
<1>9. ASSUME NEW w \in Workers, Around(w) PROVE Goal
    BY <1>2, <1>9 DEF Around
<1>10. ASSUME NEW w \in Workers, HandlerStep(w) PROVE Goal
    <2> DEFINE j == work[w]
    <2>1. /\ j \in Items
          /\ i # j => build'[i] = build[i] /\ ck'[i] = ck[i] /\ calls'[i] = calls[i]
        BY <1>10, Handling, HandlerFrame
    <2>2. CASE i # j
        BY <1>2, <2>1, <2>2
    <2> SUFFICES ASSUME i = j PROVE Goal
        BY <2>2
    <2>3. hand[w] \in Hands /\ hand[w].ck \in Checkpoints /\ calls[i][p] \in Nat
        BY <1>0 DEF Hands
    <2>4. Working(w) => /\ ck[i].parts \subseteq hand[w].ck.parts
                        /\ ck[i].inflight = hand[w].ck.inflight
                        /\ ck[i].replays = hand[w].ck.replays
        BY <1>0 DEF SnapshotsRight
    <2>5. calls[i][p] <= ReplayLimit + 1
        BY <1>0, <1>1, <2>3, CountedBounded
    <2> HIDE DEF j
    <2>6. CASE Waits(w, j)
        <3>1. PICK x \in Hands :
                /\ hand' = [hand EXCEPT ![w] = x] /\ hand[w].at = "work"
                /\ hand[w].ck.parts \subseteq x.ck.parts
                /\ x.ck.inflight = hand[w].ck.inflight /\ x.ck.replays = hand[w].ck.replays
                /\ UNCHANGED <<build, calls>>
                /\ UNCHANGED ck \/ ck' = [ck EXCEPT ![j] = x.ck]
            BY <2>6 DEF Waits
        <3>2. ck'[i] = ck[i] \/ ck'[i] = x.ck
            BY <1>0, <3>1
        <3>3. CASE ck'[i] = ck[i]
            BY <1>2, <3>1, <3>3
        <3>4. CASE ck'[i] = x.ck
            <4>1. /\ ck[i].parts \subseteq ck'[i].parts
                  /\ ck'[i].inflight = ck[i].inflight /\ ck'[i].replays = ck[i].replays
                BY <2>4, <3>1, <3>4 DEF Working
            <4>2. calls'[i] = calls[i] /\ build'[i] = build[i]
                BY <3>1
            <4> QED BY <1>1, <2>5, <4>1, <4>2 DEF Counted
        <3> QED BY <3>2, <3>3, <3>4
    <2>7. ASSUME NEW s, NEW c, s = build[j].stage, Started(w, j, s, c) PROVE Goal
        <3>1. /\ s \in 0..(Last + 1) /\ ck[i] \in Checkpoints /\ c = Marked(ck[i], s)
              /\ c \in Checkpoints
            BY <1>0, <2>7 DEF Started
        <3>2. ~(ck[i].inflight = s /\ ck[i].replays[s] >= ReplayLimit)
            BY <2>7 DEF Started, ReplaysUsedUp
        <3>3. /\ c.parts = ck[i].parts /\ c.inflight = s
              /\ c.replays[s] = IF ck[i].inflight = s THEN ck[i].replays[s] + 1
                                ELSE ck[i].replays[s]
            BY <3>1, <3>2, MarkedRight
        <3>4. ck'[i] = c /\ build'[i].stage = s
            BY <1>0, <2>7 DEF Started, Builds
        <3>5. calls'[i][p] = IF p \in Missing(c, s) THEN calls[i][p] + 1 ELSE calls[i][p]
            BY <1>0, <2>7 DEF Started
        <3>6. Counted(calls[i][p], s, ck[i], p)
            BY <1>1, <2>7
        <3>7. ck[i].replays[s] \in 0..ReplayLimit
            BY <3>1 DEF Checkpoints
        <3>8. CASE p \in Missing(c, s)
            <4>1. s < Last /\ p \in Needs[s] /\ p \notin ck[i].parts
                BY <1>0, <3>1, <3>3, <3>8 DEF Missing
            <4>2. calls[i][p] + 1 <= c.replays[s] + 1
                BY <2>3, <3>3, <3>6, <3>7, <4>1 DEF Counted
            <4> QED BY <3>3, <3>4, <3>5, <3>8, <4>1, <4>2 DEF Counted
        <3>9. CASE p \notin Missing(c, s)
            <4>1. p \in ck[i].parts \/ ~(s < Last /\ p \in Needs[s])
                BY <1>0, <3>1, <3>3, <3>9 DEF Missing
            <4> QED BY <2>5, <3>3, <3>4, <3>5, <3>6, <3>9, <4>1 DEF Counted
        <3> QED BY <3>8, <3>9
    <2>8. CASE Over(w, j)
        <3>1. UNCHANGED calls
            BY <2>8 DEF Over
        <3>2. CASE UNCHANGED <<build, ck>>
            BY <1>2, <3>1, <3>2
        <3>3. ASSUME NEW o, build' = [build EXCEPT ![j].st = o], UNCHANGED ck
              PROVE  Goal
            <4>1. build'[i].stage = build[i].stage
                BY <1>0, <3>3 DEF Builds
            <4> QED BY <1>2, <3>1, <3>3, <4>1
        <3>4. ASSUME hand[w].at = "absorbed", ~hand[w].failed, hand[w].stage < Last,
                     build[j].stage = hand[w].stage,
                     build' = [build EXCEPT ![j].stage = hand[w].stage + 1],
                     ck' = [ck EXCEPT ![j] = [hand[w].ck EXCEPT !.inflight = None]]
              PROVE  Goal
            <4>1. ck'[i].parts = hand[w].ck.parts
                BY <1>0, <2>3, <3>4, Written
            <4>2. Needs[hand[w].stage] \subseteq hand[w].ck.parts
                BY <3>4 DEF StagesRun, Working
            <4>3. CASE p \in hand[w].ck.parts
                BY <2>5, <3>1, <4>1, <4>3 DEF Counted
            <4>4. CASE p \notin hand[w].ck.parts
                <5>1. p \notin ck[i].parts /\ p \notin Needs[build[i].stage]
                    BY <2>4, <3>4, <4>2, <4>4 DEF Working
                <5>2. calls[i][p] = 0
                    BY <1>1, <5>1 DEF Counted
                <5> QED BY <1>3, <3>1, <5>2, ZeroIsCounted
            <4> QED BY <4>3, <4>4
        <3>5. ASSUME build[j].stage = Last, UNCHANGED ck,
                     build' = [build EXCEPT ![j].st = "ready", ![j].stage = Last + 1]
              PROVE  Goal
            <4>1. build'[i].stage = Last + 1
                BY <1>0, <3>5 DEF Builds
            <4>2. p \in ck[i].parts \/ calls[i][p] = 0
                BY <1>0, <1>1, <3>5 DEF Counted
            <4> QED BY <1>3, <2>5, <3>1, <3>5, <4>2, ZeroIsCounted DEF Counted
        <3> QED BY <1>0, <2>8, <3>2, <3>3, <3>4, <3>5 DEF Over
    <2> QED BY <1>10, <2>6, <2>7, <2>8, Handling DEF j
<1> QED BY <1>4, <1>5, <1>6, <1>7, <1>8, <1>9, <1>10, NextKinds

LEMMA InitBuild == LearningInit => BuildInv
<1> SUFFICES ASSUME LearningInit PROVE BuildInv
    OBVIOUS
<1>1. QueueTypeOK /\ HeldByOne
    BY DEF LearningInit, FencedInit, QueueTypeOK, HeldByOne, States
<1>2. LearningTypeOK
    <2>1. build \in [Items -> Builds]
        <3>1. [st |-> "none", stage |-> 0, trigger |-> "auto", epoch |-> 0, print |-> 0] \in Builds
            BY BuildAssumption DEF Builds, Triggers
        <3> QED BY <3>1 DEF LearningInit
    <2>2. pack \in [Items -> Packs] /\ node \in Nodes
        BY DEF LearningInit, Packs, Nodes
    <2>3. ck \in [Items -> Checkpoints] /\ hand \in [Workers -> Hands]
        BY NothingYet DEF LearningInit
    <2>4. learner \in [job : Items \cup {None}, ck : Checkpoints]
        BY NothingYet DEF LearningInit
    <2>5. /\ calls \in [Items -> [AllParts -> Nat]] /\ copied \subseteq Workers
          /\ trouble \in 0..MaxTrouble /\ late \in BOOLEAN /\ adopted \in BOOLEAN
        <3>1. calls \in [Items -> [AllParts -> Nat]]
            BY DEF LearningInit
        <3>2. trouble \in 0..MaxTrouble
            BY BuildAssumption DEF LearningInit
        <3> QED BY <3>1, <3>2 DEF LearningInit
    <2> QED BY <2>1, <2>2, <2>3, <2>4, <2>5, Typed
<1>3. HandsBusy /\ \A w \in Workers : ~Working(w)
    BY NothingYet DEF LearningInit, FencedInit, HandsBusy, Working
<1>4. RowsHaveJobs /\ Finished
    <2> SUFFICES ASSUME NEW j \in Items
                 PROVE  /\ build[j].st = "none" /\ state[j] = "none" /\ build[j].stage = 0
                        /\ build[j].stage # Last + 1
        BY DEF RowsHaveJobs, Finished
    <2> QED BY BuildAssumption DEF LearningInit, FencedInit
<1>5. CallsCounted
    BY BuildAssumption, NothingYet DEF LearningInit, CallsCounted, NoCheckpoints
<1>6. current \subseteq Workers
    BY <1>1 DEF QueueTypeOK
<1>7. copied = {} /\ current = {}
    BY DEF LearningInit, FencedInit
<1> QED BY <1>1, <1>2, <1>3, <1>4, <1>5, <1>6, <1>7
        DEF BuildInv, StagesRun, CurrentRuns, Alone, SnapshotsRight, Copies, FenceExact

LEMMA StepBuild == BuildInv /\ [LearningNext]_lvars => BuildInv'
<1> SUFFICES ASSUME BuildInv, [LearningNext]_lvars PROVE BuildInv'
    OBVIOUS
<1>1. QueueTypeOK' /\ HeldByOne'
    BY StepIsFenced, FencedKeeps DEF BuildInv
<1>2. Orderly' => Alone'
    BY StepAlone
<1>3. Orderly' /\ ~node'.engaged => SnapshotsRight' /\ CallsCounted'
    BY StepSnapshots, StepCalls
<1>4. ~adopted' => FenceExact' /\ Finished' /\ CurrentRuns'
    BY StepCopies, StepRows, StepCurrentRuns, StaysSo
<1>5. RowsHaveJobs' /\ Copies'
    BY StepCopies, StepRows
<1> QED BY <1>1, <1>2, <1>3, <1>4, <1>5, StepLearningTypes, StepHandsBusy, StepStagesRun
        DEF BuildInv

LEMMA BuildInvariant == LearningSpec => []BuildInv
BY InitBuild, StepBuild, PTL DEF LearningSpec

-----------------------------------------------------------------------------
(* What follows.                                                           *)

\* The rows, the checkpoints and the workers' snapshots have their types: a stage is
\* replayed no more than the limit allows and is never past the published page
\* (learning_packages.py:883-902, 1013-1022).
THEOREM BuildTypeCorrect == LearningSpec => []LearningTypeOK
BY BuildInvariant, PTL DEF BuildInv

\* What users, the sweep, the workers and crashes do with the job of a build is what
\* FencedWork allows: a worker that was overtaken, or whose build was cancelled or
\* retried, cannot say how the job ended (learning_packages.py:1058-1093).
THEOREM JobsAreFenced == LearningSpec => FencedSpec
<1>1. LearningInit => FencedInit
    BY DEF LearningInit
<1>2. BuildInv /\ [LearningNext]_lvars => [FencedNext]_work_vars
    BY StepIsFenced
<1> QED BY <1>1, <1>2, BuildInvariant, PTL DEF LearningSpec, FencedSpec

\* A cancelled build stays cancelled, whoever still works on it: its job has no token
\* that anybody could have been told.  As long as nobody was told the token of a
\* successor, a build goes through its stages one by one, and what was published or
\* skipped stays so (learning_packages.py:868-1057).
THEOREM BuildsMoveOn == LearningSpec => BuildMovesOn
<1>1. BuildInv /\ [LearningNext]_lvars
        => [\A j \in Items :
              /\ build[j].st = "cancelled" => build'[j].st = "cancelled"
              /\ ~adopted => /\ build'[j].stage \in {build[j].stage, build[j].stage + 1}
                             /\ build[j].st \in {"ready", "skipped"}
                                  => build'[j].st = build[j].st]_lvars
    BY StepMovesOn DEF MovesOn
<1> QED BY <1>1, BuildInvariant, PTL DEF LearningSpec, BuildMovesOn

\* A part that was paid for stays in the checkpoints, through crashes, failures,
\* cancels and retries: the worker that saves its snapshot without a fence is the only
\* one that wrote there since it read them (learning_packages.py:702-722, 911-919).
THEOREM PaidResultsStay == LearningSpec => ResultsAreKept
<1>1. BuildInv /\ [LearningNext]_lvars
        => [Orderly /\ ~node'.engaged => \A j \in Items : ck[j].parts \subseteq ck'[j].parts]_lvars
    <2> SUFFICES ASSUME BuildInv, [LearningNext]_lvars, Orderly, ~node'.engaged, NEW i \in Items
                 PROVE  ck[i].parts \subseteq ck'[i].parts
        OBVIOUS
    <2>0. ck \in [Items -> Checkpoints] /\ build \in [Items -> Builds] /\ SnapshotsRight
        BY StaysSo, Typed DEF BuildInv
    <2>1. Quiet \/ StartCommit => UNCHANGED ck
        BY CommitTypes DEF Quiet, BuildInv
    <2>2. ASSUME NEW j \in Items, RetryByUser(j) PROVE ck[i].parts \subseteq ck'[i].parts
        BY <2>2, RetryTypes DEF BuildInv
    <2>3. ASSUME NEW w \in Workers, HandlerStep(w) PROVE ck[i].parts \subseteq ck'[i].parts
        <3> DEFINE j == work[w]
        <3>1. j \in Items /\ (i # j => ck'[i] = ck[i])
            BY <2>3, Handling, HandlerFrame
        <3>2. Working(w) /\ i = j => ck[i].parts \subseteq hand[w].ck.parts
            BY <2>0 DEF SnapshotsRight
        <3>3. hand[w].ck \in Checkpoints
            BY Typed DEF BuildInv, Hands
        <3> HIDE DEF j
        <3>4. CASE Waits(w, j)
            BY <2>0, <3>1, <3>2, <3>4 DEF Waits, Working
        <3>5. ASSUME NEW c, NEW s, s = build[j].stage, Started(w, j, s, c)
              PROVE  ck[i].parts \subseteq ck'[i].parts
            <4>1. /\ s \in 0..(Last + 1) /\ ck[j] \in Checkpoints /\ c = Marked(ck[j], s)
                  /\ ck' = [ck EXCEPT ![j] = c]
                BY <2>0, <3>1, <3>5 DEF Started
            <4>2. ~(ck[j].inflight = s /\ ck[j].replays[s] >= ReplayLimit)
                BY <3>5 DEF Started, ReplaysUsedUp
            <4>3. c.parts = ck[j].parts
                BY <4>1, <4>2, MarkedRight
            <4> QED BY <2>0, <3>1, <4>1, <4>3
        <3>6. CASE Over(w, j)
            <4>1. CASE UNCHANGED ck
                BY <4>1
            <4>2. CASE /\ hand[w].at = "absorbed"
                       /\ ck' = [ck EXCEPT ![j] = [hand[w].ck EXCEPT !.inflight = None]]
                BY <2>0, <3>1, <3>2, <3>3, <4>2, Written DEF Working
            <4> QED BY <3>6, <4>1, <4>2 DEF Over
        <3> QED BY <2>3, <3>4, <3>5, <3>6, Handling DEF j
    <2> QED BY <2>1, <2>2, <2>3, NextKinds DEF RowMade, Cancelled, Around
<1> QED BY <1>1, BuildInvariant, PTL DEF LearningSpec, ResultsAreKept

\* Between two retries of a user no part is asked for more often than the replay limit
\* allows: the mark is there before the call is made (learning_packages.py:883-902).
THEOREM ReplaysStayBounded == LearningSpec => []ReplaysAreBounded
<1>1. BuildInv => ReplaysAreBounded
    <2> SUFFICES ASSUME BuildInv, Orderly, ~node.engaged, NEW j \in Items, NEW p \in AllParts
                 PROVE  calls[j][p] <= ReplayLimit + 1
        BY DEF ReplaysAreBounded
    <2>1. /\ calls[j][p] \in Nat /\ build[j].stage \in 0..(Last + 1) /\ ck[j] \in Checkpoints
        BY Typed DEF BuildInv, Builds
    <2>2. Counted(calls[j][p], build[j].stage, ck[j], p)
        BY DEF BuildInv, CallsCounted, Counted
    <2> QED BY <2>1, <2>2, CountedBounded
<1> QED BY <1>1, BuildInvariant, PTL
=============================================================================

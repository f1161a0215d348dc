---------------------------- MODULE LearningBuild ----------------------------
(***************************************************************************)
(* The building of a learning page: backend/app/services/                  *)
(* learning_packages.py on top of the durable queue.  A build is a row     *)
(* with a stage and checkpoints, driven by one job of the queue: each      *)
(* claim of the job runs one stage, asks a paid model for what the stage   *)
(* still misses, and hands the job back to the queue; the last stage       *)
(* publishes the page.  Meanwhile users cancel and retry the build, switch *)
(* automatic building on and off, change the node, and start learning from *)
(* a draft of the page.                                                    *)
(*                                                                         *)
(* The queue is FencedWork, which DurableQueue implements: an item is a    *)
(* build together with its job, and a worker is current while the row      *)
(* carries the token of its claim.  The handler is told that token as the  *)
(* row had it when claim_next loaded it again, after its commit, which may *)
(* by then be the token of a successor; its fence asks for nothing else.   *)
(* All builds are of one node, and each transaction is one step.  What a   *)
(* part of the page contains is not modelled, only which parts there are.  *)
(***************************************************************************)
EXTENDS FencedWork, Naturals

CONSTANTS
    Last,        \* the publishing stage; the stages before it generate parts
    Needs,       \* the parts each generating stage sees to
    OneByOne,    \* stages whose results are checkpointed as they arrive
    Trainable,   \* parts a learner can start from
    ReplayLimit, \* learning_stage_replay_limit
    MaxTrouble   \* bound: crashes, retries, changes and starts after the first
                 \* count one each, a lease that runs out under a live worker two

ASSUME BuildAssumption ==
    /\ Items \subseteq Nat
    /\ Last \in Nat /\ ReplayLimit \in Nat /\ MaxTrouble \in Nat
    /\ DOMAIN Needs = 0..(Last - 1)
    /\ OneByOne \subseteq 0..(Last - 1)
    /\ None \notin Items

VARIABLES
    build,   \* status, stage and terms of each row of learning_package_builds
    ck,      \* its checkpoints column
    pack,    \* the row of learning_packages made for it
    node,    \* engaged, current package and definition of the node; the policy
    hand,    \* where each worker is in run_build_stage, and its snapshot
    learner, \* a call of start: between its reads and its commit
    calls,   \* times each part was asked for since a user's last retry
    copied,  \* workers that were told the token the row carries now
    trouble, \* how much of the bound has been used
    late,    \* some lease has run out under a live worker
    adopted  \* some worker was told a token that is not of its claim

used     == <<trouble, late, adopted>>
learning == <<build, ck, pack, node, hand, learner, calls, copied, used>>
lvars    == <<work_vars, learning>>

AllParts == UNION {Needs[s] : s \in DOMAIN Needs}
Active   == {"queued", "running"}
Triggers == {"auto", "manual", "on_demand"}

Checkpoints == [parts : SUBSET AllParts, inflight : 0..(Last + 1) \cup {None},
                replays : [0..(Last + 1) -> 0..ReplayLimit], started : BOOLEAN]
NoCheckpoints == [parts |-> {}, inflight |-> None,
                  replays |-> [s \in 0..(Last + 1) |-> 0], started |-> FALSE]
NoHand == [at |-> "none", stage |-> 0, ck |-> NoCheckpoints, todo |-> {},
           failed |-> FALSE]

LearningTypeOK ==
    /\ build \in [Items -> [st : {"none", "ready", "failed", "skipped", "cancelled"}
                                  \cup Active,
                           stage : 0..(Last + 1), trigger : Triggers,
                           epoch : Nat, print : Nat]]
    /\ ck \in [Items -> Checkpoints]
    /\ pack \in [Items -> [kind : {"none", "draft", "published"},
                          parts : SUBSET AllParts]]
    /\ node \in [engaged : BOOLEAN, current : Items \cup {None}, print : Nat,
                 on : BOOLEAN, epoch : Nat]
    /\ hand \in [Workers -> [at : {"none", "claimed", "begin", "work", "absorbed",
                                   "publish", "complete", "rearm", "raise"},
                             stage : 0..(Last + 1), ck : Checkpoints,
                             todo : SUBSET AllParts, failed : BOOLEAN]]
    /\ learner \in [job : Items \cup {None}, ck : Checkpoints]
    /\ calls \in [Items -> [AllParts -> Nat]]
    /\ copied \subseteq Workers
    /\ trouble \in 0..MaxTrouble /\ late \in BOOLEAN /\ adopted \in BOOLEAN

LearningInit ==
    /\ FencedInit
    /\ build = [j \in Items |-> [st |-> "none", stage |-> 0, trigger |-> "auto",
                                epoch |-> 0, print |-> 0]]
    /\ ck = [j \in Items |-> NoCheckpoints]
    /\ pack = [j \in Items |-> [kind |-> "none", parts |-> {}]]
    /\ node = [engaged |-> FALSE, current |-> None, print |-> 0, on |-> TRUE,
               epoch |-> 1]
    /\ hand = [w \in Workers |-> NoHand]
    /\ learner = [job |-> None, ck |-> NoCheckpoints]
    /\ calls = [j \in Items |-> [p \in AllParts |-> 0]]
    /\ copied = {}
    /\ trouble = 0 /\ late = FALSE /\ adopted = FALSE

-----------------------------------------------------------------------------
(* What the build is allowed to do *)

\* build_allowed.  A change of the node's definition, of its graph's
\* publication and of the actor's access are one thing here: the fingerprint.
Allowed(j) ==
    /\ build[j].print = node.print
    /\ build[j].trigger = "auto" =>
          /\ node.on /\ node.epoch = build[j].epoch
          /\ ~node.engaged \/ ck[j].started
    /\ build[j].trigger = "manual" => ~node.engaged

Trouble(n) == trouble + n <= MaxTrouble /\ trouble' = trouble + n
RunsOut    == Trouble(2) /\ late' = TRUE /\ UNCHANGED adopted

\* Mutant of LeaseFence: a lease that was taken over still counts.
LeaseFenceAny(w) == TRUE

\* The condition of lease_fence: the row is leased with the token the handler was
\* told, whoever owns it.  It also asks for time left on the lease.
LeaseFence(w) == w \in copied

\* Passing it extends the lease, which FencedWork does not tell.  It may fail for
\* a worker with the right token, when the lease is over and nobody took the job yet.
Pass(w) == LeaseFence(w) /\ UNCHANGED <<work_vars, copied, used>>
FenceFails(w) ==
    /\ (~LeaseFence(w) /\ UNCHANGED used) \/ RunsOut
    /\ UNCHANGED <<work_vars, copied>>

\* The rows of these jobs get another token, or none.
NewToken(S) == copied' = {v \in copied : work[v] \notin S}

\* The handler is over: what run_one_durable_job does next.
HandBack(w, how) == hand' = [hand EXCEPT ![w] = [NoHand EXCEPT !.at = how]]

-----------------------------------------------------------------------------
(* The worker: run_build_stage *)

\* Mutant of Marked: the stage is not marked before the model is asked.
MarkedLate(c, s) == c

\* The snapshot with the stage marked as begun; beginning it again is a replay.
Marked(c, s) ==
    [c EXCEPT !.inflight = s, !.replays[s] = IF c.inflight = s THEN @ + 1 ELSE @]

\* The parts the stage has to ask a model for.  A build that is retried past its
\* last stage publishes again.
Missing(c, s) == IF s >= Last THEN {} ELSE Needs[s] \ c.parts

\* Mutant of ReplaysUsedUp: off by one.
ReplaysOverrun(j) ==
    LET s == build[j].stage IN ck[j].inflight = s /\ ck[j].replays[s] > ReplayLimit

\* The stage was begun before and may not be begun again.
ReplaysUsedUp(j) ==
    LET s == build[j].stage IN ck[j].inflight = s /\ ck[j].replays[s] >= ReplayLimit

\* The first transaction.
Begin(w) ==
    LET j == work[w]
        b == build[j]
        s == b.stage
        c == Marked(ck[j], s)
    IN
    /\ hand[w].at = "begin"
    /\ \/ /\ b.st \notin Active
          /\ HandBack(w, "complete")
          /\ UNCHANGED <<work_vars, copied, build, ck, calls, used>>
       \/ /\ b.st \in Active /\ FenceFails(w)
          /\ HandBack(w, "raise")
          /\ UNCHANGED <<build, ck, calls>>
       \/ /\ b.st \in Active /\ Pass(w)
          /\ \/ /\ ~Allowed(j)
                /\ build' = [build EXCEPT ![j].st = "skipped"]
                /\ HandBack(w, "complete")
                /\ UNCHANGED <<ck, calls>>
             \/ /\ Allowed(j)
                /\ ReplaysUsedUp(j)
                /\ build' = [build EXCEPT ![j].st = "failed"]
                /\ HandBack(w, "complete")
                /\ UNCHANGED <<ck, calls>>
             \/ /\ Allowed(j)
                /\ ~ReplaysUsedUp(j)
                /\ build' = [build EXCEPT ![j].st = "running"]
                /\ ck' = [ck EXCEPT ![j] = c]
                /\ calls' = [calls EXCEPT ![j] = [p \in AllParts |->
                      IF p \in Missing(c, s) THEN @[p] + 1 ELSE @[p]]]
                /\ hand' = [hand EXCEPT ![w] =
                      [at |-> CASE s >= Last -> "publish"
                                [] Missing(c, s) # {} -> "work"
                                [] OTHER -> "absorbed",
                       stage |-> s, ck |-> c, todo |-> Missing(c, s),
                       failed |-> FALSE]]
    /\ UNCHANGED <<pack, node, learner>>

\* sync_training_draft: the build's package, if it has one, is rewritten from
\* the snapshot.  Whether it was published meanwhile is not asked.
Sync(j, parts) ==
    pack' = [pack EXCEPT ![j] =
        IF @.kind = "none" \/ parts \cap Trainable = {} THEN @
        ELSE [kind |-> "draft", parts |-> parts]]

\* A model answers with a valid part.  checkpoint_generation_result saves the
\* snapshot as it is now, without a fence.  Learning sections that become
\* visible one by one inside this call are one part.
Answer(w, p) ==
    LET j == work[w]
        c == [hand[w].ck EXCEPT !.parts = @ \cup {p}]
    IN
    /\ hand[w].at = "work" /\ p \in hand[w].todo
    /\ hand' = [hand EXCEPT ![w].todo = @ \ {p}, ![w].ck = c]
    /\ IF hand[w].stage \in OneByOne
       THEN ck' = [ck EXCEPT ![j] = c] /\ Sync(j, c.parts)
       ELSE UNCHANGED <<ck, pack>>
    /\ UNCHANGED <<work_vars, copied, build, node, learner, calls, used>>

\* It fails, or what it answers stays invalid.
NoAnswer(w, p) ==
    /\ hand[w].at = "work" /\ p \in hand[w].todo
    /\ hand' = [hand EXCEPT ![w].todo = @ \ {p}, ![w].failed = TRUE]
    /\ UNCHANGED <<work_vars, copied, build, ck, pack, node, learner, calls, used>>

\* absorb_stage_results saves the snapshot once more when all answers are in.
Absorb(w) ==
    LET j == work[w] IN
    /\ hand[w].at = "work" /\ hand[w].todo = {}
    /\ hand' = [hand EXCEPT ![w].at = "absorbed"]
    /\ IF hand[w].stage \in OneByOne
       THEN ck' = [ck EXCEPT ![j] = hand[w].ck] /\ Sync(j, hand[w].ck.parts)
       ELSE UNCHANGED <<ck, pack>>
    /\ UNCHANGED <<work_vars, copied, build, node, learner, calls, used>>

\* The end of a stage, with its fence.
EndStage(w) ==
    LET j == work[w]
        c == [hand[w].ck EXCEPT !.inflight = None]
    IN
    /\ hand[w].at = "absorbed" /\ ~hand[w].failed
    /\ \/ /\ FenceFails(w)
          /\ HandBack(w, "complete")
          /\ UNCHANGED <<build, ck, pack>>
       \/ /\ Pass(w) /\ build[j].st \notin Active
          /\ HandBack(w, "complete")
          /\ UNCHANGED <<build, ck, pack>>
       \/ /\ Pass(w) /\ build[j].st \in Active
          /\ ck' = [ck EXCEPT ![j] = c]
          /\ build' = [build EXCEPT ![j].stage = hand[w].stage + 1]
          /\ Sync(j, c.parts)
          /\ HandBack(w, "rearm")
    /\ UNCHANGED <<node, learner, calls>>

\* The exception path: the build fails if the worker still has its lease.
FailStage(w) ==
    LET j == work[w] IN
    /\ \/ hand[w].at = "absorbed" /\ hand[w].failed
       \/ hand[w].at = "publish" /\ hand[w].ck.parts # AllParts
    /\ HandBack(w, "complete")
    /\ \/ Pass(w) /\ build' = [build EXCEPT ![j].st = "failed"]
       \/ FenceFails(w) /\ UNCHANGED build
    /\ UNCHANGED <<ck, pack, node, learner, calls>>

\* Status and eligibility are read again under the lock of the node's row.
MayPublish(j) == build[j].st \in Active /\ Allowed(j)

\* The last stage.  A call of start that holds the node's row is waited for.
Publish(w) ==
    LET j == work[w] IN
    /\ hand[w].at = "publish" /\ hand[w].ck.parts = AllParts
    /\ learner.job = None
    /\ HandBack(w, "complete")
    /\ \/ FenceFails(w) /\ UNCHANGED <<build, pack, node>>
       \/ /\ Pass(w)
          /\ \/ /\ ~MayPublish(j)
                /\ build' = [build EXCEPT ![j].st = "skipped"]
                /\ UNCHANGED <<pack, node>>
             \/ /\ MayPublish(j)
                /\ pack' = [pack EXCEPT ![j] =
                              [kind |-> "published", parts |-> hand[w].ck.parts]]
                /\ node' = [node EXCEPT !.current = j]
                /\ build' = [build EXCEPT ![j].st = "ready", ![j].stage = Last + 1]
    /\ UNCHANGED <<ck, learner, calls>>

-----------------------------------------------------------------------------
(* Users and the sweep *)

Rows == {j \in Items : build[j].st # "none"}

\* One more of the crashes, retries, changes and starts that are explored.
Move == Trouble(1) /\ UNCHANGED <<late, adopted>>

\* Rows are made in the order of their numbers.
NextRow(j) == j \notin Rows /\ \A i \in Items : i < j => i \in Rows

\* A new build and its job, in one transaction.
NewBuild(j, trigger) ==
    /\ build' = [build EXCEPT ![j] = [st |-> "queued", stage |-> 0,
                    trigger |-> trigger, epoch |-> node.epoch, print |-> node.print]]
    /\ Offer(j)

\* LearningPackageService.enqueue, called for a user or by the sweep.  It begins
\* with an UPDATE of the node's row, so it waits for a call of start.
Enqueue(trigger) ==
    LET live == {j \in Items : build[j].st \in Active} IN
    /\ learner.job = None
    /\ trigger # "on_demand" => ~node.engaged
    \* reconcile_learning_builds
    /\ trigger = "auto" => /\ node.on /\ node.current = None
                           /\ \A j \in Rows : build[j].epoch # node.epoch
    /\ \/ \E j \in live :
             /\ trigger = "on_demand"
             /\ build' = [build EXCEPT ![j].trigger = trigger]
             /\ UNCHANGED work_vars
       \/ /\ live = {}
          /\ \E j \in Items : NextRow(j) /\ NewBuild(j, trigger)
    /\ node' = [node EXCEPT !.engaged = @ \/ trigger = "on_demand"]
    /\ UNCHANGED <<ck, pack, hand, learner, calls, copied, used>>

\* The first question about the node, or the start of a published page or of an
\* attempt.
Engage ==
    /\ learner.job = None
    /\ ~node.engaged
    /\ node' = [node EXCEPT !.engaged = TRUE]
    /\ UNCHANGED <<work_vars, copied, build, ck, pack, hand, learner, calls, used>>

\* start, before a page is published: the newest build that is not over is read
\* under the lock of the node's row.  Nothing keeps the build from moving on.
StartRead(j) ==
    LET candidates == {i \in Items : build[i].st \in Active \cup {"failed"}} IN
    /\ learner.job = None /\ node.current = None
    /\ j \in candidates /\ \A i \in candidates : i <= j
    /\ ck[j].parts \cap Trainable # {}
    /\ learner' = [job |-> j, ck |-> ck[j]]
    /\ IF node.engaged THEN Move ELSE UNCHANGED used
    /\ UNCHANGED <<work_vars, copied, build, ck, pack, node, hand, calls>>

\* Its commit: the draft, the engagement, and the checkpoints as they were read
\* with the mark that training has started.
StartCommit ==
    LET j == learner.job
        c == learner.ck
    IN
    /\ j # None
    /\ learner' = [job |-> None, ck |-> NoCheckpoints]
    /\ node' = [node EXCEPT !.engaged = TRUE]
    /\ pack' = [pack EXCEPT ![j] = IF @.kind # "none" THEN @
                                   ELSE [kind |-> "draft", parts |-> c.parts]]
    /\ ck' = IF c.started THEN ck ELSE [ck EXCEPT ![j] = [c EXCEPT !.started = TRUE]]
    /\ UNCHANGED <<work_vars, copied, build, hand, calls, used>>

\* control_build "cancel".
CancelByUser(j) ==
    /\ build[j].st \in Active
    /\ build' = [build EXCEPT ![j].st = "cancelled"]
    /\ Decide({j}, "settled") /\ NewToken({j})
    /\ UNCHANGED <<ck, pack, node, hand, learner, calls, used>>

\* The status build_view shows is "failed".
ShownFailed(j) ==
    \/ build[j].st = "failed"
    \/ build[j].st \in Active /\ state[j] = "settled"

\* Mutant of RetryByUser: a retry starts from nothing.
RetryAfresh(j) ==
    /\ ShownFailed(j) /\ Allowed(j)
    /\ Decide({j}, "open") /\ NewToken({j})
    /\ Move
    /\ build' = [build EXCEPT ![j].st = "queued"]
    /\ ck' = [ck EXCEPT ![j] = NoCheckpoints]
    /\ calls' = [calls EXCEPT ![j] = [p \in AllParts |-> 0]]
    /\ UNCHANGED <<pack, node, hand, learner>>

\* control_build "retry".  The replays used up stay used up.
RetryByUser(j) ==
    /\ ShownFailed(j) /\ Allowed(j)
    /\ Decide({j}, "open") /\ NewToken({j})
    /\ Move
    /\ build' = [build EXCEPT ![j].st = "queued"]
    /\ ck' = [ck EXCEPT ![j].inflight = None]
    /\ calls' = [calls EXCEPT ![j] = [p \in AllParts |-> 0]]
    /\ UNCHANGED <<pack, node, hand, learner>>

\* set_policy, off: the automatic builds under way are cancelled with it.
SwitchOff ==
    LET doomed == {j \in Items : build[j].st \in Active /\ build[j].trigger = "auto"} IN
    /\ node.on /\ Move
    /\ node' = [node EXCEPT !.on = FALSE, !.epoch = @ + 1]
    /\ build' = [j \in Items |-> IF j \in doomed
                   THEN [build[j] EXCEPT !.st = "cancelled"] ELSE build[j]]
    /\ Decide(doomed, "settled") /\ NewToken(doomed)
    /\ UNCHANGED <<ck, pack, hand, learner, calls>>

\* set_policy, on: a new epoch, so earlier automatic builds do not count.
SwitchOn ==
    /\ ~node.on /\ Move
    /\ node' = [node EXCEPT !.on = TRUE, !.epoch = @ + 1]
    /\ UNCHANGED <<work_vars, copied, build, ck, pack, hand, learner, calls>>

\* The node's definition, the graph's status or somebody's access changes.
EditNode ==
    /\ Move
    /\ node' = [node EXCEPT !.print = @ + 1]
    /\ UNCHANGED <<work_vars, copied, build, ck, pack, hand, learner, calls>>

-----------------------------------------------------------------------------
(* The queue around the handler *)

\* Mutant of ClaimStep: a job is not taken from a worker that is gone.
ClaimOpenOnly(w) ==
    /\ \E j \in Items : state[j] = "open" /\ Take(w, j) /\ NewToken({j})
    /\ UNCHANGED used
    /\ HandBack(w, "claimed")
    /\ UNCHANGED <<build, ck, pack, node, learner, calls>>

\* An open job is claimed, or one whose worker is gone or late.
ClaimStep(w) ==
    /\ \E j \in Items :
         /\ Take(w, j) /\ NewToken({j})
         /\ IF \E v \in current \cup copied : work[v] = j THEN RunsOut
            ELSE UNCHANGED used
    /\ HandBack(w, "claimed")
    /\ UNCHANGED <<build, ck, pack, node, learner, calls>>

\* claim_next loads the row again after its commit.  Whoever took the job since, or
\* opened it and let it be taken, has put another token there; a row that is not
\* leased has none.
Reload(w) ==
    LET leased == state[work[w]] = "held" IN
    /\ hand[w].at = "claimed"
    /\ HandBack(w, "begin")
    /\ copied' = IF leased THEN copied \cup {w} ELSE copied
    /\ adopted' = IF leased /\ w \notin current THEN TRUE ELSE adopted
    /\ UNCHANGED <<work_vars, build, ck, pack, node, learner, calls, trouble, late>>

\* run_one_durable_job completes the job, re-arms it, or fails it, which with a
\* max_attempts of 1 is final.  The queue keeps out a worker that was overtaken.
ReportStep(w) ==
    LET outcome == IF hand[w].at = "rearm" THEN "open" ELSE "settled" IN
    /\ hand[w].at \in {"complete", "rearm", "raise"}
    /\ \/ Deliver(w, work[w], outcome) /\ NewToken({work[w]})
       \/ w \notin current /\ Drop(w) /\ copied' = copied \ {w}
    /\ hand' = [hand EXCEPT ![w] = NoHand]
    /\ UNCHANGED <<build, ck, pack, node, learner, calls, used>>

HandlerStep(w) ==
    \/ Begin(w) \/ Absorb(w) \/ EndStage(w) \/ FailStage(w) \/ Publish(w)
    \/ \E p \in AllParts : Answer(w, p) \/ NoAnswer(w, p)

\* The process dies and is started again; the job stays leased.
Crash(w) ==
    /\ work[w] # None
    /\ Move
    /\ Drop(w) /\ copied' = copied \ {w}
    /\ hand' = [hand EXCEPT ![w] = NoHand]
    /\ UNCHANGED <<build, ck, pack, node, learner, calls>>

LearningWorkerStep(w) == ClaimStep(w) \/ Reload(w) \/ HandlerStep(w) \/ ReportStep(w)

LearningNext ==
    \/ \E t \in Triggers : Enqueue(t)
    \/ Engage \/ \E j \in Items : StartRead(j)
    \/ StartCommit
    \/ \E j \in Items : CancelByUser(j) \/ RetryByUser(j)
    \/ SwitchOff \/ SwitchOn \/ EditNode
    \/ \E w \in Workers : LearningWorkerStep(w) \/ Crash(w)

LearningSpec == LearningInit /\ [][LearningNext]_lvars

\* Workers go on polling and their handlers come to an end (durable_queue_worker;
\* each model call has a timeout), a call of start ends, and the database grants
\* the lock of the node's row in turn.
LearningFairSpec ==
    /\ LearningSpec
    /\ WF_lvars(StartCommit)
    /\ \A w \in Workers : WF_lvars(LearningWorkerStep(w)) /\ SF_lvars(Publish(w))

-----------------------------------------------------------------------------
(* Properties *)

\* A build only moves on (learning_packages.py:868-1057, the router's
\* control_build): whatever a worker that was overtaken, cancelled or replaced by
\* a retry still does, a cancelled build stays cancelled; and as long as no worker
\* was told the token of a successor, no stage is gone back to or passed over, and
\* a build that was skipped or published stays so.
BuildMovesOn ==
    [][\A j \in Items :
         /\ build[j].st = "cancelled" => build'[j].st = "cancelled"
         /\ ~adopted => /\ build'[j].stage \in {build[j].stage, build[j].stage + 1}
                        /\ build[j].st \in {"ready", "skipped"}
                             => build'[j].st = build[j].st]_lvars

\* No worker was overtaken while it worked, or started with a successor's token.
Orderly == ~late /\ ~adopted

\* As long as the workers are orderly and no learner has started, a part that was
\* paid for stays in the checkpoints until the build is over, through crashes,
\* failures, cancels and retries (learning_packages.py:702-722, 911-919).
ResultsAreKept ==
    [][Orderly /\ ~node'.engaged
         => \A j \in Items : ck[j].parts \subseteq ck'[j].parts]_lvars

\* Under the same condition no part is asked for more often than the replay
\* limit allows between two retries of a user: a crash during a paid call is
\* noticed before the call is made again (learning_packages.py:883-902).
ReplaysAreBounded ==
    Orderly /\ ~node.engaged
      => \A j \in Items, p \in AllParts : calls[j][p] <= ReplayLimit + 1

\* A build does not stay under way for ever: it is ready, given up, cancelled or
\* shown as failed, although workers crash and leases run out
\* (build_view, learning_packages.py:248-259).
BuildSettles ==
    \A j \in Items : build[j].st \in Active
                       ~> build[j].st \notin Active \/ ShownFailed(j)
=============================================================================

----------------------------- MODULE SandboxExec -----------------------------
(***************************************************************************)
(* Commands in a sandbox: the daemon (sandboxd/sandboxd/controller.py and  *)
(* store.py), the supervisor that runs a command inside the container      *)
(* (runtime/supervisor.py, runtime/docker.py), and the backend that sends  *)
(* the commands and asks for their results (services/sandbox.py).          *)
(*                                                                         *)
(* A command of kind "sync" is sent once and its caller waits for the      *)
(* result (_exec_common).  A command of kind "job" has an id the backend   *)
(* chose: it is sent again until the daemon has a result                   *)
(* (reconcile_command, start_agent_execution).  A command of kind "lone"   *)
(* is started in the same way for a caller without a job: it is asked for  *)
(* again and again but never sent again.  A supervisor is started detached *)
(* from the daemon, keeps what it knows in the container's /tmp and        *)
(* survives the daemon; /tmp does not survive a stop of the container.     *)
(*                                                                         *)
(* All commands are for one sandbox.  Each transaction of the daemon's     *)
(* store and each call of the engine is one step, but for those that the   *)
(* daemon's lock keeps together.                                           *)
(***************************************************************************)
EXTENDS Naturals, FiniteSets

CONSTANTS
    Commands,    \* ids of executions, with the idempotency key each is sent with
    Callers,     \* threads of the backend, each with one of the daemon
    Daemon,      \* the daemon's own thread: recover_executions
    MaxLaunches, \* bound: supervisors of a command that are on their way
    MaxTrouble,  \* bound: errors of the engine, stops of the container, and
                 \* restarts of the daemon, each time of the backend as well
    OtherSlots,  \* slots that other commands hold
    None

ASSUME ExecAssumption ==
    /\ IsFiniteSet(Commands) /\ Daemon \notin Callers
    /\ MaxLaunches \in Nat \ {0} /\ MaxTrouble \in Nat
    /\ OtherSlots \in Nat
    /\ None \notin Commands \cup {"succeeded", "failed", "cancelled"}

VARIABLES
    kind,     \* how each command is sent, and if it has a job
    order,    \* the backend's row of each command: none, running or over
    wanted,   \* commands whose job was cancelled (cancel_requested)
    slots,    \* active_executions of the instance's row in the backend
    row,      \* the daemon's executions table
    ledger,   \* its idempotency table
    alive,    \* the daemon has a record of the sandbox
    up,       \* the container runs
    tmp,      \* what the container's /tmp says of each command
    coming,   \* supervisors started that have not done anything yet
    runs,     \* times each command was launched
    th,       \* where each thread is, the command it serves, what it read
    stopped,  \* the container was stopped at some time
    trouble   \* how much of the bound has been used

backend == <<kind, order, wanted, slots>>
store   == <<row, ledger>>
engine  == <<alive, up, tmp, coming, runs>>
bounds  == <<stopped, trouble>>
evars   == <<backend, store, engine, th, bounds>>

Threads  == Callers \cup {Daemon}
Outcomes == {"succeeded", "failed", "cancelled"}

Rows == [st : {"absent", "running", "cancelling"} \cup Outcomes,
         result : Outcomes \cup {None}, asked : BOOLEAN, cleaned : BOOLEAN]
NoRow == [st |-> "absent", result |-> None, asked |-> FALSE, cleaned |-> FALSE]
NewRow == [NoRow EXCEPT !.st = "running"]

\* "named" if result_json tells the execution's id.
Entries == [st : {"absent", "in_progress", "succeeded", "failed"}, named : BOOLEAN]
NoEntry == [st |-> "absent", named |-> FALSE]
Entry(s) == [st |-> s, named |-> s # "failed"]

\* The directory of a command, the cancel mark and the completion tombstone.
Files == [dir : {"none", "made", "launching", "running"} \cup Outcomes,
          mark : BOOLEAN, tomb : BOOLEAN]
NoFiles == [dir |-> "none", mark |-> FALSE, tomb |-> FALSE]

Idle == [pc |-> "idle", cmd |-> None, saw |-> None]

Kinds == {"sync", "job", "lone"}

ExecTypeOK ==
    /\ kind \in [Commands -> Kinds]
    /\ order \in [Commands -> {"none", "running", "over"}]
    /\ wanted \subseteq Commands
    /\ slots \in Nat
    /\ row \in [Commands -> Rows]
    /\ \A k \in Commands :
          row[k].result = IF row[k].st \in Outcomes THEN row[k].st ELSE None
    /\ ledger \in [Commands -> Entries]
    /\ alive \in BOOLEAN /\ up \in BOOLEAN
    /\ tmp \in [Commands -> Files]
    /\ coming \in [Commands -> 0..MaxLaunches]
    /\ runs \in [Commands -> Nat]
    /\ th \in [Threads ->
         [pc : {"idle", "read", "native", "finish", "forget", "clean", "answer",
                "cancel", "touch", "replay", "admit", "mark", "dispatch", "poll",
                "failing"},
          cmd : Commands \cup {None},
          saw : Outcomes \cup {"pending", "running", None}]]
    /\ stopped \in BOOLEAN /\ trouble \in 0..MaxTrouble

ExecInit ==
    /\ kind \in [Commands -> Kinds]
    /\ order = [k \in Commands |-> "none"]
    /\ wanted = {}
    /\ slots = OtherSlots
    /\ row = [k \in Commands |-> NoRow]
    /\ ledger = [k \in Commands |-> NoEntry]
    /\ alive = TRUE /\ up = TRUE
    /\ tmp = [k \in Commands |-> NoFiles]
    /\ coming = [k \in Commands |-> 0]
    /\ runs = [k \in Commands |-> 0]
    /\ th = [t \in Threads |-> Idle]
    /\ stopped = FALSE /\ trouble = 0

Goto(t, p) == th' = [th EXCEPT ![t].pc = p, ![t].saw = None]
Done(t)    == th' = [th EXCEPT ![t] = Idle]

\* Thread t is at p, serving command k.
At(t, p, k) == th[t].pc = p /\ th[t].cmd = k

Trouble == trouble < MaxTrouble /\ trouble' = trouble + 1 /\ UNCHANGED stopped
Calm    == UNCHANGED bounds

\* The controller's lock is held from one step to the next in start_agent_execution,
\* and at the end of _exec_common.
Unlocked ==
    \A t \in Threads :
        /\ th[t].pc # "admit"
        /\ t # Daemon /\ th[t].pc \in {"forget", "clean"} => kind[th[t].cmd] # "sync"

-----------------------------------------------------------------------------
(* The supervisor, in the container *)

\* Mutant of SupMkdir: the directory need not be new.
SupMkdirAnyway(k) ==
    /\ up /\ coming[k] > 0
    /\ coming' = [coming EXCEPT ![k] = @ - 1]
    /\ tmp' = [tmp EXCEPT ![k].dir = "made"]
    /\ UNCHANGED <<backend, store, alive, up, runs, th, bounds>>

\* root.mkdir: only one of several supervisors goes on.
SupMkdir(k) ==
    /\ up /\ coming[k] > 0
    /\ coming' = [coming EXCEPT ![k] = @ - 1]
    /\ tmp' = [tmp EXCEPT ![k].dir = IF @ = "none" THEN "made" ELSE @]
    /\ UNCHANGED <<backend, store, alive, up, runs, th, bounds>>

\* The command is over already, and its directory was cleaned up.
SupCheck(k) ==
    /\ up /\ tmp[k].dir = "made"
    /\ tmp' = [tmp EXCEPT ![k].dir = IF tmp[k].tomb THEN "none" ELSE "launching"]
    /\ UNCHANGED <<backend, store, alive, up, coming, runs, th, bounds>>

SupLaunch(k) ==
    /\ up /\ tmp[k].dir = "launching"
    /\ IF tmp[k].mark
       THEN /\ tmp' = [tmp EXCEPT ![k].dir = "cancelled"]
            /\ UNCHANGED runs
       ELSE /\ tmp' = [tmp EXCEPT ![k].dir = "running"]
            /\ runs' = [runs EXCEPT ![k] = @ + 1]
    /\ UNCHANGED <<backend, store, alive, up, coming, th, bounds>>

\* The command ends, is killed for its time or its output, or is cancelled.
SupEnd(k) ==
    /\ up /\ tmp[k].dir = "running"
    /\ \E o \in {"succeeded", "failed"} \cup (IF tmp[k].mark THEN {"cancelled"} ELSE {}) :
          tmp' = [tmp EXCEPT ![k].dir = o]
    /\ UNCHANGED <<backend, store, alive, up, coming, runs, th, bounds>>

\* The supervisor whose directory it is.
SupGo(k) == SupCheck(k) \/ SupLaunch(k) \/ SupEnd(k)

-----------------------------------------------------------------------------
(* Parts that several calls share *)

\* start_exec, with _ensure_running.  An engine error can come before or after the
\* supervisor was started.
Started(k) ==
    /\ alive /\ up' = TRUE
    /\ coming[k] < MaxLaunches
    /\ coming' = [coming EXCEPT ![k] = @ + 1]
    /\ UNCHANGED <<alive, tmp, runs>>

\* finish_execution, with its UPDATE of the ledger.
FinishExecution(k, outcome) ==
    /\ row' = [row EXCEPT ![k].st = outcome, ![k].result = outcome]
    /\ ledger' = [ledger EXCEPT ![k] = IF @.named THEN Entry("succeeded") ELSE @]

\* Mutant of CancelRow: an execution that is over is cancelled as well.
CancelRowAny(k) ==
    row' = [row EXCEPT ![k] = IF @.st = "absent" THEN @
                              ELSE [@ EXCEPT !.st = "cancelling", !.asked = TRUE]]

\* store.cancel_execution.
CancelRow(k) ==
    row' = [row EXCEPT ![k] = IF @.st \in {"absent"} \cup Outcomes THEN @
                              ELSE [@ EXCEPT !.st = "cancelling", !.asked = TRUE]]

\* Where a thread goes when the daemon has answered with a result.
Answered(t) == IF t = Daemon \/ kind[th[t].cmd] = "sync" THEN Done(t) ELSE Goto(t, "answer")

-----------------------------------------------------------------------------
(* A command that is waited for: _exec_common *)

\* The first locked section, up to _ensure_runtime, which can fail.  A key that was
\* used before is answered from the ledger, and nothing changes.
SyncCall(t, k) ==
    /\ t \in Callers /\ th[t] = Idle /\ kind[k] = "sync"
    /\ alive /\ Unlocked
    /\ ledger[k].st = "absent"
    /\ row' = [row EXCEPT ![k] = NewRow]
    /\ ledger' = [ledger EXCEPT ![k] = Entry("in_progress")]
    /\ \/ /\ up' = TRUE /\ Calm
          /\ th' = [th EXCEPT ![t] = [Idle EXCEPT !.pc = "dispatch", !.cmd = k]]
       \/ Trouble /\ UNCHANGED <<up, th>>
    /\ UNCHANGED <<backend, alive, tmp, coming, runs>>

\* _run_exec sees the result.
PollSees(t, k) ==
    /\ At(t, "poll", k) /\ up /\ tmp[k].dir \in Outcomes
    /\ th' = [th EXCEPT ![t] = [pc |-> "finish", cmd |-> k, saw |-> tmp[k].dir]]
    /\ UNCHANGED <<backend, store, engine, bounds>>

\* It gives up after the command's time and ten seconds, or finds no container.
PollGivesUp(t, k) ==
    /\ At(t, "poll", k)
    /\ \/ ~alive
       \/ up /\ tmp[k].dir \notin Outcomes
    /\ Goto(t, "failing")
    /\ UNCHANGED <<backend, store, engine, bounds>>

\* The container is stopped, and the engine's error is none of those caught.
PollBreaks(t, k) ==
    /\ At(t, "poll", k) /\ alive /\ ~up
    /\ Done(t)
    /\ UNCHANGED <<backend, store, engine, bounds>>

\* The handlers of DockerRuntimeUnavailable and DockerRuntimeError.
SyncFail(t, k) ==
    /\ At(t, "failing", k) /\ Unlocked
    /\ ledger' = [ledger EXCEPT ![k] = Entry("failed")]
    /\ Done(t)
    /\ UNCHANGED <<backend, row, engine, bounds>>

-----------------------------------------------------------------------------
(* A command that is started: start_agent_execution *)

\* The backend commits its row and a slot, then sends the command.
Order(t, k) ==
    /\ t \in Callers /\ th[t] = Idle /\ kind[k] # "sync"
    /\ order[k] = "none"
    /\ order' = [order EXCEPT ![k] = "running"]
    /\ slots' = slots + 1
    /\ th' = [th EXCEPT ![t] = [Idle EXCEPT !.pc = "replay", !.cmd = k]]
    /\ UNCHANGED <<kind, wanted, store, engine, bounds>>

\* begin_idempotent and the row as it is found, under the lock.  saw tells if the
\* command is cancelled, by the request or by the row.
Admit(t, k) ==
    /\ At(t, "replay", k) /\ Unlocked
    /\ IF ~alive THEN Done(t) /\ UNCHANGED ledger
       ELSE /\ ledger' = [ledger EXCEPT ![k] =
                  IF @.st = "absent" THEN [st |-> "in_progress", named |-> FALSE] ELSE @]
            /\ IF row[k].result # None THEN Answered(t)
               ELSE th' = [th EXCEPT ![t].pc = "admit",
                       ![t].saw = IF row[k].asked \/ k \in wanted THEN "cancelled" ELSE None]
    /\ UNCHANGED <<backend, row, engine, bounds>>

\* The rest of the locked section, up to _ensure_runtime, which can fail.  A result
\* may have come in since Admit.
Admitted(t, k) ==
    LET cancelled == th[t].saw = "cancelled" IN
    /\ At(t, "admit", k)
    /\ ledger' = [ledger EXCEPT ![k] = Entry("in_progress")]
    /\ LET r == IF row[k].st = "absent" THEN NewRow ELSE row[k] IN
       \/ /\ up' = TRUE /\ Calm
          /\ row' = [row EXCEPT ![k] =
                IF cancelled /\ r.st \notin Outcomes
                THEN [r EXCEPT !.st = "cancelling", !.asked = TRUE] ELSE r]
          /\ Goto(t, IF cancelled THEN "mark" ELSE "dispatch")
       \/ /\ row' = [row EXCEPT ![k] = r]
          /\ Done(t) /\ UNCHANGED up /\ Trouble
    /\ UNCHANGED <<backend, alive, tmp, coming, runs>>

\* cancel_exec before the command is started.
Mark(t, k) ==
    /\ At(t, "mark", k)
    /\ \/ /\ up /\ tmp' = [tmp EXCEPT ![k].mark = TRUE]
          /\ Goto(t, "dispatch") /\ Calm
       \/ Done(t) /\ UNCHANGED tmp /\ (IF up THEN Trouble ELSE Calm)
    /\ UNCHANGED <<backend, store, alive, up, coming, runs>>

\* Outside the lock, for both kinds of command.  Not every error of the engine is
\* one that _exec_common catches.
Dispatch(t, k) ==
    /\ At(t, "dispatch", k)
    /\ \/ Started(k) /\ Calm /\ Goto(t, IF kind[k] = "sync" THEN "poll" ELSE "read")
       \/ /\ \/ Trouble /\ (Started(k) \/ UNCHANGED engine)
             \/ ~alive /\ Calm /\ UNCHANGED engine
          /\ (kind[k] = "sync" /\ Goto(t, "failing")) \/ Done(t)
    /\ UNCHANGED <<backend, store>>

-----------------------------------------------------------------------------
(* What became of a command: get_execution, reconcile_executions and the *)
(* backend's reconcile_command                                           *)

\* The daemon's own thread, for a row that is active.
Recover(k) ==
    /\ th[Daemon] = Idle /\ alive /\ row[k].st \in {"running", "cancelling"}
    /\ th' = [th EXCEPT ![Daemon] = [Idle EXCEPT !.pc = "native", !.cmd = k]]
    /\ UNCHANGED <<backend, store, engine, bounds>>

\* The store's part of get_execution.
Lookup(t, k, saw) ==
    LET at(p) == [pc |-> p, cmd |-> k, saw |-> saw] IN
    /\ th' = [th EXCEPT ![t] = IF ~alive THEN Idle
                               ELSE IF row[k].result # None THEN at("answer")
                               ELSE at("native")]
    /\ UNCHANGED <<backend, store, engine, bounds>>

\* reconcile_command; several threads do it for one command.  A command whose row
\* is not there is sent again if it has a job.
Ask(t, k) ==
    /\ t \in Callers /\ th[t] = Idle /\ order[k] = "running"
    /\ \/ row[k].st # "absent" /\ Lookup(t, k, None)
       \/ /\ row[k].st = "absent" /\ kind[k] = "job"
          /\ th' = [th EXCEPT ![t] = [Idle EXCEPT !.pc = "replay", !.cmd = k]]
          /\ UNCHANGED <<backend, store, engine, bounds>>

\* start_agent_execution ends in it; saw tells that.
Read(t, k) == At(t, "read", k) /\ Lookup(t, k, "running")

\* Mutant of Pending: a supervisor that is silent is taken for one that runs.
NeverPending(k) == FALSE

\* There is no result.json.
Pending(k) == tmp[k].dir \in {"none", "made"}

\* reconcile_command for a command that waits for its launch: only a job keeps the
\* request to send again.
SendPending(t, k) == IF kind[k] = "job" THEN Goto(t, "replay") ELSE Done(t)

\* The supervisor's word, or its silence, after which the row is read again.
Native(t, k) ==
    /\ At(t, "native", k)
    /\ IF ~up THEN Done(t)
       ELSE IF tmp[k].dir \in Outcomes
       THEN th' = [th EXCEPT ![t].pc = "finish", ![t].saw = tmp[k].dir]
       ELSE IF Pending(k) /\ row[k].result # None THEN Answered(t)
       ELSE IF t = Daemon \/ th[t].saw = "running" THEN Done(t)
       ELSE IF k \in wanted
       THEN th' = [th EXCEPT ![t].pc = "cancel",
                             ![t].saw = IF Pending(k) THEN "pending" ELSE "running"]
       ELSE IF Pending(k) THEN SendPending(t, k) ELSE Done(t)
    /\ UNCHANGED <<backend, store, engine, bounds>>

\* What reconcile_command does next when the daemon had no result.
SendAgain(t) == IF th[t].saw = "pending" THEN Goto(t, "replay") ELSE Done(t)

\* cancel_execution, which reconcile_command calls for a job that was cancelled.
Cancel(t, k) ==
    /\ At(t, "cancel", k) /\ Unlocked
    /\ IF alive THEN CancelRow(k) ELSE UNCHANGED row
    /\ IF ~alive THEN Done(t)
       ELSE IF row[k].result # None THEN SendAgain(t)
       ELSE th' = [th EXCEPT ![t].pc = "touch"]
    /\ UNCHANGED <<backend, ledger, engine, bounds>>

\* cancel_exec, as far as it goes.
Touch(t, k) ==
    /\ At(t, "touch", k)
    /\ \/ up /\ tmp' = [tmp EXCEPT ![k].mark = TRUE] /\ Calm
       \/ UNCHANGED tmp /\ (IF up THEN Trouble ELSE Calm)
    /\ SendAgain(t)
    /\ UNCHANGED <<backend, store, alive, up, coming, runs>>

\* A result is stored: by get_execution without a lock, by _exec_common with it.
Finish(t, k) ==
    /\ At(t, "finish", k)
    /\ kind[k] = "sync" /\ t # Daemon => Unlocked
    /\ IF kind[k] = "sync" /\ t # Daemon
       THEN /\ row' = [row EXCEPT ![k].st = th[t].saw, ![k].result = th[t].saw]
            /\ ledger' = [ledger EXCEPT ![k] = Entry("succeeded")]
       ELSE FinishExecution(k, th[t].saw)
    /\ Goto(t, "forget")
    /\ UNCHANGED <<backend, engine, bounds>>

\* Mutant of Forget: the files go before the tombstone is there.
ForgetFilesFirst(t, k) ==
    /\ At(t, "forget", k)
    /\ IF up THEN /\ tmp' = [tmp EXCEPT ![k].dir = "none", ![k].mark = FALSE]
                  /\ Goto(t, "clean")
       ELSE Answered(t) /\ UNCHANGED tmp
    /\ UNCHANGED <<backend, store, alive, up, coming, runs, bounds>>

\* forget_exec: the tombstone, and then the files.
Forget(t, k) ==
    /\ At(t, "forget", k)
    /\ IF up THEN tmp' = [tmp EXCEPT ![k].tomb = TRUE] /\ Goto(t, "clean")
       ELSE Answered(t) /\ UNCHANGED tmp
    /\ UNCHANGED <<backend, store, alive, up, coming, runs, bounds>>

RemoveFiles(k) == [dir |-> "none", mark |-> FALSE, tomb |-> TRUE]

\* mark_execution_cleaned comes with it.
Clean(t, k) ==
    /\ At(t, "clean", k)
    /\ tmp' = [tmp EXCEPT ![k] = RemoveFiles(k)]
    /\ row' = [row EXCEPT ![k].cleaned = TRUE]
    /\ Answered(t)
    /\ UNCHANGED <<backend, ledger, alive, up, coming, runs, bounds>>

\* execution_cleanup_pending.
CleanLater(k) ==
    /\ th[Daemon] = Idle /\ row[k].result # None /\ ~row[k].cleaned
    /\ IF alive
       THEN /\ th' = [th EXCEPT ![Daemon] = [Idle EXCEPT !.pc = "forget", !.cmd = k]]
            /\ UNCHANGED row
       ELSE row' = [row EXCEPT ![k].cleaned = TRUE] /\ UNCHANGED th
    /\ UNCHANGED <<backend, ledger, engine, bounds>>

\* Mutant of Answer: the slot is released without the compare-and-set.
AnswerAnyway(t, k) ==
    /\ At(t, "answer", k)
    /\ order' = [order EXCEPT ![k] = "over"]
    /\ slots' = IF slots > 0 THEN slots - 1 ELSE 0
    /\ Done(t)
    /\ UNCHANGED <<kind, wanted, store, engine, bounds>>

\* The end of reconcile_command: the row's compare-and-set, and the slot with it.
Answer(t, k) ==
    /\ At(t, "answer", k)
    /\ IF order[k] = "running"
       THEN /\ order' = [order EXCEPT ![k] = "over"]
            /\ slots' = IF slots > 0 THEN slots - 1 ELSE 0
       ELSE UNCHANGED <<order, slots>>
    /\ Done(t)
    /\ UNCHANGED <<kind, wanted, store, engine, bounds>>

-----------------------------------------------------------------------------
(* The world *)

\* The job of a command is cancelled.
Want(k) ==
    /\ kind[k] = "job" /\ order[k] = "running" /\ k \notin wanted
    /\ wanted' = wanted \cup {k}
    /\ UNCHANGED <<kind, order, slots, store, engine, th, bounds>>

\* What happens in the container ends, and its /tmp is lost.
ContainerGone ==
    /\ up' = FALSE
    /\ tmp' = [k \in Commands |-> NoFiles]
    /\ coming' = [k \in Commands |-> 0]
    /\ th' = [t \in Threads |-> IF th[t].pc = "clean" THEN Idle ELSE th[t]]
    /\ UNCHANGED <<backend, store, runs>>

\* stop, or the engine by itself.
StopContainer ==
    /\ up /\ trouble < MaxTrouble
    /\ trouble' = trouble + 1 /\ stopped' = TRUE
    /\ ContainerGone /\ UNCHANGED alive

\* delete, or the sweep.
DeleteSandbox ==
    /\ alive /\ Unlocked /\ alive' = FALSE
    /\ ContainerGone /\ Calm

\* The daemon dies and is started again.  What forget_exec runs in the container
\* goes on, and _exec_common may be anywhere in its first section.
RestartDaemon ==
    /\ Trouble
    /\ th' = [t \in Threads |-> Idle]
    /\ tmp' = [k \in Commands |-> IF \E t \in Threads : At(t, "clean", k)
                                  THEN RemoveFiles(k) ELSE tmp[k]]
    /\ \/ UNCHANGED store
       \/ \E k \in Commands :
            /\ alive /\ kind[k] = "sync" /\ ledger[k].st = "absent"
            /\ ledger' = [ledger EXCEPT ![k] = [st |-> "in_progress", named |-> FALSE]]
            /\ row' \in {row, [row EXCEPT ![k] = NewRow]}
    /\ UNCHANGED <<backend, alive, up, coming, runs>>

ThreadStep(t) ==
    \E k \in Commands :
        \/ Read(t, k) \/ Native(t, k) \/ Finish(t, k) \/ Forget(t, k) \/ Clean(t, k)
        \/ Answer(t, k) \/ Cancel(t, k) \/ Touch(t, k)
        \/ Admit(t, k) \/ Admitted(t, k) \/ Mark(t, k) \/ Dispatch(t, k)
        \/ PollSees(t, k) \/ PollGivesUp(t, k) \/ PollBreaks(t, k) \/ SyncFail(t, k)

ExecNext ==
    \/ \E k \in Commands :
          \/ SupMkdir(k) \/ SupGo(k) \/ Recover(k) \/ CleanLater(k) \/ Want(k)
          \/ \E t \in Callers : SyncCall(t, k) \/ Order(t, k) \/ Ask(t, k)
    \/ \E t \in Threads : ThreadStep(t)
    \/ StopContainer \/ DeleteSandbox \/ RestartDaemon

ExecSpec == ExecInit /\ [][ExecNext]_evars

\* Calls end, reconcile_commands goes over the running commands again and again
\* (sandbox_scheduler.py:630-655), and supervisors go on.
ExecFairSpec ==
    /\ ExecSpec
    /\ \A t \in Threads : WF_evars(ThreadStep(t))
    /\ \A k \in Commands : /\ WF_evars(SupMkdir(k)) /\ WF_evars(SupGo(k))
                           /\ WF_evars(\E t \in Callers : Ask(t, k))

-----------------------------------------------------------------------------
(* Properties *)

\* However often a command is sent, and however late a supervisor comes, the
\* command is launched once, as long as the container is not stopped
\* (supervisor.py:14-33, docker.py:866-887, store.py:299-328).
LaunchedOnce == ~stopped => \A k \in Commands : runs[k] <= 1

\* Under the same condition nothing is launched for a command that has a result,
\* and the result stays (controller.py:939-965).
ResultIsFinal ==
    [][~stopped =>
         \A k \in Commands : row[k].result # None
             => row'[k].result = row[k].result /\ runs'[k] = runs[k]]_evars

\* The slot of a command is held while its row is running, and is released once
\* by the two threads that see its end (sandbox.py:2450-2475).
SlotsMatch ==
    slots = OtherSlots + Cardinality({k \in Commands : order[k] = "running"})

\* Every command of a job is over some day, whatever call is lost on the way, and
\* so is a command without a job that was launched, as long as the container runs
\* (sandbox.py:2424-2449).  A command without a job whose dispatch was lost is not
\* meant: nothing sends it again.
EveryCommandEnds ==
    \A k \in Commands :
        order[k] = "running" /\ (kind[k] = "job" \/ runs[k] > 0)
            ~> order[k] = "over" \/ ~up
=============================================================================

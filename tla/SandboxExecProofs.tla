-------------------------- MODULE SandboxExecProofs --------------------------
(***************************************************************************)
(* A command is launched once, its result stays, and its slot is given     *)
(* back once, for any number of commands and of threads.                   *)
(*                                                                         *)
(* Nobody locks the container's /tmp.  A second launch is kept out by the  *)
(* files alone: the directory of a command exists from its first           *)
(* supervisor to its cleanup, and the tombstone is there before it goes    *)
(* (LaunchLeavesTrace).  A thread may hold an outcome for as long as it    *)
(* likes; the row cannot have got another, because the outcome was in the  *)
(* directory and nothing writes there again (OutcomesAgree).               *)
(***************************************************************************)
EXTENDS SandboxExec, TLAPS, FiniteSetTheorems

\* The command is over for good: no supervisor comes past the tombstone, or none
\* can be started, the daemon having no record of the sandbox.
Ended(k) ==
    \/ tmp[k].tomb /\ tmp[k].dir \in {"none", "made"}
    \/ ~alive /\ tmp[k].dir = "none" /\ coming[k] = 0

\* A command that was launched left a trace that keeps out a second supervisor.
LaunchLeavesTrace ==
    \A k \in Commands :
        \/ runs[k] = 0
        \/ runs[k] = 1 /\ (tmp[k].dir \in Outcomes \cup {"running"} \/ Ended(k))

\* The result in the row is the one in the directory, unless that was removed.
ResultWasWritten ==
    \A k \in Commands :
        row[k].result # None => tmp[k].dir = row[k].result \/ Ended(k)

\* So is what a thread is about to write to the row.
OutcomesAgree ==
    \A t \in Threads : th[t].pc = "finish" =>
        LET k == th[t].cmd IN
        /\ tmp[k].dir = th[t].saw \/ Ended(k)
        /\ row[k].result \in {None, th[t].saw}
        /\ \A u \in Threads : th[u].pc = "finish" /\ th[u].cmd = k
                                => th[u].saw = th[t].saw

\* A command has an entry in the ledger before it has a row, and before a thread
\* does more for it than send it.
LedgerFirst ==
    /\ \A k \in Commands : ledger[k].st = "absent" => row[k].st = "absent"
    /\ \A t \in Threads : th[t].pc \notin {"idle", "replay"}
                            => ledger[th[t].cmd].st # "absent"

\* A thread that is at work serves a command, and one that is about to store an
\* outcome has seen one.
ThreadsKnow ==
    \A t \in Threads :
        /\ th[t].pc # "idle" => th[t].cmd \in Commands
        /\ th[t].pc = "finish" => th[t].saw \in Outcomes

ExecInv ==
    /\ ExecTypeOK /\ ThreadsKnow /\ LedgerFirst
    /\ ~stopped => LaunchLeavesTrace /\ ResultWasWritten /\ OutcomesAgree

-----------------------------------------------------------------------------
(* Types, and what the steps do to the threads.                            *)

Places == {"idle", "read", "native", "finish", "forget", "clean", "answer", "cancel",
           "touch", "replay", "admit", "mark", "dispatch", "poll", "failing"}

Calls == [pc : Places, cmd : Commands \cup {None},
          saw : Outcomes \cup {"pending", "running", None}]

LEMMA IdleIsCall == Idle \in Calls /\ Idle.pc = "idle"
BY DEF Idle, Calls, Places

LEMMA SameCall ==
    ASSUME NEW r \in Calls, NEW q \in Calls, r.pc = q.pc, r.cmd = q.cmd, r.saw = q.saw
    PROVE  r = q
BY DEF Calls

LEMMA Rewritten ==
    ASSUME NEW r \in Calls, NEW p \in Places,
           NEW o \in Outcomes \cup {"pending", "running", None}
    PROVE  [r EXCEPT !.pc = p, !.saw = o] = [pc |-> p, cmd |-> r.cmd, saw |-> o]
<1> DEFINE x == [r EXCEPT !.pc = p, !.saw = o]
           y == [pc |-> p, cmd |-> r.cmd, saw |-> o]
<1>1. x \in Calls /\ x.pc = p /\ x.cmd = r.cmd /\ x.saw = o
    BY DEF Calls
<1>2. y \in Calls /\ y.pc = p /\ y.cmd = r.cmd /\ y.saw = o
    BY DEF Calls
<1> HIDE DEF x, y
<1>3. x = y
    BY <1>1, <1>2, SameCall
<1> QED BY <1>3 DEF x, y

\* A thread goes on with the command it serves, or is done with it.
Serves(t, x) ==
    /\ x \in Calls /\ th' = [th EXCEPT ![t] = x]
    /\ x.pc # "idle" => x.cmd \in Commands
    /\ x.pc = "finish" => x.saw \in Outcomes

LEMMA GoingOn ==
    ASSUME th \in [Threads -> Calls], NEW t \in Threads, NEW p \in Places, p # "finish",
           th[t].cmd \in Commands,
           NEW o \in Outcomes \cup {"pending", "running", None},
           th' = [th EXCEPT ![t].pc = p, ![t].saw = o]
    PROVE  Serves(t, [pc |-> p, cmd |-> th[t].cmd, saw |-> o])
<1> DEFINE x == [pc |-> p, cmd |-> th[t].cmd, saw |-> o]
<1>1. x \in Calls
    BY DEF Calls
<1>2. [th[t] EXCEPT !.pc = p, !.saw = o] = x
    BY Rewritten
<1>3. th' = [th EXCEPT ![t] = x]
    BY <1>2
<1> QED BY <1>1, <1>3 DEF Serves

LEMMA GoingTo ==
    ASSUME th \in [Threads -> Calls], NEW t \in Threads, NEW p \in Places, p # "finish",
           th[t].cmd \in Commands, Goto(t, p)
    PROVE  Serves(t, [pc |-> p, cmd |-> th[t].cmd, saw |-> None])
BY GoingOn DEF Goto

LEMMA Ending ==
    ASSUME th \in [Threads -> Calls], NEW t \in Threads, Done(t)
    PROVE  Serves(t, Idle)
BY IdleIsCall DEF Done, Serves

LEMMA Answering ==
    ASSUME th \in [Threads -> Calls], NEW t \in Threads, th[t].cmd \in Commands, Answered(t)
    PROVE  \/ Serves(t, Idle)
           \/ Serves(t, [pc |-> "answer", cmd |-> th[t].cmd, saw |-> None])
BY GoingTo, Ending DEF Answered, Places

\* A thread that begins to serve a command.
LEMMA Beginning ==
    ASSUME th \in [Threads -> Calls], NEW t \in Threads, NEW k \in Commands,
           NEW p \in Places, NEW o \in Outcomes \cup {"pending", "running", None},
           p = "finish" => o \in Outcomes,
           th' = [th EXCEPT ![t] = [pc |-> p, cmd |-> k, saw |-> o]]
    PROVE  Serves(t, [pc |-> p, cmd |-> k, saw |-> o])
<1>1. [pc |-> p, cmd |-> k, saw |-> o] \in Calls
    BY DEF Calls
<1> QED BY <1>1 DEF Serves

\* The same, and what the step knows of the command.
Works(t, k, x) ==
    /\ Serves(t, x)
    /\ x.pc # "idle" => x.cmd = k
    /\ x.pc = "finish" => x.saw = tmp[k].dir /\ UNCHANGED <<store, engine>>
    /\ x.pc \notin {"idle", "replay"} => ledger'[k].st # "absent"

LEMMA ThreadsTyped == ExecTypeOK => th \in [Threads -> Calls]
BY DEF ExecTypeOK, Calls, Places

\* Steps after which the thread does not store an outcome.
LEMMA WorksOn ==
    ASSUME ExecTypeOK, NEW t \in Threads, NEW k \in Commands, th[t].cmd = k,
           NEW p \in Places, p # "finish",
           NEW o \in Outcomes \cup {"pending", "running", None},
           \/ th' = [th EXCEPT ![t].pc = p, ![t].saw = o]
           \/ Goto(t, p) \/ Done(t) \/ Answered(t)
           \/ SendAgain(t),
           ledger'[k].st # "absent"
    PROVE  \E x \in Calls : Works(t, k, x)
<1> USE ThreadsTyped
<1>1. CASE th' = [th EXCEPT ![t].pc = p, ![t].saw = o]
    <2>1. Serves(t, [pc |-> p, cmd |-> th[t].cmd, saw |-> o])
        BY <1>1, GoingOn
    <2> QED BY <2>1 DEF Works, Serves
<1>2. ASSUME NEW q \in Places, q # "finish", Goto(t, q)
      PROVE  \E x \in Calls : Works(t, k, x)
    <2>1. Serves(t, [pc |-> q, cmd |-> th[t].cmd, saw |-> None])
        BY <1>2, GoingTo
    <2> QED BY <2>1, <1>2 DEF Works, Serves
<1>3. CASE Done(t)
    <2>1. Serves(t, Idle)
        BY <1>3, Ending
    <2> QED BY <2>1, IdleIsCall DEF Works
<1>4. CASE Answered(t)
    BY <1>2, <1>3, <1>4 DEF Answered, Places
<1>5. CASE SendAgain(t)
    BY <1>2, <1>3, <1>5 DEF SendAgain, Places
<1> QED BY <1>1, <1>2, <1>3, <1>4, <1>5

\* A thread ends.
LEMMA WorksEnd ==
    ASSUME ExecTypeOK, NEW t \in Threads, NEW k \in Commands, Done(t)
    PROVE  \E x \in Calls : Works(t, k, x)
<1>1. Serves(t, Idle)
    BY ThreadsTyped, Ending
<1> QED BY <1>1, IdleIsCall DEF Works

\* The thread has seen an outcome in the directory.
LEMMA WorksOutcome ==
    ASSUME ExecTypeOK, NEW t \in Threads, NEW k \in Commands, th[t].cmd = k,
           tmp[k].dir \in Outcomes, UNCHANGED <<store, engine>>, ledger[k].st # "absent",
           \/ th' = [th EXCEPT ![t].pc = "finish", ![t].saw = tmp[k].dir]
           \/ th' = [th EXCEPT ![t] = [pc |-> "finish", cmd |-> k, saw |-> tmp[k].dir]]
    PROVE  \E x \in Calls : Works(t, k, x)
<1> DEFINE x == [pc |-> "finish", cmd |-> k, saw |-> tmp[k].dir]
<1>1. x \in Calls
    BY DEF Calls, Places
<1>2. th[t] \in Calls /\ th \in [Threads -> Calls]
    BY ThreadsTyped
<1>3. [th[t] EXCEPT !.pc = "finish", !.saw = tmp[k].dir] = x
    BY <1>2, Rewritten DEF Places
<1>4. th' = [th EXCEPT ![t] = x]
    BY <1>3
<1> QED BY <1>1, <1>4 DEF Works, Serves, store

\* A thread that was idle takes the command.
LEMMA WorksFirst ==
    ASSUME ExecTypeOK, NEW t \in Threads, NEW k \in Commands,
           NEW p \in Places, p # "finish",
           NEW o \in Outcomes \cup {"pending", "running", None},
           \/ th' = [th EXCEPT ![t] = [pc |-> p, cmd |-> k, saw |-> o]]
           \/ o = None /\ th' = [th EXCEPT ![t] = [Idle EXCEPT !.pc = p, !.cmd = k]],
           p \notin {"idle", "replay"} => ledger'[k].st # "absent"
    PROVE  \E x \in Calls : Works(t, k, x)
<1>1. th' = [th EXCEPT ![t] = [pc |-> p, cmd |-> k, saw |-> o]]
    BY DEF Idle
<1>2. Serves(t, [pc |-> p, cmd |-> k, saw |-> o])
    BY <1>1, ThreadsTyped, Beginning
<1> QED BY <1>2 DEF Works, Serves

LEMMA NoThreadStep ==
    ASSUME ExecTypeOK, NEW t \in Threads, NEW k \in Commands, th' = th, LedgerFirst,
           th[t] = Idle
    PROVE  \E x \in Calls : Works(t, k, x)
<1>1. th' = [th EXCEPT ![t] = Idle]
    BY ThreadsTyped
<1> QED BY <1>1, WorksEnd DEF Done

LEMMA StepWorks ==
    ASSUME ExecTypeOK, ThreadsKnow, LedgerFirst, NEW t \in Threads, NEW k \in Commands,
           \/ Read(t, k) \/ Native(t, k) \/ Finish(t, k) \/ Forget(t, k) \/ Clean(t, k)
           \/ Answer(t, k) \/ Cancel(t, k) \/ Touch(t, k)
           \/ Admit(t, k) \/ Admitted(t, k) \/ Mark(t, k) \/ Dispatch(t, k)
           \/ PollSees(t, k) \/ PollGivesUp(t, k) \/ PollBreaks(t, k) \/ SyncFail(t, k)
    PROVE  \E x \in Calls : Works(t, k, x)
<1>1. th[t].cmd = k /\ th[t].pc # "idle"
    BY DEF Read, Native, SendPending, Finish, Forget, Clean, Answer, Cancel, Touch, Admit, Admitted, Mark,
           Dispatch, PollSees, PollGivesUp, PollBreaks, SyncFail, At
<1>2. /\ th[t].pc \in Places /\ th[t].saw \in Outcomes \cup {"pending", "running", None}
      /\ ledger \in [Commands -> Entries]
    BY DEF ExecTypeOK, Places
<1>3. th[t].pc # "replay" => ledger[k].st # "absent"
    BY <1>1 DEF LedgerFirst
<1>4. ledger'[k].st # "absent" \/ Done(t)
    BY <1>1, <1>2, <1>3 DEF Read, Native, SendPending, Finish, Forget, Clean, Answer, Cancel, Touch, Admit, Admitted, Mark,
           Dispatch, PollSees, PollGivesUp, PollBreaks, SyncFail, At, store, Lookup, Entry, Entries, FinishExecution
<1>5. CASE Done(t)
    BY <1>5, WorksEnd
<1> SUFFICES ASSUME ledger'[k].st # "absent", ~Done(t)
             PROVE  \E x \in Calls : Works(t, k, x)
    BY <1>4, <1>5
<1>6. CASE Read(t, k)
    <2>1. th' = [th EXCEPT ![t] = [pc |-> "answer", cmd |-> k, saw |-> "running"]]
          \/ th' = [th EXCEPT ![t] = [pc |-> "native", cmd |-> k, saw |-> "running"]]
        BY <1>6 DEF Read, Lookup, Done
    <2> QED BY <2>1, WorksFirst DEF Places
<1>7. CASE Native(t, k)
    <2>1. CASE up /\ tmp[k].dir \in Outcomes
        <3>1. /\ th' = [th EXCEPT ![t].pc = "finish", ![t].saw = tmp[k].dir]
              /\ UNCHANGED <<store, engine>>
            BY <1>7, <2>1 DEF Native
        <3>2. ledger[k].st # "absent"
            BY <1>3, <1>7 DEF Native, At
        <3> QED BY <1>1, <2>1, <3>1, <3>2, WorksOutcome
    <2>2. CASE ~(up /\ tmp[k].dir \in Outcomes)
        <3>1. \/ Answered(t) \/ Goto(t, "replay")
              \/ th' = [th EXCEPT ![t].pc = "cancel", ![t].saw = "pending"]
              \/ th' = [th EXCEPT ![t].pc = "cancel", ![t].saw = "running"]
            BY <1>7, <2>2 DEF Native, SendPending
        <3> QED BY <1>1, <3>1, WorksOn DEF Places
    <2> QED BY <2>1, <2>2
<1>8. CASE PollSees(t, k)
    <2>1. /\ th' = [th EXCEPT ![t] = [pc |-> "finish", cmd |-> k, saw |-> tmp[k].dir]]
          /\ tmp[k].dir \in Outcomes /\ UNCHANGED <<store, engine>>
        BY <1>8 DEF PollSees
    <2>2. ledger[k].st # "absent"
        BY <1>3, <1>8 DEF PollSees, At
    <2> QED BY <1>1, <2>1, <2>2, WorksOutcome
<1>9. CASE Cancel(t, k)
    <2>1. SendAgain(t) \/ th' = [th EXCEPT ![t].pc = "touch", ![t].saw = th[t].saw]
        <3>1. CASE th' = [th EXCEPT ![t].pc = "touch"]
            <4>1. [th[t] EXCEPT !.pc = "touch", !.saw = th[t].saw] = [th[t] EXCEPT !.pc = "touch"]
                BY ThreadsTyped DEF Calls
            <4> QED BY <3>1, <4>1
        <3> QED BY <1>9, <3>1 DEF Cancel
    <2> QED BY <1>1, <1>2, <2>1, WorksOn DEF Places
<1>10. CASE Admit(t, k)
    <2>1. Answered(t) \/ \E o \in {"cancelled", None} :
                           th' = [th EXCEPT ![t].pc = "admit", ![t].saw = o]
        BY <1>10 DEF Admit
    <2> QED BY <1>1, <2>1, WorksOn DEF Places, Outcomes
<1>11. CASE \/ Finish(t, k) \/ Forget(t, k) \/ Clean(t, k) \/ Touch(t, k) \/ Admitted(t, k)
            \/ Mark(t, k) \/ Dispatch(t, k) \/ PollGivesUp(t, k)
    <2>1. \/ Answered(t) \/ SendAgain(t)
          \/ \E p \in {"forget", "clean", "mark", "dispatch", "poll", "read", "failing"} : Goto(t, p)
        BY <1>11 DEF Finish, Forget, Clean, Touch, Admitted, Mark, Dispatch, PollGivesUp
    <2> QED BY <1>1, <2>1, WorksOn DEF Places
<1> QED BY <1>6, <1>7, <1>8, <1>9, <1>10, <1>11 DEF Answer, PollBreaks, SyncFail

LEMMA CallWorks ==
    ASSUME ExecTypeOK, ThreadsKnow, LedgerFirst, NEW k \in Commands,
           \/ Recover(k) \/ CleanLater(k)
           \/ \E t \in Callers : SyncCall(t, k) \/ Order(t, k) \/ Ask(t, k)
    PROVE  th' = th \/ \E t \in Threads, x \in Calls : Works(t, k, x)
<1> SUFFICES ASSUME th' # th PROVE \E t \in Threads, x \in Calls : Works(t, k, x)
    OBVIOUS
<1>0. /\ Daemon \in Threads /\ Callers \subseteq Threads /\ row \in [Commands -> Rows]
      /\ ledger \in [Commands -> Entries]
    BY DEF Threads, ExecTypeOK
<1>1. row[k].st # "absent" => ledger[k].st # "absent"
    BY DEF LedgerFirst
<1>2. CASE Recover(k)
    <2>1. ledger'[k].st # "absent"
        BY <1>0, <1>1, <1>2 DEF Recover, store
    <2>2. th' = [th EXCEPT ![Daemon] = [Idle EXCEPT !.pc = "native", !.cmd = k]]
        BY <1>2 DEF Recover
    <2> QED BY <1>0, <2>1, <2>2, WorksFirst DEF Places
<1>3. CASE CleanLater(k)
    <2>1. th' = [th EXCEPT ![Daemon] = [Idle EXCEPT !.pc = "forget", !.cmd = k]]
        BY <1>3 DEF CleanLater
    <2>2. row[k].st # "absent"
        BY <1>3 DEF CleanLater, ExecTypeOK, Outcomes
    <2>3. ledger'[k].st # "absent"
        BY <1>1, <1>3, <2>2 DEF CleanLater
    <2> QED BY <1>0, <2>1, <2>3, WorksFirst DEF Places
<1>4. ASSUME NEW t \in Callers, SyncCall(t, k)
      PROVE  \E u \in Threads, x \in Calls : Works(u, k, x)
    <2>1. /\ th' = [th EXCEPT ![t] = [Idle EXCEPT !.pc = "dispatch", !.cmd = k]]
          /\ ledger'[k].st # "absent"
        BY <1>0, <1>4 DEF SyncCall, Entry
    <2> QED BY <1>0, <2>1, WorksFirst DEF Places
<1>5. ASSUME NEW t \in Callers, Order(t, k)
      PROVE  \E u \in Threads, x \in Calls : Works(u, k, x)
    <2>1. th' = [th EXCEPT ![t] = [Idle EXCEPT !.pc = "replay", !.cmd = k]]
        BY <1>5 DEF Order
    <2> QED BY <1>0, <2>1, WorksFirst DEF Places
<1>6. ASSUME NEW t \in Callers, Ask(t, k)
      PROVE  \E u \in Threads, x \in Calls : Works(u, k, x)
    <2>1. CASE row[k].st = "absent"
        <3>1. th' = [th EXCEPT ![t] = [Idle EXCEPT !.pc = "replay", !.cmd = k]]
            BY <1>6, <2>1 DEF Ask
        <3> QED BY <1>0, <3>1, WorksFirst DEF Places
    <2>2. CASE row[k].st # "absent"
        <3>1. th[t] = Idle /\ Lookup(t, k, None)
            BY <1>6, <2>2 DEF Ask
        <3>2. ledger'[k].st # "absent"
            BY <1>1, <2>2, <3>1 DEF Lookup, store
        <3>3. \/ Done(t)
              \/ th' = [th EXCEPT ![t] = [pc |-> "answer", cmd |-> k, saw |-> None]]
              \/ th' = [th EXCEPT ![t] = [pc |-> "native", cmd |-> k, saw |-> None]]
            BY <3>1 DEF Lookup, Done
        <3>4. Done(t) => \E x \in Calls : Works(t, k, x)
            BY <1>0, WorksEnd
        <3> QED BY <1>0, <3>2, <3>3, <3>4, WorksFirst DEF Places
    <2> QED BY <2>1, <2>2
<1> QED BY <1>2, <1>3, <1>4, <1>5, <1>6

\* Every step is of one thread, or of none, or makes threads idle.
LEMMA NextWorks ==
    ASSUME ExecTypeOK, ThreadsKnow, LedgerFirst, [ExecNext]_evars
    PROVE  \/ \E t \in Threads, k \in Commands, x \in Calls : Works(t, k, x)
           \/ /\ th' \in [Threads -> Calls]
              /\ \A t \in Threads : th'[t] \in {th[t], Idle}
<1>1. CASE th' = th
    BY <1>1, ThreadsTyped
<1>2. CASE StopContainer \/ DeleteSandbox \/ RestartDaemon
    BY <1>2, ThreadsTyped, IdleIsCall DEF StopContainer, DeleteSandbox, RestartDaemon, ContainerGone
<1>3. ASSUME NEW t \in Threads, ThreadStep(t)
      PROVE  \E u \in Threads, k \in Commands, x \in Calls : Works(u, k, x)
    BY <1>3, StepWorks DEF ThreadStep
<1>4. ASSUME NEW k \in Commands, SupMkdir(k) \/ SupGo(k) \/ Want(k)
      PROVE  th' = th
    BY <1>4 DEF SupMkdir, SupGo, SupCheck, SupLaunch, SupEnd, Want
<1>5. UNCHANGED evars => th' = th
    BY DEF evars
<1> QED BY <1>1, <1>2, <1>3, <1>4, <1>5, CallWorks DEF ExecNext

LEMMA StepThreadsKnow ==
    ASSUME ExecTypeOK, ThreadsKnow, LedgerFirst, [ExecNext]_evars
    PROVE  ThreadsKnow' /\ th' \in [Threads -> Calls]
BY NextWorks, IdleIsCall, ThreadsTyped DEF ThreadsKnow, Works, Serves

-----------------------------------------------------------------------------
(* What the steps do to the daemon's store.                                *)

\* A row has a result when it is over.
RowRight(r) == r \in Rows /\ r.result = IF r.st \in Outcomes THEN r.st ELSE None

\* Entries stay, and come before the row; a result is one that a thread has seen.
StoreGoes(k) ==
    /\ RowRight(row'[k]) /\ ledger'[k] \in Entries
    /\ ledger'[k].st = "absent" => ledger[k].st = "absent" /\ row'[k].st = "absent"
    /\ \/ row'[k].result = row[k].result
       \/ \E t \in Threads : At(t, "finish", k) /\ row'[k].result = th[t].saw

LEMMA RowChanges ==
    /\ RowRight(NewRow) /\ NewRow.result = None
    /\ \A r \in Rows, o \in Outcomes :
         RowRight([r EXCEPT !.st = o, !.result = o])
         /\ [r EXCEPT !.st = o, !.result = o].result = o
    /\ \A r \in Rows : RowRight(r) =>
         RowRight([r EXCEPT !.cleaned = TRUE]) /\ [r EXCEPT !.cleaned = TRUE].result = r.result
         /\ [r EXCEPT !.cleaned = TRUE].st = r.st
    /\ \A r \in Rows : RowRight(r) /\ r.result = None =>
         RowRight([r EXCEPT !.st = "cancelling", !.asked = TRUE])
         /\ [r EXCEPT !.st = "cancelling", !.asked = TRUE].result = None
<1>1. RowRight(NewRow) /\ NewRow.result = None
    BY DEF NewRow, NoRow, RowRight, Rows, Outcomes
<1>2. \A r \in Rows, o \in Outcomes :
         RowRight([r EXCEPT !.st = o, !.result = o])
         /\ [r EXCEPT !.st = o, !.result = o].result = o
    BY DEF RowRight, Rows
<1>3. \A r \in Rows : RowRight(r) =>
         RowRight([r EXCEPT !.cleaned = TRUE]) /\ [r EXCEPT !.cleaned = TRUE].result = r.result
         /\ [r EXCEPT !.cleaned = TRUE].st = r.st
    BY DEF RowRight, Rows
<1>4. \A r \in Rows : RowRight(r) /\ r.result = None =>
         RowRight([r EXCEPT !.st = "cancelling", !.asked = TRUE])
         /\ [r EXCEPT !.st = "cancelling", !.asked = TRUE].result = None
    BY DEF RowRight, Rows, Outcomes
<1> QED BY <1>1, <1>2, <1>3, <1>4

LEMMA EntryTypes ==
    /\ \A st \in {"in_progress", "succeeded", "failed"} : Entry(st) \in Entries /\ Entry(st).st = st
    /\ [st |-> "in_progress", named |-> FALSE] \in Entries
BY DEF Entry, Entries

LEMMA StoreTypes ==
    ASSUME ExecTypeOK
    PROVE  /\ row \in [Commands -> Rows] /\ ledger \in [Commands -> Entries]
           /\ \A k \in Commands : RowRight(row[k]) /\ row[k] \in Rows /\ ledger[k] \in Entries
           /\ \A k \in Commands : row[k].result = None <=> row[k].st \notin Outcomes
BY ExecAssumption DEF ExecTypeOK, RowRight, Outcomes, Rows

LEMMA StoreStays ==
    ASSUME ExecTypeOK, LedgerFirst, UNCHANGED store, NEW k \in Commands
    PROVE  StoreGoes(k)
BY StoreTypes DEF StoreGoes, LedgerFirst, store

\* The steps of a thread that write to the store.
LEMMA ThreadStores ==
    ASSUME ExecTypeOK, ThreadsKnow, LedgerFirst, NEW t \in Threads, NEW j \in Commands,
           \/ Finish(t, j) \/ Clean(t, j) \/ Cancel(t, j) \/ Admit(t, j) \/ Admitted(t, j)
           \/ SyncFail(t, j) \/ SyncCall(t, j) \/ (t = Daemon /\ CleanLater(j))
    PROVE  row' \in [Commands -> Rows] /\ ledger' \in [Commands -> Entries]
           /\ \A k \in Commands : StoreGoes(k)
<1> USE StoreTypes
<1>1. /\ ledger[j].st = "absent" => row[j].st = "absent"
      /\ th[t].pc \notin {"idle", "replay"} => ledger[th[t].cmd].st # "absent"
    BY DEF LedgerFirst
<1>2. ASSUME NEW r \in Rows, NEW e \in Entries, RowRight(r),
             row' = [row EXCEPT ![j] = r], ledger' = [ledger EXCEPT ![j] = e],
             e.st # "absent",
             r.result = row[j].result \/ (At(t, "finish", j) /\ r.result = th[t].saw)
      PROVE  row' \in [Commands -> Rows] /\ ledger' \in [Commands -> Entries]
             /\ \A k \in Commands : StoreGoes(k)
    <2>1. StoreGoes(j)
        BY <1>2 DEF StoreGoes
    <2>2. \A k \in Commands \ {j} : StoreGoes(k)
        BY <1>2 DEF StoreGoes, LedgerFirst
    <2> QED BY <1>2, <2>1, <2>2
<1>3. CASE Finish(t, j)
    <2>1. At(t, "finish", j) /\ th[t].saw \in Outcomes /\ ledger[j].st # "absent"
        BY <1>1, <1>3 DEF Finish, At, ThreadsKnow
    <2> DEFINE r == [row[j] EXCEPT !.st = th[t].saw, !.result = th[t].saw]
    <2>2. RowRight(r) /\ r.result = th[t].saw
        BY <2>1, RowChanges
    <2>3. row' = [row EXCEPT ![j] = r]
        BY <1>3 DEF Finish, FinishExecution
    <2>4. \E e \in Entries : ledger' = [ledger EXCEPT ![j] = e] /\ e.st # "absent"
        <3>1. Entry("succeeded") \in Entries /\ Entry("succeeded").st = "succeeded"
            BY EntryTypes
        <3>2. \/ ledger' = [ledger EXCEPT ![j] = Entry("succeeded")]
              \/ ledger' = [ledger EXCEPT ![j] = ledger[j]]
            BY <1>3 DEF Finish, FinishExecution
        <3> QED BY <2>1, <3>1, <3>2
    <2> HIDE DEF r
    <2>5. r \in Rows
        BY <2>2 DEF RowRight
    <2> QED BY <1>2, <2>1, <2>2, <2>3, <2>4, <2>5
<1>4. CASE Clean(t, j) \/ (t = Daemon /\ CleanLater(j))
    <2>1. CASE UNCHANGED store
        BY <2>1, StoreStays DEF store
    <2> DEFINE r == [row[j] EXCEPT !.cleaned = TRUE]
    <2>2. r \in Rows /\ RowRight(r) /\ r.result = row[j].result
        BY RowChanges DEF RowRight
    <2>3. ledger' = [ledger EXCEPT ![j] = ledger[j]] /\ ledger[j].st # "absent"
        BY <1>1, <1>4 DEF Clean, At, CleanLater, Outcomes
    <2>4. row' = [row EXCEPT ![j] = r] \/ UNCHANGED store
        BY <1>4 DEF Clean, CleanLater, store
    <2> HIDE DEF r
    <2> QED BY <1>2, <2>1, <2>2, <2>3, <2>4
<1>5. CASE Cancel(t, j)
    <2>1. ledger' = [ledger EXCEPT ![j] = ledger[j]] /\ ledger[j].st # "absent"
        BY <1>1, <1>5 DEF Cancel, At
    <2> DEFINE r == [row[j] EXCEPT !.st = "cancelling", !.asked = TRUE]
    <2>2. \/ row' = [row EXCEPT ![j] = row[j]]
          \/ row' = [row EXCEPT ![j] = r] /\ row[j].st \notin Outcomes
        <3>1. row = [row EXCEPT ![j] = row[j]]
            OBVIOUS
        <3>2. CASE row' = row
            BY <3>1, <3>2
        <3>3. CASE CancelRow(j)
            BY <3>3 DEF CancelRow
        <3> QED BY <1>5, <3>2, <3>3 DEF Cancel
    <2>3. row[j].st \notin Outcomes => RowRight(r) /\ r.result = row[j].result
        BY RowChanges
    <2>4. RowRight(r) => r \in Rows
        BY DEF RowRight
    <2> HIDE DEF r
    <2> QED BY <1>2, <2>1, <2>2, <2>3, <2>4
<1>6. CASE Admit(t, j)
    <2>1. row' = [row EXCEPT ![j] = row[j]]
        BY <1>6 DEF Admit
    <2>2. CASE ledger' = ledger
        BY <1>6, <2>2, StoreStays DEF Admit, store
    <2>3. CASE ledger' # ledger
        <3>1. ledger' = [ledger EXCEPT ![j] = [st |-> "in_progress", named |-> FALSE]]
            BY <1>6, <2>3 DEF Admit
        <3> QED BY <1>2, <2>1, <3>1, EntryTypes
    <2> QED BY <2>2, <2>3
<1>7. CASE Admitted(t, j)
    <2> DEFINE r == IF row[j].st = "absent" THEN NewRow ELSE row[j]
               q == [r EXCEPT !.st = "cancelling", !.asked = TRUE]
    <2>1. RowRight(r) /\ r \in Rows /\ r.result = row[j].result
        BY RowChanges DEF Outcomes, RowRight
    <2>2. r.st \notin Outcomes => r.result = None
        BY <2>1 DEF RowRight
    <2> HIDE DEF r
    <2>3. r.st \notin Outcomes => RowRight(q) /\ q \in Rows /\ q.result = row[j].result
        BY <2>1, <2>2, RowChanges DEF RowRight
    <2>4. \/ row' = [row EXCEPT ![j] = r]
          \/ row' = [row EXCEPT ![j] = q] /\ r.st \notin Outcomes
        BY <1>7 DEF Admitted, r
    <2>5. ledger' = [ledger EXCEPT ![j] = Entry("in_progress")]
        BY <1>7 DEF Admitted
    <2> HIDE DEF q
    <2> QED BY <1>2, <2>1, <2>3, <2>4, <2>5, EntryTypes
<1>8. CASE SyncFail(t, j)
    <2>1. row' = [row EXCEPT ![j] = row[j]] /\ ledger' = [ledger EXCEPT ![j] = Entry("failed")]
        BY <1>8 DEF SyncFail
    <2> QED BY <1>2, <2>1, EntryTypes
<1>9. CASE SyncCall(t, j)
    <2>1. row' = [row EXCEPT ![j] = NewRow] /\ ledger' = [ledger EXCEPT ![j] = Entry("in_progress")]
        BY <1>9 DEF SyncCall
    <2>2. row[j].result = None
        BY <1>1, <1>9 DEF SyncCall, Outcomes
    <2>3. NewRow \in Rows
        BY RowChanges DEF RowRight
    <2> QED BY <1>2, <2>1, <2>2, <2>3, EntryTypes, RowChanges
<1> QED BY <1>3, <1>4, <1>5, <1>6, <1>7, <1>8, <1>9

LEMMA StepStores ==
    ASSUME ExecTypeOK, ThreadsKnow, LedgerFirst, [ExecNext]_evars
    PROVE  row' \in [Commands -> Rows] /\ ledger' \in [Commands -> Entries]
           /\ \A k \in Commands : StoreGoes(k)
<1> USE StoreTypes
<1>1. CASE UNCHANGED store
    BY <1>1, StoreStays DEF store
<1>2. CASE RestartDaemon
    <2> SUFFICES ASSUME NEW j \in Commands, ledger[j].st = "absent",
                        ledger' = [ledger EXCEPT ![j] = [st |-> "in_progress", named |-> FALSE]],
                        row' \in {row, [row EXCEPT ![j] = NewRow]}
                 PROVE  row' \in [Commands -> Rows] /\ ledger' \in [Commands -> Entries]
                        /\ \A k \in Commands : StoreGoes(k)
        BY <1>1, <1>2 DEF RestartDaemon
    <2>1. row[j].result = None
        BY DEF LedgerFirst, Outcomes
    <2>2. StoreGoes(j)
        BY <2>1, RowChanges, EntryTypes DEF StoreGoes
    <2>3. \A k \in Commands \ {j} : StoreGoes(k)
        BY DEF StoreGoes, LedgerFirst
    <2>4. NewRow \in Rows
        BY RowChanges DEF RowRight
    <2> QED BY <2>2, <2>3, <2>4, EntryTypes
<1>3. ASSUME NEW t \in Threads, ThreadStep(t), store' # store
      PROVE  row' \in [Commands -> Rows] /\ ledger' \in [Commands -> Entries]
             /\ \A k \in Commands : StoreGoes(k)
    <2>1. PICK j \in Commands :
            \/ Finish(t, j) \/ Clean(t, j) \/ Cancel(t, j) \/ Admit(t, j) \/ Admitted(t, j)
            \/ SyncFail(t, j)
        BY <1>3 DEF ThreadStep, Read, Lookup, Native, SendPending, Forget, Answer, Touch, Mark, Dispatch,
           PollSees, PollGivesUp, PollBreaks, store
    <2> QED BY <2>1, ThreadStores
<1>4. Daemon \in Threads /\ Callers \subseteq Threads
    BY DEF Threads
<1>5. ASSUME NEW j \in Commands, NEW t \in Threads, SyncCall(t, j) \/ (t = Daemon /\ CleanLater(j))
      PROVE  row' \in [Commands -> Rows] /\ ledger' \in [Commands -> Entries]
             /\ \A k \in Commands : StoreGoes(k)
    BY <1>5, ThreadStores
<1>6. ASSUME NEW j \in Commands,
             \/ SupMkdir(j) \/ SupGo(j) \/ Recover(j) \/ Want(j)
             \/ \E t \in Callers : Order(t, j) \/ Ask(t, j)
      PROVE  UNCHANGED store
    BY <1>6 DEF SupMkdir, SupGo, SupCheck, SupLaunch, SupEnd, Recover, Want, Order, Ask, Lookup
<1>7. StopContainer \/ DeleteSandbox \/ UNCHANGED evars => UNCHANGED store
    BY DEF StopContainer, DeleteSandbox, ContainerGone, evars
<1> QED BY <1>1, <1>2, <1>3, <1>4, <1>5, <1>6, <1>7 DEF ExecNext

LEMMA StepLedgerFirst ==
    ASSUME ExecTypeOK, ThreadsKnow, LedgerFirst, [ExecNext]_evars
    PROVE  LedgerFirst'
<1>1. \A k \in Commands :
        ledger'[k].st = "absent" => ledger[k].st = "absent" /\ row'[k].st = "absent"
    BY StepStores DEF StoreGoes
<1>2. ASSUME NEW u \in Threads, th'[u] = th[u] \/ th'[u] = Idle, th'[u].pc \notin {"idle", "replay"}
      PROVE  ledger'[th'[u].cmd].st # "absent"
    BY <1>1, <1>2, IdleIsCall DEF LedgerFirst, ThreadsKnow
<1>3. CASE \E t \in Threads, k \in Commands, x \in Calls : Works(t, k, x)
    <2>1. PICK t \in Threads, k \in Commands, x \in Calls : Works(t, k, x)
        BY <1>3
    <2>2. th' = [th EXCEPT ![t] = x] /\ (x.pc \notin {"idle", "replay"} => x.cmd = k /\ ledger'[k].st # "absent")
        BY <2>1 DEF Works, Serves
    <2> QED BY <1>1, <1>2, <2>2, ThreadsTyped DEF LedgerFirst
<1>4. CASE \A t \in Threads : th'[t] \in {th[t], Idle}
    BY <1>1, <1>2, <1>4 DEF LedgerFirst
<1> QED BY <1>3, <1>4, NextWorks

-----------------------------------------------------------------------------
(* What the steps do in the container.                                     *)

\* A command that is over stays so, and one that runs or has ended keeps its
\* directory until the tombstone is there, or the container is gone.
TraceStays(k) ==
    /\ Ended(k) => Ended(k)'
    /\ \A d \in Outcomes : tmp[k].dir = d => tmp'[k].dir = d \/ Ended(k)'
    /\ tmp[k].dir = "running" => tmp'[k].dir \in Outcomes \cup {"running"} \/ Ended(k)'
    /\ \/ runs'[k] = runs[k]
       \/ runs'[k] = runs[k] + 1 /\ tmp[k].dir = "launching" /\ tmp'[k].dir = "running"

EngineTypes ==
    /\ alive \in BOOLEAN /\ up \in BOOLEAN
    /\ tmp \in [Commands -> Files]
    /\ coming \in [Commands -> 0..MaxLaunches]
    /\ runs \in [Commands -> Nat]

LEMMA FileChanges ==
    \A f \in Files :
        /\ [f EXCEPT !.mark = TRUE] \in Files /\ [f EXCEPT !.mark = TRUE].dir = f.dir
        /\ [f EXCEPT !.mark = TRUE].tomb = f.tomb
        /\ [f EXCEPT !.tomb = TRUE] \in Files /\ [f EXCEPT !.tomb = TRUE].dir = f.dir
        /\ [f EXCEPT !.tomb = TRUE].tomb
        /\ \A d \in {"none", "made", "launching", "running"} \cup Outcomes :
             /\ [f EXCEPT !.dir = d] \in Files /\ [f EXCEPT !.dir = d].dir = d
             /\ [f EXCEPT !.dir = d].tomb = f.tomb
<1> SUFFICES ASSUME NEW f \in Files
             PROVE  /\ [f EXCEPT !.mark = TRUE] \in Files /\ [f EXCEPT !.mark = TRUE].dir = f.dir
                    /\ [f EXCEPT !.mark = TRUE].tomb = f.tomb
                    /\ [f EXCEPT !.tomb = TRUE] \in Files /\ [f EXCEPT !.tomb = TRUE].dir = f.dir
                    /\ [f EXCEPT !.tomb = TRUE].tomb
                    /\ \A d \in {"none", "made", "launching", "running"} \cup Outcomes :
                         /\ [f EXCEPT !.dir = d] \in Files /\ [f EXCEPT !.dir = d].dir = d
                         /\ [f EXCEPT !.dir = d].tomb = f.tomb
    OBVIOUS
<1> QED BY DEF Files

LEMMA FilesGone ==
    /\ NoFiles \in Files /\ NoFiles.dir = "none"
    /\ \A k \in Commands : /\ RemoveFiles(k) \in Files
                           /\ RemoveFiles(k).tomb /\ RemoveFiles(k).dir = "none"
BY DEF NoFiles, RemoveFiles, Files

\* Steps that change one file at most, and nothing else in the engine.
LEMMA FileStep ==
    ASSUME EngineTypes, NEW j \in Commands, NEW f \in Files,
           tmp' = [tmp EXCEPT ![j] = f], UNCHANGED <<alive, up, runs, coming>>,
           \/ f.dir = tmp[j].dir /\ (tmp[j].tomb => f.tomb)
           \/ f.tomb /\ f.dir = "none"
           \/ tmp[j].dir = "running" /\ f.dir \in Outcomes /\ f.tomb = tmp[j].tomb
           \/ tmp[j].dir = "launching" /\ f.tomb = tmp[j].tomb
           \/ tmp[j].dir = "made" /\ f.dir = "launching" /\ ~tmp[j].tomb
    PROVE  EngineTypes' /\ \A k \in Commands : TraceStays(k)
<1>1. EngineTypes'
    BY DEF EngineTypes
<1>2. TraceStays(j)
    BY DEF EngineTypes, TraceStays, Ended, Files, Outcomes
<1>3. \A k \in Commands \ {j} : TraceStays(k)
    BY DEF EngineTypes, TraceStays, Ended
<1> QED BY <1>1, <1>2, <1>3

\* Steps that start supervisors, or only see that the container runs.
LEMMA StartStep ==
    ASSUME EngineTypes, UNCHANGED <<alive, tmp, runs>>, up' \in BOOLEAN,
           \/ UNCHANGED coming
           \/ \E j \in Commands : Started(j)
    PROVE  EngineTypes' /\ \A k \in Commands : TraceStays(k)
<1>1. EngineTypes'
    BY ExecAssumption DEF EngineTypes, Started
<1>2. alive \/ UNCHANGED coming
    BY DEF Started
<1>3. \A k \in Commands : TraceStays(k)
    BY <1>2 DEF EngineTypes, TraceStays, Ended
<1> QED BY <1>1, <1>3

LEMMA StepTrace ==
    ASSUME ExecTypeOK, ThreadsKnow, [ExecNext]_evars, ~StopContainer
    PROVE  EngineTypes' /\ \A k \in Commands : TraceStays(k)
<1>0. EngineTypes
    BY DEF ExecTypeOK, EngineTypes
<1>1. CASE UNCHANGED engine
    BY <1>0, <1>1 DEF engine, EngineTypes, TraceStays, Ended
<1>2. ASSUME NEW j \in Commands, SupMkdir(j)
      PROVE  EngineTypes' /\ \A k \in Commands : TraceStays(k)
    <2> DEFINE f == [tmp[j] EXCEPT !.dir = IF @ = "none" THEN "made" ELSE @]
    <2>1. tmp' = [tmp EXCEPT ![j] = f] /\ coming' = [coming EXCEPT ![j] = @ - 1] /\ coming[j] > 0
          /\ UNCHANGED <<alive, up, runs>>
        BY <1>2 DEF SupMkdir
    <2>2. /\ f \in Files /\ f.dir = (IF tmp[j].dir = "none" THEN "made" ELSE tmp[j].dir)
          /\ f.tomb = tmp[j].tomb
        BY <1>0 DEF EngineTypes, Files
    <2> HIDE DEF f
    <2>3. EngineTypes'
        BY <1>0, <2>1, <2>2, ExecAssumption DEF EngineTypes
    <2>4. TraceStays(j)
        BY <1>0, <2>1, <2>2 DEF EngineTypes, TraceStays, Ended, Outcomes
    <2>5. \A k \in Commands \ {j} : TraceStays(k)
        BY <1>0, <2>1 DEF EngineTypes, TraceStays, Ended
    <2> QED BY <2>3, <2>4, <2>5
<1>3. ASSUME NEW j \in Commands, SupCheck(j)
      PROVE  EngineTypes' /\ \A k \in Commands : TraceStays(k)
    <2> DEFINE f == [tmp[j] EXCEPT !.dir = IF tmp[j].tomb THEN "none" ELSE "launching"]
    <2>1. tmp' = [tmp EXCEPT ![j] = f] /\ UNCHANGED <<alive, up, runs, coming>> /\ tmp[j].dir = "made"
        BY <1>3 DEF SupCheck
    <2>2. /\ f \in Files /\ f.dir = (IF tmp[j].tomb THEN "none" ELSE "launching")
          /\ f.tomb = tmp[j].tomb /\ tmp[j].tomb \in BOOLEAN
        BY <1>0 DEF EngineTypes, Files
    <2> HIDE DEF f
    <2> QED BY <1>0, <2>1, <2>2, FileStep
<1>4. ASSUME NEW j \in Commands, SupLaunch(j)
      PROVE  EngineTypes' /\ \A k \in Commands : TraceStays(k)
    <2>1. CASE tmp[j].mark
        <3> DEFINE f == [tmp[j] EXCEPT !.dir = "cancelled"]
        <3>1. tmp' = [tmp EXCEPT ![j] = f] /\ UNCHANGED <<alive, up, runs, coming>>
              /\ tmp[j].dir = "launching"
            BY <1>4, <2>1 DEF SupLaunch
        <3>2. f \in Files /\ f.tomb = tmp[j].tomb
            BY <1>0 DEF EngineTypes, Files, Outcomes
        <3> HIDE DEF f
        <3> QED BY <1>0, <3>1, <3>2, FileStep
    <2>2. CASE ~tmp[j].mark
        <3> DEFINE f == [tmp[j] EXCEPT !.dir = "running"]
        <3>1. tmp' = [tmp EXCEPT ![j] = f] /\ UNCHANGED <<alive, up, coming>>
              /\ tmp[j].dir = "launching" /\ runs' = [runs EXCEPT ![j] = @ + 1]
            BY <1>4, <2>2 DEF SupLaunch
        <3>2. f \in Files /\ f.dir = "running"
            BY <1>0 DEF EngineTypes, Files, Outcomes
        <3> HIDE DEF f
        <3>3. EngineTypes'
            BY <1>0, <3>1, <3>2 DEF EngineTypes
        <3>4. TraceStays(j)
            BY <1>0, <3>1, <3>2 DEF EngineTypes, TraceStays, Ended, Outcomes
        <3>5. \A k \in Commands \ {j} : TraceStays(k)
            BY <1>0, <3>1 DEF EngineTypes, TraceStays, Ended
        <3> QED BY <3>3, <3>4, <3>5
    <2> QED BY <2>1, <2>2
<1>5. ASSUME NEW j \in Commands, SupEnd(j)
      PROVE  EngineTypes' /\ \A k \in Commands : TraceStays(k)
    <2>1. PICK o \in Outcomes : tmp' = [tmp EXCEPT ![j].dir = o]
        BY <1>5 DEF SupEnd, Outcomes
    <2> DEFINE f == [tmp[j] EXCEPT !.dir = o]
    <2>2. tmp' = [tmp EXCEPT ![j] = f] /\ UNCHANGED <<alive, up, runs, coming>>
          /\ tmp[j].dir = "running"
        BY <1>5, <2>1 DEF SupEnd
    <2>3. f \in Files /\ f.dir = o /\ f.tomb = tmp[j].tomb
        BY <1>0 DEF EngineTypes, Files
    <2> HIDE DEF f
    <2> QED BY <1>0, <2>2, <2>3, FileStep
<1>6. ASSUME NEW t \in Threads, NEW j \in Commands,
             Mark(t, j) \/ Touch(t, j) \/ Forget(t, j) \/ Clean(t, j)
      PROVE  EngineTypes' /\ \A k \in Commands : TraceStays(k)
    <2>1. UNCHANGED <<alive, up, runs, coming>>
        BY <1>6 DEF Mark, Touch, Forget, Clean
    <2>2. \/ UNCHANGED tmp \/ tmp' = [tmp EXCEPT ![j] = RemoveFiles(j)]
          \/ tmp' = [tmp EXCEPT ![j] = [tmp[j] EXCEPT !.mark = TRUE]]
          \/ tmp' = [tmp EXCEPT ![j] = [tmp[j] EXCEPT !.tomb = TRUE]]
        BY <1>6 DEF Mark, Touch, Forget, Clean
    <2>3. tmp[j] \in Files
        BY <1>0 DEF EngineTypes
    <2> QED BY <1>0, <1>1, <2>1, <2>2, <2>3, FileStep, FileChanges, FilesGone DEF engine
<1>7. ASSUME NEW t \in Threads, NEW j \in Commands,
             Admitted(t, j) \/ Dispatch(t, j) \/ SyncCall(t, j)
      PROVE  EngineTypes' /\ \A k \in Commands : TraceStays(k)
    <2>1. UNCHANGED <<alive, tmp, runs>> /\ up' \in BOOLEAN
        BY <1>0, <1>7 DEF Admitted, Dispatch, SyncCall, Started, engine, EngineTypes
    <2>2. UNCHANGED coming \/ Started(j)
        BY <1>7 DEF Admitted, Dispatch, SyncCall, engine
    <2> QED BY <1>0, <2>1, <2>2, StartStep
<1>8. CASE DeleteSandbox
    <2>1. /\ alive' = FALSE /\ up' = FALSE /\ UNCHANGED runs
          /\ tmp' = [k \in Commands |-> NoFiles] /\ coming' = [k \in Commands |-> 0]
        BY <1>8 DEF DeleteSandbox, ContainerGone
    <2>2. EngineTypes'
        <3>1. tmp' \in [Commands -> Files]
            BY <2>1, FilesGone
        <3>2. coming' \in [Commands -> 0..MaxLaunches]
            BY <2>1, ExecAssumption
        <3> QED BY <1>0, <2>1, <3>1, <3>2 DEF EngineTypes
    <2>3. \A k \in Commands : Ended(k)' /\ runs'[k] = runs[k]
        BY <2>1, FilesGone DEF Ended
    <2> QED BY <2>2, <2>3 DEF TraceStays
<1>9. CASE RestartDaemon
    <2>1. /\ UNCHANGED <<alive, up, runs, coming>>
          /\ \A k \in Commands : tmp'[k] \in {tmp[k], RemoveFiles(k)}
          /\ DOMAIN tmp' = Commands /\ tmp' = [k \in Commands |-> tmp'[k]]
        BY <1>9 DEF RestartDaemon
    <2>2. EngineTypes'
        BY <1>0, <2>1, FilesGone DEF EngineTypes
    <2>3. ASSUME NEW k \in Commands PROVE TraceStays(k)
        BY <1>0, <2>1, FilesGone DEF EngineTypes, TraceStays, Ended
    <2> QED BY <2>2, <2>3
<1>10. ASSUME NEW t \in Threads, ThreadStep(t)
       PROVE  EngineTypes' /\ \A k \in Commands : TraceStays(k)
    BY <1>1, <1>6, <1>7, <1>10 DEF ThreadStep, Read, Lookup, Native, SendPending, Finish, Answer, Cancel,
       Admit, PollSees, PollGivesUp, PollBreaks, SyncFail, engine
<1>11. Callers \subseteq Threads
    BY DEF Threads
<1>12. ASSUME NEW k \in Commands,
              \/ Recover(k) \/ CleanLater(k) \/ Want(k)
              \/ \E t \in Callers : Order(t, k) \/ Ask(t, k)
       PROVE  UNCHANGED engine
    BY <1>12 DEF Recover, CleanLater, Want, Order, Ask, Lookup
<1>13. UNCHANGED evars => UNCHANGED engine
    BY DEF evars, engine
<1> QED BY <1>1, <1>2, <1>3, <1>4, <1>5, <1>7, <1>8, <1>9, <1>10, <1>11, <1>12, <1>13
        DEF ExecNext, SupGo

-----------------------------------------------------------------------------
(* Steps keep ExecInv.                                                     *)

BackendTypes ==
    /\ kind \in [Commands -> Kinds]
    /\ order \in [Commands -> {"none", "running", "over"}]
    /\ wanted \subseteq Commands
    /\ slots \in Nat
    /\ stopped \in BOOLEAN /\ trouble \in 0..MaxTrouble

LEMMA StepBackend ==
    ASSUME ExecTypeOK, [ExecNext]_evars
    PROVE  BackendTypes'
<1> USE DEF BackendTypes
<1>0. BackendTypes /\ slots - 1 \in Int
    BY DEF ExecTypeOK
<1>1. CASE UNCHANGED <<backend, bounds>>
    BY <1>0, <1>1 DEF backend, bounds
<1>2. ASSUME Trouble \/ Calm PROVE stopped' \in BOOLEAN /\ trouble' \in 0..MaxTrouble
    BY <1>0, <1>2, ExecAssumption DEF Trouble, Calm, bounds
<1>3. CASE UNCHANGED backend /\ (Trouble \/ Calm)
    BY <1>0, <1>2, <1>3 DEF backend
<1>4. ASSUME NEW t \in Threads, NEW k \in Commands, Order(t, k) \/ Answer(t, k) \/ Want(k)
      PROVE  BackendTypes'
    BY <1>0, <1>4 DEF Order, Answer, Want, bounds
<1>5. ASSUME NEW t \in Threads, ThreadStep(t), ~(\E k \in Commands : Answer(t, k))
      PROVE  UNCHANGED backend /\ (Trouble \/ Calm)
    BY <1>5 DEF ThreadStep, Read, Lookup, Native, SendPending, Finish, Forget, Clean, Cancel, Touch, Admit,
       Admitted, Mark, Dispatch, PollSees, PollGivesUp, PollBreaks, SyncFail, Calm
<1>6. ASSUME NEW k \in Commands,
             \/ SupMkdir(k) \/ SupGo(k) \/ Recover(k) \/ CleanLater(k)
             \/ \E t \in Callers : SyncCall(t, k) \/ Ask(t, k)
      PROVE  UNCHANGED backend /\ (Trouble \/ Calm)
    BY <1>6 DEF SupMkdir, SupGo, SupCheck, SupLaunch, SupEnd, Recover, CleanLater, SyncCall,
       Ask, Lookup, Calm
<1>7. CASE StopContainer
    BY <1>0, <1>7, ExecAssumption DEF StopContainer, ContainerGone, backend
<1>8. DeleteSandbox \/ RestartDaemon => UNCHANGED backend /\ (Trouble \/ Calm)
    BY DEF DeleteSandbox, ContainerGone, RestartDaemon
<1>9. UNCHANGED evars => UNCHANGED <<backend, bounds>>
    BY DEF evars
<1>10. Callers \subseteq Threads /\ Daemon \in Threads
    BY DEF Threads
<1> QED BY <1>1, <1>3, <1>4, <1>5, <1>6, <1>7, <1>8, <1>9, <1>10 DEF ExecNext

\* The container is emptied when it is stopped; its types do not matter then.
LEMMA StepEngineTypes ==
    ASSUME ExecTypeOK, ThreadsKnow, [ExecNext]_evars
    PROVE  EngineTypes'
<1>1. CASE ~StopContainer
    BY <1>1, StepTrace
<1>2. CASE StopContainer
    <2>1. /\ alive' = alive /\ up' = FALSE /\ UNCHANGED runs
          /\ tmp' = [k \in Commands |-> NoFiles] /\ coming' = [k \in Commands |-> 0]
        BY <1>2 DEF StopContainer, ContainerGone
    <2>2. tmp' \in [Commands -> Files]
        BY <2>1, FilesGone
    <2>3. coming' \in [Commands -> 0..MaxLaunches]
        BY <2>1, ExecAssumption
    <2> QED BY <2>1, <2>2, <2>3 DEF EngineTypes, ExecTypeOK
<1> QED BY <1>1, <1>2

LEMMA StepTypes ==
    ASSUME ExecTypeOK, ThreadsKnow, LedgerFirst, [ExecNext]_evars
    PROVE  ExecTypeOK'
BY StepBackend, StepEngineTypes, StepStores, StepThreadsKnow
   DEF BackendTypes, EngineTypes, StoreGoes, RowRight, Calls, Places, ExecTypeOK

\* Once the container was stopped, it was.
LEMMA StoppedStays == ASSUME [ExecNext]_evars, ~stopped' PROVE ~stopped /\ ~StopContainer
<1>1. ~StopContainer
    BY DEF StopContainer
<1>2. CASE UNCHANGED stopped
    BY <1>1, <1>2
<1>3. ASSUME NEW t \in Threads, ThreadStep(t) PROVE UNCHANGED stopped
    BY <1>3 DEF ThreadStep, Read, Lookup, Native, SendPending, Finish, Forget, Clean, Answer, Cancel, Touch,
       Admit, Admitted, Mark, Dispatch, PollSees, PollGivesUp, PollBreaks, SyncFail, Calm,
       Trouble, bounds
<1>4. ASSUME NEW k \in Commands,
             \/ SupMkdir(k) \/ SupGo(k) \/ Recover(k) \/ CleanLater(k) \/ Want(k)
             \/ \E t \in Callers : SyncCall(t, k) \/ Order(t, k) \/ Ask(t, k)
      PROVE  UNCHANGED stopped
    BY <1>4 DEF SupMkdir, SupGo, SupCheck, SupLaunch, SupEnd, Recover, CleanLater, Want, SyncCall,
       Order, Ask, Lookup, Calm, Trouble, bounds
<1>5. DeleteSandbox \/ RestartDaemon \/ UNCHANGED evars => UNCHANGED stopped
    BY DEF DeleteSandbox, RestartDaemon, Calm, Trouble, bounds, evars
<1> QED BY <1>1, <1>2, <1>3, <1>4, <1>5 DEF ExecNext

LEMMA StepLaunchLeavesTrace ==
    ASSUME ExecTypeOK, LaunchLeavesTrace, \A k \in Commands : TraceStays(k)
    PROVE  LaunchLeavesTrace'
<1> SUFFICES ASSUME NEW k \in Commands
             PROVE  \/ runs'[k] = 0
                    \/ runs'[k] = 1 /\ (tmp'[k].dir \in Outcomes \cup {"running"} \/ Ended(k)')
    BY DEF LaunchLeavesTrace, Ended
<1>1. CASE runs'[k] = runs[k]
    BY <1>1 DEF LaunchLeavesTrace, TraceStays
<1>2. CASE runs'[k] = runs[k] + 1 /\ tmp[k].dir = "launching" /\ tmp'[k].dir = "running"
    <2>1. runs[k] = 0
        BY <1>2 DEF LaunchLeavesTrace, Ended, Outcomes
    <2> QED BY <1>2, <2>1
<1> QED BY <1>1, <1>2 DEF TraceStays

\* A thread that stores an outcome has read it from the directory, now or before.
LEMMA StepOutcomes ==
    ASSUME ExecInv, ~stopped, [ExecNext]_evars, \A k \in Commands : TraceStays(k)
    PROVE  ResultWasWritten' /\ OutcomesAgree'
<1> USE DEF ExecInv
<1>1. \A k \in Commands :
        \/ row'[k].result = row[k].result
        \/ \E t \in Threads : At(t, "finish", k) /\ row'[k].result = th[t].saw
    BY StepStores DEF StoreGoes
<1>2. ResultWasWritten'
    <2> SUFFICES ASSUME NEW k \in Commands, row'[k].result # None
                 PROVE  tmp'[k].dir = row'[k].result \/ Ended(k)'
        BY DEF ResultWasWritten, Ended
    <2>1. row'[k].result \in Outcomes
        BY StepStores DEF StoreGoes, RowRight
    <2>2. tmp[k].dir = row'[k].result \/ Ended(k)
        BY <1>1 DEF ResultWasWritten, OutcomesAgree, At
    <2> QED BY <2>1, <2>2 DEF TraceStays
<1>3. ASSUME NEW u \in Threads, NEW k \in Commands, th[u].pc = "finish", th[u].cmd = k
      PROVE  /\ tmp'[k].dir = th[u].saw \/ Ended(k)'
             /\ row'[k].result \in {None, th[u].saw}
             /\ \A w \in Threads : th[w].pc = "finish" /\ th[w].cmd = k
                                     => th[w].saw = th[u].saw
    <2>1. th[u].saw \in Outcomes
        BY <1>3 DEF ThreadsKnow
    <2>2. /\ tmp[k].dir = th[u].saw \/ Ended(k)
          /\ row[k].result \in {None, th[u].saw}
          /\ \A w \in Threads : th[w].pc = "finish" /\ th[w].cmd = k => th[w].saw = th[u].saw
        BY <1>3 DEF OutcomesAgree
    <2>3. tmp'[k].dir = th[u].saw \/ Ended(k)'
        BY <2>1, <2>2 DEF TraceStays
    <2>4. row'[k].result \in {None, th[u].saw}
        BY <1>1, <2>2 DEF At
    <2> QED BY <2>2, <2>3, <2>4
<1>4. ASSUME \A u \in Threads : th'[u].pc = "finish" => th'[u] = th[u]
      PROVE  OutcomesAgree'
    <2> SUFFICES ASSUME NEW u \in Threads, th'[u].pc = "finish", NEW k, k = th'[u].cmd
                 PROVE  /\ tmp'[k].dir = th'[u].saw \/ Ended(k)'
                        /\ row'[k].result \in {None, th'[u].saw}
                        /\ \A w \in Threads : th'[w].pc = "finish" /\ th'[w].cmd = k
                                                => th'[w].saw = th'[u].saw
        BY DEF OutcomesAgree, Ended
    <2>1. th'[u] = th[u] /\ k \in Commands
        BY <1>4 DEF ThreadsKnow
    <2> QED BY <1>3, <1>4, <2>1
<1>5. ASSUME NEW t \in Threads, NEW k \in Commands, NEW x \in Calls, Works(t, k, x)
      PROVE  OutcomesAgree'
    <2>1. /\ th'[t] = x /\ \A u \in Threads \ {t} : th'[u] = th[u]
          /\ x.pc = "finish" => x.cmd = k /\ x.saw = tmp[k].dir /\ x.saw \in Outcomes
                                /\ UNCHANGED <<store, engine>>
        BY <1>5, ThreadsTyped DEF Works, Serves
    <2>2. CASE x.pc # "finish"
        BY <1>4, <2>1, <2>2
    <2>3. CASE x.pc = "finish"
        <3>1. tmp[k].dir \in Outcomes /\ ~Ended(k)
            BY <2>1, <2>3 DEF Ended, Outcomes
        <3>2. row[k].result \in {None, x.saw}
            BY <2>1, <2>3, <3>1 DEF ResultWasWritten
        <3>3. \A u \in Threads : th[u].pc = "finish" /\ th[u].cmd = k => th[u].saw = x.saw
            BY <2>1, <2>3, <3>1 DEF OutcomesAgree
        <3>4. UNCHANGED <<row, tmp, alive, coming>>
            BY <2>1, <2>3 DEF store, engine
        <3> SUFFICES ASSUME NEW u \in Threads, th'[u].pc = "finish", NEW j, j = th'[u].cmd
                     PROVE  /\ tmp'[j].dir = th'[u].saw \/ Ended(j)'
                            /\ row'[j].result \in {None, th'[u].saw}
                            /\ \A w \in Threads : th'[w].pc = "finish" /\ th'[w].cmd = j
                                                    => th'[w].saw = th'[u].saw
            BY DEF OutcomesAgree, Ended
        <3>5. CASE u = t
            BY <2>1, <2>3, <3>2, <3>3, <3>4, <3>5
        <3>6. CASE u # t
            <4>1. th'[u] = th[u] /\ j \in Commands
                BY <2>1, <3>6 DEF ThreadsKnow
            <4>2. j = k => th[u].saw = x.saw
                BY <3>3, <4>1
            <4> QED BY <1>3, <2>1, <4>1, <4>2
        <3> QED BY <3>5, <3>6
    <2> QED BY <2>2, <2>3
<1>6. (\A t \in Threads : th'[t] \in {th[t], Idle}) => OutcomesAgree'
    BY <1>4, IdleIsCall
<1> QED BY <1>2, <1>5, <1>6, NextWorks

LEMMA StepExec == ExecInv /\ [ExecNext]_evars => ExecInv'
<1> SUFFICES ASSUME ExecInv, [ExecNext]_evars PROVE ExecInv'
    OBVIOUS
<1>1. ExecTypeOK' /\ ThreadsKnow' /\ LedgerFirst'
    BY StepTypes, StepThreadsKnow, StepLedgerFirst DEF ExecInv
<1>2. ASSUME ~stopped' PROVE LaunchLeavesTrace' /\ ResultWasWritten' /\ OutcomesAgree'
    BY <1>2, StoppedStays, StepTrace, StepLaunchLeavesTrace, StepOutcomes DEF ExecInv
<1> QED BY <1>1, <1>2 DEF ExecInv

LEMMA InitExec == ExecInit => ExecInv
<1> SUFFICES ASSUME ExecInit PROVE ExecInv
    OBVIOUS
<1>1. NoRow \in Rows /\ NoRow.result = None /\ NoRow.st = "absent"
    BY DEF NoRow, Rows
<1>2. NoEntry \in Entries /\ NoEntry.st = "absent"
    BY DEF NoEntry, Entries
<1>3. /\ row \in [Commands -> Rows] /\ ledger \in [Commands -> Entries]
      /\ tmp \in [Commands -> Files] /\ th \in [Threads -> Calls]
      /\ coming \in [Commands -> 0..MaxLaunches]
    BY <1>1, <1>2, FilesGone, IdleIsCall, ExecAssumption DEF ExecInit
<1>4. ExecTypeOK
    <2>1. \A k \in Commands : row[k].result = IF row[k].st \in Outcomes THEN row[k].st ELSE None
        BY <1>1 DEF ExecInit, Outcomes
    <2>2. BackendTypes
        <3>1. order \in [Commands -> {"none", "running", "over"}] /\ wanted \subseteq Commands
            BY DEF ExecInit
        <3>2. slots \in Nat /\ trouble \in 0..MaxTrouble
            BY ExecAssumption DEF ExecInit
        <3> QED BY <3>1, <3>2 DEF ExecInit, BackendTypes
    <2>3. runs \in [Commands -> Nat] /\ alive \in BOOLEAN /\ up \in BOOLEAN
        BY DEF ExecInit
    <2> QED BY <1>3, <2>1, <2>2, <2>3 DEF BackendTypes, ExecTypeOK, Calls, Places
<1>5. ThreadsKnow /\ LedgerFirst
    BY <1>1, <1>2, IdleIsCall DEF ExecInit, ThreadsKnow, LedgerFirst
<1>6. LaunchLeavesTrace /\ ResultWasWritten /\ OutcomesAgree
    BY <1>1, IdleIsCall DEF ExecInit, LaunchLeavesTrace, ResultWasWritten, OutcomesAgree
<1> QED BY <1>4, <1>5, <1>6 DEF ExecInv

LEMMA ExecInvariant == ExecSpec => []ExecInv
BY InitExec, StepExec, PTL DEF ExecSpec

-----------------------------------------------------------------------------
(* What follows.                                                           *)

\* The rows, the files and what the threads hold have their types; a row has a result
\* exactly when it is over, whichever thread stored it and whoever cancelled it
\* meanwhile (store.py:366-430).
THEOREM ExecTypeCorrect == ExecSpec => []ExecTypeOK
BY ExecInvariant, PTL DEF ExecInv

\* A command is launched once, however often it is sent, as long as the container is
\* not stopped: its directory or its tombstone keeps out a second supervisor
\* (supervisor.py:14-33, docker.py:866-887).
THEOREM LaunchesAreSingle == ExecSpec => []LaunchedOnce
<1>1. ExecInv => LaunchedOnce
    <2> SUFFICES ASSUME ExecInv, ~stopped, NEW k \in Commands PROVE runs[k] <= 1
        BY DEF LaunchedOnce
    <2> QED BY DEF ExecInv, LaunchLeavesTrace
<1> QED BY <1>1, ExecInvariant, PTL

\* A result stays what it is, and nothing is launched for a command that has one: an
\* outcome that a slow thread still holds is the same outcome (controller.py:939-965).
THEOREM ResultsAreFinal == ExecSpec => ResultIsFinal
<1>1. ExecInv /\ [ExecNext]_evars
        => [~stopped => \A k \in Commands : row[k].result # None
              => row'[k].result = row[k].result /\ runs'[k] = runs[k]]_evars
    <2> SUFFICES ASSUME ExecInv, ExecNext, ~stopped, NEW k \in Commands, row[k].result # None
                 PROVE  row'[k].result = row[k].result /\ runs'[k] = runs[k]
        BY DEF evars
    <2>1. row'[k].result = row[k].result
        <3>1. \/ row'[k].result = row[k].result
              \/ \E t \in Threads : At(t, "finish", k) /\ row'[k].result = th[t].saw
            BY StepStores DEF ExecInv, StoreGoes
        <3> QED BY <3>1 DEF ExecInv, OutcomesAgree, At
    <2>2. tmp[k].dir # "launching"
        <3>1. row[k].result \in Outcomes
            BY StoreTypes DEF ExecInv, RowRight
        <3> QED BY <3>1 DEF ExecInv, ResultWasWritten, Ended, Outcomes
    <2>3. runs'[k] = runs[k]
        <3>1. CASE StopContainer
            BY <3>1 DEF StopContainer, ContainerGone
        <3>2. CASE ~StopContainer
            BY <2>2, <3>2, StepTrace DEF ExecInv, TraceStays
        <3> QED BY <3>1, <3>2
    <2> QED BY <2>1, <2>3
<1> QED BY <1>1, ExecInvariant, PTL DEF ExecSpec, ResultIsFinal

\* The slots are those of the running rows, and a finite number.
RunningRows == {k \in Commands : order[k] = "running"}

LEMMA RunningIsFinite ==
    IsFiniteSet(RunningRows) /\ Cardinality(RunningRows) \in Nat
BY FS_Subset, FS_CardinalityType, ExecAssumption DEF RunningRows

LEMMA StepSlots ==
    ASSUME ExecTypeOK, SlotsMatch, [ExecNext]_evars
    PROVE  SlotsMatch'
<1>1. slots = OtherSlots + Cardinality(RunningRows)
    BY DEF SlotsMatch, RunningRows
<1>2. ASSUME UNCHANGED <<order, slots>> PROVE SlotsMatch'
    BY <1>1, <1>2 DEF SlotsMatch, RunningRows
<1>3. ASSUME NEW t \in Threads, NEW k \in Commands, Order(t, k)
      PROVE  SlotsMatch'
    <2>1. k \notin RunningRows /\ RunningRows' = RunningRows \cup {k}
        BY <1>3 DEF Order, RunningRows, ExecTypeOK
    <2>2. Cardinality(RunningRows') = Cardinality(RunningRows) + 1
        BY <2>1, RunningIsFinite, FS_AddElement
    <2>3. slots' = slots + 1
        BY <1>3 DEF Order
    <2> QED BY <1>1, <2>2, <2>3, RunningIsFinite, ExecAssumption DEF SlotsMatch, RunningRows
<1>4. ASSUME NEW t \in Threads, NEW k \in Commands, Answer(t, k), order[k] = "running"
      PROVE  SlotsMatch'
    <2>1. k \in RunningRows /\ RunningRows' = RunningRows \ {k}
        BY <1>4 DEF Answer, RunningRows, ExecTypeOK
    <2>2. Cardinality(RunningRows') = Cardinality(RunningRows) - 1
        BY <2>1, RunningIsFinite, FS_RemoveElement
    <2>3. Cardinality(RunningRows) > 0
        BY <2>1, RunningIsFinite, FS_EmptySet
    <2>4. slots' = slots - 1
        BY <1>1, <1>4, <2>3, RunningIsFinite, ExecAssumption DEF Answer
    <2> QED BY <1>1, <2>2, <2>4, RunningIsFinite, ExecAssumption DEF SlotsMatch, RunningRows
<1>5. ASSUME NEW t \in Threads, ThreadStep(t),
             ~(\E k \in Commands : Answer(t, k) /\ order[k] = "running")
      PROVE  UNCHANGED <<order, slots>>
    BY <1>5 DEF ThreadStep, Read, Lookup, Native, SendPending, Finish, Forget, Clean, Answer, Cancel, Touch,
       Admit, Admitted, Mark, Dispatch, PollSees, PollGivesUp, PollBreaks, SyncFail, backend
<1>6. ASSUME NEW k \in Commands,
             \/ SupMkdir(k) \/ SupGo(k) \/ Recover(k) \/ CleanLater(k) \/ Want(k)
             \/ \E t \in Callers : SyncCall(t, k) \/ Ask(t, k)
      PROVE  UNCHANGED <<order, slots>>
    BY <1>6 DEF SupMkdir, SupGo, SupCheck, SupLaunch, SupEnd, Recover, CleanLater, Want, SyncCall,
       Ask, Lookup, backend
<1>7. \/ StopContainer \/ DeleteSandbox \/ RestartDaemon \/ UNCHANGED evars
      => UNCHANGED <<order, slots>>
    BY DEF StopContainer, DeleteSandbox, ContainerGone, RestartDaemon, evars, backend
<1>8. Callers \subseteq Threads
    BY DEF Threads
<1> QED BY <1>2, <1>3, <1>4, <1>5, <1>6, <1>7, <1>8 DEF ExecNext

\* A slot is held while its command's row is running, and is given back once by the
\* threads that see its end together (sandbox.py:2450-2475): the release never finds
\* the counter at zero, so its floor is never what keeps the count right.
THEOREM SlotsAreReturned == ExecSpec => []SlotsMatch
<1>1. ExecInit => SlotsMatch
    <2> SUFFICES ASSUME ExecInit PROVE SlotsMatch
        OBVIOUS
    <2>1. {k \in Commands : order[k] = "running"} = {}
        BY DEF ExecInit
    <2> QED BY <2>1, FS_EmptySet, ExecAssumption DEF ExecInit, SlotsMatch
<1>2. ExecInv /\ SlotsMatch /\ [ExecNext]_evars => SlotsMatch'
    BY StepSlots DEF ExecInv
<1> QED BY <1>1, <1>2, ExecInvariant, PTL DEF ExecSpec
=============================================================================

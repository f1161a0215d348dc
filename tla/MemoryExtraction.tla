-------------------------- MODULE MemoryExtraction --------------------------
(***************************************************************************)
(* Memories are extracted from the user's turns of one chat session:       *)
(* backend/app/services/memory_job_guard.py around                         *)
(* memory_enhancement.extract_session_memories.  Any number of callers     *)
(* (the queue's worker, the background sweep, a person at the manual       *)
(* endpoint) make passes over the session.  A pass claims the session's    *)
(* row of memory_job_states, asks a paid model about the next batch of     *)
(* text, keeps the answer in the row, and stores the memories together     *)
(* with the new position.  The request is noted in the row, committed,     *)
(* before it is sent; an answer that was kept is used again for free.      *)
(*                                                                         *)
(* The text is cut into units, and a message is the units up to its last.  *)
(* One transaction, or one read before a transaction, is one step.  What   *)
(* the memories say, billing, the readiness of a batch and the deletion of *)
(* the session are not modelled, and neither is time: a backoff may be     *)
(* over whenever somebody looks.                                           *)
(***************************************************************************)
EXTENDS Naturals, FiniteSets, FiniteSetsExt

CONSTANTS
    Callers,
    None,
    Ends,        \* the last unit of each message the user will send
    Budget,      \* EXTRACTION_CHAR_BUDGET, in units
    MaxAttempts, \* MAX_ATTEMPTS
    MaxTrouble   \* bound: crashes, failed writes, leases lost by the living,
                 \* passes that find extraction switched off, changed settings

ASSUME ExtractionAssumption ==
    /\ Ends \subseteq Nat \ {0} /\ IsFiniteSet(Ends) /\ Ends # {}
    /\ Budget \in Nat \ {0} /\ MaxAttempts \in Nat \ {0}
    /\ MaxTrouble \in Nat
    /\ None \notin Callers

VARIABLES
    said,      \* units of text in the session: whole messages
    config,    \* version of the extraction settings
    cursor,    \* memory_extraction_states.last_message_id: units before it
    row,       \* the row of memory_job_states, but for its checkpoint column
    receipt,   \* checkpoint.extraction_call
    offset,    \* checkpoint.message_id and offset: units, 0 if there is none
    pc,        \* where the pass of each caller is
    mem,       \* what the pass knows
    stored,    \* times the memories of each unit were stored
    sent,      \* requests made for each unit since a person allowed another
    overtaken, \* how claims and resets were outdated when they succeeded
    trouble    \* how much of the bound has been used

vars == <<said, config, cursor, row, receipt, offset, pc, mem, stored, sent,
          overtaken, trouble>>

Units   == 1..Max(Ends)
Windows == [cursor : 0..Max(Ends), offset : 0..Max(Ends), config : 0..MaxTrouble]

NoReceipt == [phase |-> "none", window |-> None, from |-> 0, to |-> 0]
NoMem == [window |-> None, seen |-> None, tries |-> 0, receipt |-> NoReceipt,
          offset |-> 0, from |-> 0, to |-> 0, result |-> "none"]

Receipts == {NoReceipt} \cup
    [phase : {"started", "received"}, window : Windows,
     from : 0..Max(Ends), to : 1..Max(Ends)]

\* How a pass ends: the statuses wrapped() counts as success, the one that says
\* so of an unknown outcome, the cheap skips, and everything else.
Results == {"ok", "unknown", "skipped", "failed"}

ExtractionTypeOK ==
    /\ said \in {0} \cup Ends /\ cursor \in {0} \cup Ends
    /\ config \in 0..MaxTrouble /\ offset \in 0..Max(Ends)
    /\ row \in [window : Windows \cup {None}, tries : 0..MaxAttempts,
                status : {"ready", "running", "retry", "exhausted", "done"},
                unknown : BOOLEAN, holder : Callers \cup {None}, live : BOOLEAN]
    /\ row.live => row.holder # None
    /\ row.status = "running" => row.holder # None
    /\ row.holder # None =>
          row.status = "running" \/ (row.status = "ready" /\ "reset" \in overtaken)
    /\ receipt \in Receipts
    /\ pc \in [Callers -> {"idle", "resetting", "looked", "peeked", "claimed", "ready",
                           "calling", "answered", "ending"}]
    /\ mem \in [Callers -> [window : Windows \cup {None},
                            seen : Windows \cup {None}, tries : 0..MaxAttempts,
                            receipt : Receipts, offset : 0..Max(Ends),
                            from : 0..Max(Ends), to : 0..Max(Ends),
                            result : Results \cup {"none"}]]
    /\ stored \in [Units -> 0..2] /\ sent \in [Units -> 0..2]
    /\ overtaken \subseteq {"window", "row", "reset"} /\ trouble \in 0..MaxTrouble

Init ==
    /\ said = 0 /\ config = 0 /\ cursor = 0
    /\ row = [window |-> None, tries |-> 0, status |-> "ready",
              unknown |-> FALSE, holder |-> None, live |-> FALSE]
    /\ receipt = NoReceipt /\ offset = 0
    /\ pc = [c \in Callers |-> "idle"] /\ mem = [c \in Callers |-> NoMem]
    /\ stored = [u \in Units |-> 0] /\ sent = [u \in Units |-> 0]
    /\ overtaken = {} /\ trouble = 0

-----------------------------------------------------------------------------
(* The text.                                                               *)

\* Where a message that contains unit u starts.
MessageStart(u) == Max({0} \cup {e \in Ends : e < u})

\* extraction_batch: an offset counts in the first message after the cursor only.
BatchFrom(cur, off) ==
    IF off > cur /\ MessageStart(off) = cur THEN off ELSE cur

BatchTo(from) == Min({from + Budget, said})

Batch(m) == (m.from + 1)..m.to

\* Counts of what was done to each unit, two standing for more.
CountBatch(count, m) ==
    [u \in Units |-> IF u \in Batch(m) THEN Min({count[u] + 1, 2}) ELSE count[u]]

Trouble(n) == trouble + n <= MaxTrouble /\ trouble' = trouble + n

Goto(c, at, m) == pc' = [pc EXCEPT ![c] = at] /\ mem' = [mem EXCEPT ![c] = m]

Leave(c) == Goto(c, "idle", NoMem)

End(c, result) == Goto(c, "ending", [NoMem EXCEPT !.result = result])

-----------------------------------------------------------------------------
(* Claiming: guarded_session_job and claim_memory_job.                     *)

\* Mutant of WindowNow: the settings of today make a new window, whatever was requested.
WindowUnpinned == [cursor |-> cursor, offset |-> offset, config |-> config]

\* A request that is noted in the row pins the window it was made for.
WindowNow ==
    IF receipt.phase # "none" THEN receipt.window
    ELSE [cursor |-> cursor, offset |-> offset, config |-> config]

\* The window is computed in a transaction of its own, before the claim.
Look(c) ==
    /\ pc[c] = "idle" /\ cursor < said
    /\ Goto(c, "looked", [NoMem EXCEPT !.window = WindowNow])
    /\ UNCHANGED <<said, config, cursor, row, receipt, offset, stored, sent,
                   overtaken, trouble>>

\* Mutant of Claimable: a claim waits for the holder to finish, and not for its lease.
ClaimableIfFree(c, force) ==
    /\ row.holder = None
    /\ row.window = mem[c].window =>
         row.status # "done" /\ (row.tries < MaxAttempts \/ force)

Claimable(c, force) ==
    /\ ~row.live
    /\ row.window = mem[c].window =>
         row.status # "done" /\ (row.tries < MaxAttempts \/ force)

Refused(c) ==
    /\ pc[c] = "looked" /\ \E force \in BOOLEAN : ~Claimable(c, force)
    /\ Leave(c)
    /\ UNCHANGED <<said, config, cursor, row, receipt, offset, stored, sent,
                   overtaken, trouble>>

\* The row is read, without a lock.
Peek(c, force) ==
    /\ pc[c] = "looked" /\ Claimable(c, force)
    /\ Goto(c, "peeked", [mem[c] EXCEPT !.seen = row.window, !.tries = row.tries,
                                        !.receipt = receipt, !.offset = offset])
    /\ UNCHANGED <<said, config, cursor, row, receipt, offset, stored, sent,
                   overtaken, trouble>>

\* Its window and count stand for all of it in the update that claims it.
Unchanged(c) == row.window = mem[c].seen /\ row.tries = mem[c].tries

\* Mutant of NextTries: a forced attempt is counted on.
NextTriesOn(c) == IF mem[c].seen # mem[c].window THEN 1 ELSE mem[c].tries + 1

NextTries(c) ==
    IF mem[c].seen # mem[c].window \/ mem[c].tries >= MaxAttempts THEN 1
    ELSE mem[c].tries + 1

\* What the claim takes for granted and is no longer so: the window, computed
\* before; or the rest of the row, its window and count being what they were.
Outdated(c) ==
    {x \in {"window", "row"} :
        \/ x = "window" /\ mem[c].window # WindowNow
        \/ x = "row" /\ (mem[c].receipt # receipt \/ mem[c].offset # offset)}

Swap(c) ==
    /\ pc[c] = "peeked"
    /\ IF ~row.live /\ Unchanged(c)
       THEN /\ row' = [row EXCEPT !.window = mem[c].window, !.tries = NextTries(c),
                                  !.status = "running", !.holder = c, !.live = TRUE]
            /\ Goto(c, "claimed", [mem[c] EXCEPT !.seen = None, !.tries = 0])
            /\ overtaken' = overtaken \cup Outdated(c)
       ELSE Leave(c) /\ UNCHANGED <<row, overtaken>>
    /\ UNCHANGED <<said, config, cursor, receipt, offset, stored, sent, trouble>>

-----------------------------------------------------------------------------
(* The pass: extract_session_memories.                                     *)

\* Mutant of Fence: the fence asks for a lease, and not for whose it is.
FenceAny(c) == row.live /\ row.status = "running"

\* MemoryJobLease.fence: an update of the row that counts what it changed.
Fence(c) == row.holder = c /\ row.live /\ row.status = "running"

\* Mutant of OwnReceipt: only an answer counts; a request without one is made again.
OwnAnswer(c) ==
    mem[c].receipt.window = mem[c].window /\ mem[c].receipt.phase = "received"

\* The receipt of another window is not this pass's.
OwnReceipt(c) == mem[c].receipt.window = mem[c].window

Pending == cursor < said

\* extraction_input: the frozen batch, if all its messages are still to be read.
Replayable(c) == MessageStart(mem[c].receipt.from + 1) >= cursor

\* Extraction, or the memory of the workspace or the session, is switched off.
SwitchedOff(c) ==
    /\ pc[c] = "claimed" /\ Trouble(1)
    /\ End(c, "skipped")
    /\ UNCHANGED <<said, config, cursor, row, receipt, offset, stored, sent,
                   overtaken>>

NothingNew(c) ==
    /\ pc[c] = "claimed" /\ ~Pending
    /\ End(c, "ok")
    /\ UNCHANGED <<said, config, cursor, row, receipt, offset, stored, sent,
                   overtaken, trouble>>

\* The request may have reached the model: it is not made again.
OutcomeUnknown(c) ==
    /\ pc[c] = "claimed" /\ Pending
    /\ OwnReceipt(c) /\ mem[c].receipt.phase = "started"
    /\ End(c, "unknown")
    /\ UNCHANGED <<said, config, cursor, row, receipt, offset, stored, sent,
                   overtaken, trouble>>

\* The answer was kept: it is used, or refused because its text is gone.
UseAnswer(c) ==
    /\ pc[c] = "claimed" /\ Pending
    /\ OwnReceipt(c) /\ mem[c].receipt.phase = "received"
    /\ IF Replayable(c)
       THEN Goto(c, "answered", [mem[c] EXCEPT !.from = mem[c].receipt.from,
                                               !.to = mem[c].receipt.to])
       ELSE End(c, "failed")
    /\ UNCHANGED <<said, config, cursor, row, receipt, offset, stored, sent,
                   overtaken, trouble>>

Prepare(c) ==
    /\ pc[c] = "claimed" /\ Pending /\ ~OwnReceipt(c)
    /\ LET from == BatchFrom(cursor, mem[c].offset)
       IN Goto(c, "ready", [mem[c] EXCEPT !.from = from, !.to = BatchTo(from)])
    /\ UNCHANGED <<said, config, cursor, row, receipt, offset, stored, sent,
                   overtaken, trouble>>

\* The provider is missing, the input too large, or the budget used up.
Blocked(c) ==
    /\ pc[c] = "ready" /\ End(c, "failed")
    /\ UNCHANGED <<said, config, cursor, row, receipt, offset, stored, sent,
                   overtaken, trouble>>

\* reserve_extraction_call, committed; the request is on its way.
Reserve(c) ==
    /\ pc[c] = "ready"
    /\ IF Fence(c)
       THEN LET note == [phase |-> "started", window |-> mem[c].window,
                         from |-> mem[c].from, to |-> mem[c].to]
            IN /\ receipt' = note /\ offset' = mem[c].offset
               /\ sent' = CountBatch(sent, mem[c])
               /\ Goto(c, "calling", [mem[c] EXCEPT !.receipt = note])
       ELSE End(c, "failed") /\ UNCHANGED <<receipt, offset, sent>>
    /\ UNCHANGED <<said, config, cursor, row, stored, overtaken, trouble>>

\* save_extraction_response, committed before anything else may fail.
Answer(c) ==
    /\ pc[c] = "calling" /\ Fence(c)
    /\ LET note == [mem[c].receipt EXCEPT !.phase = "received"]
       IN receipt' = note /\ Goto(c, "answered", [mem[c] EXCEPT !.receipt = note])
    /\ offset' = mem[c].offset
    /\ UNCHANGED <<said, config, cursor, row, stored, sent, overtaken, trouble>>

\* No answer, one that is no answer, or an answer after the lease was lost.
NoAnswer(c) ==
    /\ pc[c] = "calling" /\ End(c, "failed")
    /\ UNCHANGED <<said, config, cursor, row, receipt, offset, stored, sent,
                   overtaken, trouble>>

\* atomic_write: memories, cursor and checkpoint in one transaction.
Apply(c) ==
    /\ pc[c] = "answered" /\ Fence(c)
    /\ LET whole == {e \in Ends : mem[c].from < e /\ e <= mem[c].to}
       IN /\ cursor' = IF whole = {} THEN cursor ELSE Max(whole)
          /\ offset' = IF mem[c].to \in Ends THEN 0 ELSE mem[c].to
    /\ receipt' = NoReceipt
    /\ stored' = CountBatch(stored, mem[c])
    /\ End(c, "ok")
    /\ UNCHANGED <<said, config, row, sent, overtaken, trouble>>

\* Some memory cannot be stored, and the transaction is rolled back.
ApplyFails(c) ==
    /\ pc[c] = "answered" /\ Fence(c) /\ Trouble(1)
    /\ End(c, "failed")
    /\ UNCHANGED <<said, config, cursor, row, receipt, offset, stored, sent,
                   overtaken>>

ApplyRefused(c) ==
    /\ pc[c] = "answered" /\ ~Fence(c)
    /\ End(c, "failed")
    /\ UNCHANGED <<said, config, cursor, row, receipt, offset, stored, sent,
                   overtaken, trouble>>

\* MemoryJobLease.finish: by the token alone, however late.
Finish(c) ==
    /\ pc[c] = "ending"
    /\ LET result == mem[c].result
           tries  == IF result = "skipped" THEN 0 ELSE row.tries
       IN row' = IF row.holder # c THEN row
                 ELSE [row EXCEPT
                        !.tries = tries, !.unknown = result = "unknown",
                        !.holder = None, !.live = FALSE,
                        !.status = IF result \in {"ok", "unknown"} THEN "done"
                                   ELSE IF tries >= MaxAttempts THEN "exhausted"
                                   ELSE "retry"]
    /\ Leave(c)
    /\ UNCHANGED <<said, config, cursor, receipt, offset, stored, sent,
                   overtaken, trouble>>

-----------------------------------------------------------------------------
(* Around the passes.                                                      *)

\* What reset_unknown_extraction_job asks of the row.
Resettable == /\ row.status = "done" /\ row.unknown /\ ~row.live
              /\ receipt.phase = "started"

\* A person accepts that the batch may be paid again: the row is read.
ResetCheck(c) ==
    /\ pc[c] = "idle" /\ Resettable
    /\ Goto(c, "resetting", [NoMem EXCEPT !.receipt = receipt, !.offset = offset])
    /\ UNCHANGED <<said, config, cursor, row, receipt, offset, stored, sent,
                   overtaken, trouble>>

\* Its columns are written by the row's id alone, but for the lease's: another
\* person's reset, and a pass after it, may have come in between.
Reset(c) ==
    /\ pc[c] = "resetting"
    /\ receipt' = NoReceipt /\ offset' = mem[c].offset
    /\ row' = [row EXCEPT !.window = None, !.tries = 0, !.status = "ready",
                          !.unknown = FALSE]
    /\ sent' = [u \in Units |-> IF u \in Batch(mem[c].receipt) THEN 0 ELSE sent[u]]
    /\ overtaken' = IF Resettable /\ mem[c].receipt = receipt /\ mem[c].offset = offset
                    THEN overtaken ELSE overtaken \cup {"reset"}
    /\ Leave(c)
    /\ UNCHANGED <<said, config, cursor, stored, trouble>>

Alive(c) == pc[c] \in {"claimed", "ready", "calling", "answered", "ending"}

\* The heartbeat stops with its process, and when the row is no longer running; it
\* may fail while the process lives.
LeaseEnds ==
    /\ row.live
    /\ IF Alive(row.holder) /\ row.status = "running" THEN Trouble(1)
       ELSE UNCHANGED trouble
    /\ row' = [row EXCEPT !.live = FALSE]
    /\ UNCHANGED <<said, config, cursor, receipt, offset, pc, mem, stored, sent,
                   overtaken>>

Crash(c) ==
    /\ pc[c] # "idle" /\ Trouble(1)
    /\ Leave(c)
    /\ UNCHANGED <<said, config, cursor, row, receipt, offset, stored, sent,
                   overtaken>>

Say ==
    /\ said < Max(Ends)
    /\ said' = Min({e \in Ends : e > said})
    /\ UNCHANGED <<config, cursor, row, receipt, offset, pc, mem, stored, sent,
                   overtaken, trouble>>

ChangeConfig ==
    /\ Trouble(1)
    /\ config' = config + 1
    /\ UNCHANGED <<said, cursor, row, receipt, offset, pc, mem, stored, sent,
                   overtaken>>

Pass(c) ==
    \/ Look(c) \/ Refused(c) \/ Swap(c)
    \/ \E force \in BOOLEAN : Peek(c, force)
    \/ SwitchedOff(c) \/ NothingNew(c) \/ OutcomeUnknown(c) \/ UseAnswer(c)
    \/ Prepare(c) \/ Blocked(c) \/ Reserve(c) \/ Answer(c) \/ NoAnswer(c)
    \/ Apply(c) \/ ApplyFails(c) \/ ApplyRefused(c) \/ Finish(c) \/ Reset(c)

Next ==
    \/ \E c \in Callers : Pass(c) \/ ResetCheck(c) \/ Crash(c)
    \/ LeaseEnds \/ Say \/ ChangeConfig

Spec == Init /\ [][Next]_vars

\* The sweep comes back to the session, processes run, and leases run out.
FairSpec ==
    /\ Spec /\ WF_vars(LeaseEnds)
    /\ \A c \in Callers : WF_vars(Pass(c))

-----------------------------------------------------------------------------
(* What the passes promise.                                                *)

Reached == BatchFrom(cursor, offset)

\* However often passes fail, are repeated or overtake each other, the memories
\* of each part of the text are stored once and no part is left out: the cursor
\* of one table and the offset of the other say how far the text was stored.
\* Only a claim that read the checkpoint before another pass changed it, and
\* still found the window and the count it had read, or a reset that writes what it
\* read before another's reset and the pass after it, could break this.
EachPartOnce ==
    overtaken \cap {"row", "reset"} # {} \/
        \A u \in Units : stored[u] = IF u <= Reached THEN 1 ELSE 0

\* The model is asked once for each part of the text, until a person allows
\* another request; but for a claim or a reset that rests on an outdated look at
\* the row.
PaidOnceUnlessOvertaken == overtaken # {} \/ \A u \in Units : sent[u] <= 1

\* "Commit before dispatch: an unknown remote outcome is never auto-replayed."
\* A caller that computed its window before somebody else's failed request
\* claims the row under another window, and does not see the request's receipt.
NeverAutoReplayed == \A u \in Units : sent[u] <= 1

\* An answer that was paid for and kept stays until its memories are stored:
\* no failure, switch or change of settings throws it away, and no reset by a
\* person but one that was checked before the request was made.
AnswersAreUsed ==
    [][receipt.phase = "received" /\ receipt' # receipt
         => overtaken' # {} \/ stored' # stored]_vars

\* Passes come to an end of the work: the text is read, or the row says why not,
\* its attempts being used up or the outcome of its request unknown.  (Callers
\* that keep claiming on outdated looks can keep each other from it.)
Settled ==
    \/ ~Pending
    \/ /\ row.window = WindowNow /\ ~row.live
       /\ row.tries >= MaxAttempts \/ (row.status = "done" /\ row.unknown)

PassesSettle == []<>(Settled \/ overtaken # {})
=============================================================================

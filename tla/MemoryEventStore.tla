-------------------------- MODULE MemoryEventStore --------------------------
(***************************************************************************)
(* One memory in the event log of the backend: memory_event_store.py,      *)
(* the commands that write to it (memory_commands.py, memory.py) and the   *)
(* search document derived from it (memory_projector.py).                  *)
(*                                                                         *)
(* The stream of the memory is a row with a version; each event has a      *)
(* number in it and a payload under a key of its own.  Forgetting the      *)
(* memory destroys the keys, appends a last event and removes the document *)
(* in one transaction.  A rebuild deletes the documents and makes them     *)
(* again from the events whose payload it can read.                        *)
(*                                                                         *)
(* On either database a transaction is the only writer from its first      *)
(* write to its commit (the gate of SQLite, database.py:452-475, and the   *)
(* advisory lock of PostgreSQL, database_routing.py:450-469), so that part *)
(* of it is one step.  What it reads before is not locked and may be out   *)
(* of date by then: each such read is a step of its own.  A failure rolls  *)
(* the transaction back (Abort).                                           *)
(* Left out: outbox rows, upcasting, scopes, the full-text table, events   *)
(* that only patch a document or record feedback, and other aggregates.    *)
(***************************************************************************)
EXTENDS Naturals, Sequences

CONSTANTS
    Sessions,
    Names,     \* idempotency keys of the callers
    None,
    MaxEvents  \* bound: events in the stream

ASSUME EventStoreAssumption ==
    MaxEvents \in Nat \ {0} /\ None \notin Names

VARIABLES
    stream,    \* the row of memory_streams: is there, version, forgotten
    events,    \* rows of memory_events, in the order they were committed
    live,      \* the events whose key is not destroyed
    doc,       \* the event the search document shows, 0 if there is none
    pc,        \* where each session is
    mem,       \* what it read before its first write
    late       \* the document was last written by a repetition that came late

vars == <<stream, events, live, doc, pc, mem, late>>
db   == <<stream, events, live, doc, late>>

\* What an event does to the document: _CONTENT_UPSERT_EVENTS show their text,
\* _REMOVE_EVENTS take it away; the last of these is MEMORY_FORGOTTEN.
Kinds == {"text", "removed"}

Numbers == 1..MaxEvents

\* event, gone, seen and lost are for a repetition: the event it applies again,
\* whether its stream was forgotten, the event the document showed, and whether
\* that row of the document is no longer there.
Known(name, kind, new, version) ==
    [name |-> name, kind |-> kind, new |-> new, version |-> version, keys |-> {},
     event |-> 0, gone |-> FALSE, seen |-> 0, lost |-> FALSE]
NoMem == Known(None, "text", FALSE, 0)

EventsTypeOK ==
    /\ stream \in [there : BOOLEAN, version : 0..MaxEvents, gone : BOOLEAN]
    /\ events \in Seq([number : Numbers, kind : Kinds \cup {"forgotten"},
                       name : Names \cup {None}])
    /\ Len(events) <= MaxEvents
    /\ live \subseteq DOMAIN events /\ doc \in {0} \cup DOMAIN events
    /\ pc \in [Sessions -> {"idle", "append", "seen", "keys", "again", "write"}]
    /\ mem \in [Sessions ->
         [name : Names \cup {None}, kind : Kinds, new : BOOLEAN,
          version : 0..MaxEvents, keys : SUBSET Numbers, event : 0..MaxEvents,
          gone : BOOLEAN, seen : 0..MaxEvents, lost : BOOLEAN]]
    /\ late \in BOOLEAN

Init ==
    /\ stream = [there |-> FALSE, version |-> 0, gone |-> FALSE]
    /\ events = <<>> /\ live = {} /\ doc = 0 /\ late = FALSE
    /\ pc = [s \in Sessions |-> "idle"] /\ mem = [s \in Sessions |-> NoMem]

-----------------------------------------------------------------------------
Goto(s, at, m) == pc' = [pc EXCEPT ![s] = at] /\ mem' = [mem EXCEPT ![s] = m]

\* Session s is done.  When its transaction deleted the row of the document,
\* whoever had seen that row has lost it, also if there is a new one.
Done(s, deleted) ==
    /\ pc' = [pc EXCEPT ![s] = "idle"]
    /\ mem' = [t \in Sessions |->
                 IF t = s THEN NoMem
                 ELSE [mem[t] EXCEPT !.lost = @ \/ (deleted /\ mem[t].seen # 0)]]

-----------------------------------------------------------------------------
(* MemoryEventStore.append, and MemoryProjector.apply after it.            *)

Earlier(name) == {i \in DOMAIN events : events[i].name = name}

\* The row is looked up; without one, the session will make it.
Read(s, name, kind) ==
    /\ pc[s] = "idle" /\ Earlier(name) = {} /\ ~stream.gone
    /\ Goto(s, "append", Known(name, kind, ~stream.there, stream.version))
    /\ UNCHANGED db

\* A session that cannot make the row adopts the one that is there.
SeenVersion(s) == IF mem[s].new THEN stream.version ELSE mem[s].version

\* Mutant of Cas: the update does not ask for the version.
CasActive(s) == ~stream.gone

\* The update that gives the event its number: where the version is the one
\* read, and the stream is not forgotten.
Cas(s) == stream.version = SeenVersion(s) /\ ~stream.gone

\* The idempotency key is unique: who lost the race for it fails.
AppendEvent(s) ==
    /\ pc[s] = "append"
    /\ Earlier(mem[s].name) = {} /\ Cas(s) /\ Len(events) < MaxEvents
    /\ LET n == SeenVersion(s) + 1
           i == Len(events) + 1
       IN /\ stream' = [there |-> TRUE, version |-> n, gone |-> FALSE]
          /\ events' = Append(events, [number |-> n, kind |-> mem[s].kind,
                                       name |-> mem[s].name])
          /\ live' = live \cup {i}
          /\ doc' = IF mem[s].kind = "text" THEN i ELSE 0
    /\ late' = FALSE
    /\ Done(s, mem[s].kind # "text")

-----------------------------------------------------------------------------
(* A request sent again, with the payload: its event is applied once more. *)

\* Mutant of SeesForgotten: _apply_memory does not look at the stream.
SeesForgottenNever == FALSE

SeesForgotten == stream.gone

\* The event of the key, and the status of its stream.
LookAgain(s, name) ==
    /\ pc[s] = "idle"
    /\ \E i \in Earlier(name) :
         Goto(s, "again", [NoMem EXCEPT !.event = i, !.gone = SeesForgotten])
    /\ UNCHANGED db

SeeDocument(s) ==
    /\ pc[s] = "again"
    /\ Goto(s, "write", [mem[s] EXCEPT !.seen = doc])
    /\ UNCHANGED db

Removes(s) == mem[s].gone \/ events[mem[s].event].kind # "text"

HasRow(s) == mem[s].seen # 0 /\ ~mem[s].lost

\* The flush.  Deleting a row that went away is no failure; updating one is, and
\* so is inserting a second one.  A row that shows the event is not written.
Rewrite(s) ==
    LET i == mem[s].event IN
    /\ pc[s] = "write"
    /\ \/ Removes(s) /\ doc' = IF HasRow(s) THEN 0 ELSE doc
       \/ /\ ~Removes(s)
          /\ \/ mem[s].seen = 0 /\ doc = 0 /\ doc' = i
             \/ mem[s].seen # i /\ HasRow(s) /\ doc' = i
             \/ mem[s].seen = i /\ doc' = doc
    /\ late' = (late \/ (~mem[s].gone /\ i # Len(events) /\ doc' # doc))
    /\ Done(s, doc' = 0)
    /\ UNCHANGED <<stream, events, live>>

-----------------------------------------------------------------------------
(* MemoryCommandService.forget and MemoryService._forget_event_view.       *)

See(s) ==
    /\ pc[s] = "idle"
    /\ Goto(s, "seen", Known(None, "text", ~stream.there, stream.version))
    /\ UNCHANGED db

\* destroy_stream_payloads reads the keys to destroy before its first write.
SeeKeys(s) ==
    /\ pc[s] = "seen"
    /\ Goto(s, "keys", [mem[s] EXCEPT !.keys = live])
    /\ UNCHANGED db

\* Mutant of CasForgetting: the last event goes after whatever is there.
CasForgettingAny(s) == TRUE

\* append of the last event; the version must be the one read at first, and a
\* stream that somebody made meanwhile is not taken over.
CasForgetting(s) == stream.version = mem[s].version

\* The keys, the last event and the document go in one transaction.
Forget(s) ==
    /\ pc[s] = "keys" /\ CasForgetting(s) /\ Len(events) < MaxEvents
    /\ LET n == mem[s].version + 1
       IN /\ stream' = [there |-> TRUE, version |-> n, gone |-> TRUE]
          /\ events' = Append(events, [number |-> n, kind |-> "forgotten",
                                       name |-> None])
    /\ live' = live \ mem[s].keys
    /\ doc' = 0 /\ late' = FALSE
    /\ Done(s, TRUE)

-----------------------------------------------------------------------------
(* MemoryProjector.rebuild_search_projection.                              *)

\* What _apply_memory makes of event i: a text shows if its key is still there
\* and the stream is not forgotten.
Shown(i) == IF events[i].kind = "text" /\ ~stream.gone /\ i \in live THEN i ELSE 0

\* Mutant of LastApplied: the newest event comes first.
FirstApplied == 1

\* ORDER BY global_position: each event replaces what the ones before it left.
LastApplied == Len(events)

\* It deletes before it reads, so that all of it is one step.
Rebuild(s) ==
    /\ pc[s] = "idle" /\ events # <<>>
    /\ doc' = Shown(LastApplied) /\ late' = FALSE
    /\ Done(s, TRUE)
    /\ UNCHANGED <<stream, events, live>>

-----------------------------------------------------------------------------
\* A conflict (409), a forgotten stream (410), or a failure: nothing was written.
Abort(s) ==
    /\ pc[s] # "idle" /\ Done(s, FALSE)
    /\ UNCHANGED db

Next ==
    \E s \in Sessions :
        \/ \E name \in Names : LookAgain(s, name) \/ \E k \in Kinds : Read(s, name, k)
        \/ AppendEvent(s)
        \/ SeeDocument(s) \/ Rewrite(s)
        \/ See(s) \/ SeeKeys(s) \/ Forget(s)
        \/ Rebuild(s) \/ Abort(s)

Spec == Init /\ [][Next]_vars

-----------------------------------------------------------------------------
(* What the log and the document promise.                                  *)

\* Writers that read the same version cannot both append: each event has the
\* number of its place, and the stream's version counts them.
EventsAreNumbered ==
    /\ stream.version = Len(events)
    /\ \A i \in DOMAIN events : events[i].number = i

\* Nothing of a forgotten memory can be read again, whoever was appending while
\* its keys were destroyed: every key is gone, and no event comes after.
ForgottenIsUnreadable ==
    stream.gone =>
        /\ live = {}
        /\ \A i, j \in DOMAIN events :
             events[i].kind = "forgotten" /\ i < j => events[j].kind = "forgotten"

\* The event the document has to show.
Newest ==
    IF stream.gone \/ events = <<>> \/ events[Len(events)].kind # "text" THEN 0
    ELSE Len(events)

\* The document shows the newest event, and nothing of a forgotten memory; but
\* for a repetition of an earlier event that was written after it, until the next
\* append, forgetting or rebuild (memory_projector.py:253-405, memory_v2.py:92-108).
SearchShowsHead == late \/ doc = Newest

\* The memory is out of the search, and no repetition is under way that found its
\* stream open.
Hidden ==
    /\ stream.gone /\ doc = 0
    /\ \A s \in Sessions :
         pc[s] \in {"again", "write"} => mem[s].gone \/ Removes(s)

\* How far TombstoneKeeps holds (memory_projector.py:264-271): a forgotten memory
\* can come back only by a repetition that read the stream before the forgetting
\* committed.  Later repetitions, rebuilds and appends never bring it back.
ForgottenStaysHidden == [][Hidden => Hidden']_vars

\* "Keep its tombstone so a delayed projection cannot resurrect content."  A
\* repeated request that read the stream's status before the memory was forgotten,
\* and looks for the document after it, writes the document anew.
TombstoneKeeps == stream.gone => doc = 0
=============================================================================

----------------------- MODULE MemoryEventStoreProofs -----------------------
(***************************************************************************)
(* The events of a memory are numbered without gaps, nothing of a          *)
(* forgotten memory can be read, the search document shows the newest      *)
(* event but for late repetitions, and a hidden memory stays hidden, for   *)
(* any number of sessions.                                                 *)
(*                                                                         *)
(* Nothing in the rows says that a session which is about to forget knows  *)
(* every key.  It does because whoever adds a key raises the version: the  *)
(* keys it read are all there are as long as the version is the one it     *)
(* read before them (KeysKnown).                                           *)
(***************************************************************************)
EXTENDS MemoryEventStore, TLAPS

Places == {"idle", "append", "seen", "keys", "again", "write"}

MemTypes ==
    [name : Names \cup {None}, kind : Kinds, new : BOOLEAN,
     version : 0..MaxEvents, keys : SUBSET Numbers, event : 0..MaxEvents,
     gone : BOOLEAN, seen : 0..MaxEvents, lost : BOOLEAN]

EventTypes == [number : Numbers, kind : Kinds \cup {"forgotten"},
               name : Names \cup {None}]

\* A forgotten memory has no key left and ends with its forgetting; before that
\* every event has its key.
LastIsLast ==
    /\ stream.gone => /\ live = {} /\ events # <<>>
                      /\ events[Len(events)].kind = "forgotten"
    /\ ~stream.gone => /\ live = DOMAIN events
                       /\ \A i \in DOMAIN events : events[i].kind # "forgotten"
    /\ \A i, j \in DOMAIN events :
         events[i].kind = "forgotten" /\ i < j => events[j].kind = "forgotten"

\* While the version is the one it read, a session knows every key; no session
\* has read a version that is still to come.
KeysKnown ==
    \A s \in Sessions :
        /\ mem[s].version <= stream.version
        /\ pc[s] = "keys" /\ mem[s].version = stream.version
             => live \subseteq mem[s].keys

\* What a repetition found: an event that is there, and a status that is final
\* once it is "forgotten".
RepeatsKnown ==
    \A s \in Sessions :
        /\ pc[s] \in {"again", "write"} => mem[s].event \in DOMAIN events
        /\ mem[s].gone => stream.gone

EventsInv ==
    /\ EventsTypeOK /\ EventsAreNumbered /\ LastIsLast
    /\ KeysKnown /\ RepeatsKnown

-----------------------------------------------------------------------------
(* The two ways a session goes on.                                         *)

LEMMA GotoEffect ==
    ASSUME EventsTypeOK, NEW s \in Sessions, NEW at \in Places,
           NEW m \in MemTypes, Goto(s, at, m)
    PROVE  /\ pc' \in [Sessions -> Places] /\ mem' \in [Sessions -> MemTypes]
           /\ pc'[s] = at /\ mem'[s] = m
           /\ \A t \in Sessions \ {s} : pc'[t] = pc[t] /\ mem'[t] = mem[t]
BY DEF EventsTypeOK, Goto, Places, MemTypes

LEMMA NoMemType == NoMem \in MemTypes
BY EventStoreAssumption DEF NoMem, Known, MemTypes, Kinds, Numbers

LEMMA DoneEffect ==
    ASSUME EventsTypeOK, NEW s \in Sessions, NEW b \in BOOLEAN, Done(s, b)
    PROVE  /\ pc' \in [Sessions -> Places] /\ mem' \in [Sessions -> MemTypes]
           /\ pc'[s] = "idle" /\ mem'[s] = NoMem
           /\ \A t \in Sessions \ {s} :
                /\ pc'[t] = pc[t]
                /\ mem'[t].version = mem[t].version /\ mem'[t].keys = mem[t].keys
                /\ mem'[t].event = mem[t].event /\ mem'[t].gone = mem[t].gone
<1>1. pc' \in [Sessions -> Places] /\ pc'[s] = "idle"
    BY DEF Done, EventsTypeOK, Places
<1>2. ASSUME NEW t \in Sessions, t # s
      PROVE  /\ pc'[t] = pc[t] /\ mem'[t] \in MemTypes
             /\ mem'[t].version = mem[t].version /\ mem'[t].keys = mem[t].keys
             /\ mem'[t].event = mem[t].event /\ mem'[t].gone = mem[t].gone
    <2> DEFINE l == mem[t].lost \/ (b /\ mem[t].seen # 0)
    <2>1. mem'[t] = [mem[t] EXCEPT !.lost = l] /\ pc'[t] = pc[t]
        BY <1>2 DEF Done, EventsTypeOK
    <2>2. mem[t] \in MemTypes /\ l \in BOOLEAN
        BY <1>2 DEF EventsTypeOK, MemTypes
    <2> HIDE DEF l
    <2> QED BY <2>1, <2>2 DEF MemTypes
<1>3. mem'[s] = NoMem /\ DOMAIN mem' = Sessions
    BY DEF Done
<1>4. mem' = [t \in Sessions |-> mem'[t]]
    BY DEF Done
<1> QED BY <1>1, <1>2, <1>3, <1>4, NoMemType

\* When a session is done, what the others know stays right as long as the rows
\* do not fall behind it.
LEMMA SettledSessions ==
    ASSUME EventsTypeOK, KeysKnown, RepeatsKnown, NEW s \in Sessions,
           NEW b \in BOOLEAN, Done(s, b),
           stream.version \in Nat, stream'.version \in Nat,
           stream'.version >= stream.version,
           stream'.version = stream.version => live' \subseteq live,
           DOMAIN events \subseteq DOMAIN events', stream.gone => stream'.gone
    PROVE  KeysKnown' /\ RepeatsKnown'
<1>1. /\ pc'[s] = "idle" /\ mem'[s] = NoMem
      /\ \A t \in Sessions \ {s} :
           /\ pc'[t] = pc[t] /\ mem[t].version \in Nat
           /\ mem'[t].version = mem[t].version /\ mem'[t].keys = mem[t].keys
           /\ mem'[t].event = mem[t].event /\ mem'[t].gone = mem[t].gone
    BY DoneEffect DEF EventsTypeOK
<1>2. ASSUME NEW t \in Sessions
      PROVE  /\ mem'[t].version <= stream'.version
             /\ pc'[t] = "keys" /\ mem'[t].version = stream'.version
                  => live' \subseteq mem'[t].keys
             /\ pc'[t] \in {"again", "write"} => mem'[t].event \in DOMAIN events'
             /\ mem'[t].gone => stream'.gone
    <2>1. CASE t = s
        BY <1>1, <2>1 DEF NoMem, Known
    <2>2. CASE t # s
        <3>1. pc[t] = "keys" /\ mem[t].version = stream.version
                => live \subseteq mem[t].keys
            BY DEF KeysKnown
        <3>2. mem[t].version <= stream.version
            BY DEF KeysKnown
        <3>3. /\ pc[t] \in {"again", "write"} => mem[t].event \in DOMAIN events
              /\ mem[t].gone => stream.gone
            BY DEF RepeatsKnown
        <3> QED BY <1>1, <2>2, <3>1, <3>2, <3>3
    <2> QED BY <2>1, <2>2
<1> QED BY <1>2 DEF KeysKnown, RepeatsKnown

-----------------------------------------------------------------------------
(* The invariant.                                                          *)

LEMMA InitEvents == Init => EventsInv
<1> SUFFICES ASSUME Init PROVE EventsInv
    OBVIOUS
<1> USE EventStoreAssumption DEF Init
<1>1. EventsTypeOK
    <2>1. mem \in [Sessions -> MemTypes]
        BY NoMemType
    <2>2. stream.version \in 0..MaxEvents /\ 0 \in 0..MaxEvents /\ MaxEvents >= 0
        OBVIOUS
    <2>3. events \in Seq([number : Numbers, kind : Kinds \cup {"forgotten"},
                          name : Names \cup {None}])
        OBVIOUS
    <2>4. Len(events) = 0 /\ live = {} /\ doc = 0 /\ late = FALSE
        OBVIOUS
    <2>5. /\ stream \in [there : BOOLEAN, version : 0..MaxEvents, gone : BOOLEAN]
          /\ pc \in [Sessions -> {"idle", "append", "seen", "keys", "again", "write"}]
        BY <2>2
    <2> HIDE DEF Init
    <2> QED BY <2>1, <2>2, <2>3, <2>4, <2>5 DEF EventsTypeOK, MemTypes
<1>2. EventsAreNumbered /\ LastIsLast
    BY DEF EventsAreNumbered, LastIsLast
<1>3. KeysKnown /\ RepeatsKnown
    BY DEF KeysKnown, RepeatsKnown, NoMem, Known
<1> QED BY <1>1, <1>2, <1>3 DEF EventsInv

\* The steps that only read, and the rollback.
LEMMA ReadingSteps ==
    ASSUME EventsInv, NEW s \in Sessions,
           \/ \E name \in Names : \/ LookAgain(s, name)
                                  \/ \E k \in Kinds : Read(s, name, k)
           \/ SeeDocument(s) \/ See(s) \/ SeeKeys(s) \/ Abort(s)
    PROVE  EventsInv' /\ UNCHANGED db
<1> USE EventStoreAssumption
<1>0. EventsTypeOK /\ EventsAreNumbered /\ LastIsLast /\ KeysKnown /\ RepeatsKnown
    BY DEF EventsInv
<1>1. stream.version \in 0..MaxEvents /\ stream.gone \in BOOLEAN
      /\ stream.there \in BOOLEAN /\ mem \in [Sessions -> MemTypes]
      /\ pc \in [Sessions -> Places] /\ DOMAIN events = 1..Len(events)
      /\ Len(events) \in Nat /\ Len(events) <= MaxEvents
      /\ live \subseteq Numbers /\ doc \in 0..MaxEvents
    BY <1>0 DEF EventsTypeOK, MemTypes, Places, Numbers
<1>2. UNCHANGED db
    BY DEF LookAgain, Read, SeeDocument, See, SeeKeys, Abort
<1>3. ASSUME NEW at \in Places, NEW m \in MemTypes, Goto(s, at, m),
             m.version <= stream.version,
             at = "keys" /\ m.version = stream.version => live \subseteq m.keys,
             at \in {"again", "write"} => m.event \in DOMAIN events,
             m.gone => stream.gone
      PROVE  EventsInv'
    <2>1. EventsTypeOK'
        BY <1>0, <1>2, <1>3, GotoEffect DEF EventsTypeOK, MemTypes, Places, db
    <2>2. EventsAreNumbered' /\ LastIsLast'
        BY <1>0, <1>2 DEF EventsAreNumbered, LastIsLast, db
    <2>3. KeysKnown' /\ RepeatsKnown'
        BY <1>0, <1>2, <1>3, GotoEffect DEF KeysKnown, RepeatsKnown, db
    <2> QED BY <2>1, <2>2, <2>3 DEF EventsInv
<1>4. ASSUME NEW name \in Names, NEW k \in Kinds, Read(s, name, k)
      PROVE  EventsInv'
    <2> DEFINE m == Known(name, k, ~stream.there, stream.version)
    <2>1. m \in MemTypes /\ m.version <= stream.version /\ ~m.gone
        BY <1>1 DEF Known, MemTypes, Numbers
    <2>2. Goto(s, "append", m)
        BY <1>4 DEF Read
    <2> HIDE DEF m
    <2> QED BY <2>1, <2>2, <1>3 DEF Places
<1>5. CASE See(s)
    <2> DEFINE m == Known(None, "text", ~stream.there, stream.version)
    <2>1. m \in MemTypes /\ m.version <= stream.version /\ ~m.gone
        BY <1>1 DEF Known, MemTypes, Numbers, Kinds
    <2>2. Goto(s, "seen", m)
        BY <1>5 DEF See
    <2> HIDE DEF m
    <2> QED BY <1>2, <2>1, <2>2, <1>3 DEF Places
<1>6. CASE SeeKeys(s)
    <2> DEFINE m == [mem[s] EXCEPT !.keys = live]
    <2>1. m \in MemTypes /\ m.version = mem[s].version /\ m.keys = live
          /\ m.gone = mem[s].gone
        BY <1>1 DEF MemTypes
    <2>2. Goto(s, "keys", m)
        BY <1>6 DEF SeeKeys
    <2> HIDE DEF m
    <2> QED BY <1>0, <1>1, <1>2, <2>1, <2>2, <1>3 DEF Places, KeysKnown, RepeatsKnown
<1>7. ASSUME NEW name \in Names, LookAgain(s, name)
      PROVE  EventsInv'
    <2>1. PICK i \in Earlier(name) :
            Goto(s, "again", [NoMem EXCEPT !.event = i, !.gone = SeesForgotten])
        BY <1>7 DEF LookAgain
    <2> DEFINE m == [NoMem EXCEPT !.event = i, !.gone = SeesForgotten]
    <2>2. i \in DOMAIN events /\ i \in 0..MaxEvents
        BY <1>1 DEF Earlier
    <2>3. m \in MemTypes /\ m.version = 0 /\ m.event = i /\ m.gone = stream.gone
        BY <1>1, <2>2, NoMemType DEF MemTypes, SeesForgotten, NoMem, Known
    <2>4. Goto(s, "again", m)
        BY <2>1
    <2> HIDE DEF m
    <2> QED BY <1>1, <2>2, <2>3, <2>4, <1>3 DEF Places
<1>8. CASE SeeDocument(s)
    <2> DEFINE m == [mem[s] EXCEPT !.seen = doc]
    <2>1. m \in MemTypes /\ m.version = mem[s].version /\ m.event = mem[s].event
          /\ m.gone = mem[s].gone
        BY <1>1 DEF MemTypes
    <2>2. Goto(s, "write", m) /\ pc[s] = "again"
        BY <1>8 DEF SeeDocument
    <2> HIDE DEF m
    <2> QED BY <1>0, <1>1, <1>2, <2>1, <2>2, <1>3 DEF Places, KeysKnown, RepeatsKnown
<1>9. CASE Abort(s)
    <2>1. Done(s, FALSE)
        BY <1>9 DEF Abort
    <2>2. EventsTypeOK'
        BY <1>0, <1>2, <2>1, DoneEffect DEF EventsTypeOK, MemTypes, Places, db
    <2>3. EventsAreNumbered' /\ LastIsLast'
        BY <1>0, <1>2 DEF EventsAreNumbered, LastIsLast, db
    <2>4. KeysKnown' /\ RepeatsKnown'
        <3>1. stream' = stream /\ live' = live /\ events' = events
            BY <1>2 DEF db
        <3>2. /\ stream.version \in Nat /\ stream'.version \in Nat
              /\ stream'.version >= stream.version /\ live' \subseteq live
              /\ DOMAIN events \subseteq DOMAIN events'
              /\ stream.gone => stream'.gone
            BY <1>1, <3>1
        <3>3. PICK b \in BOOLEAN : Done(s, b)
            BY <2>1
        <3> QED BY <1>0, <3>2, <3>3, SettledSessions
    <2> QED BY <1>2, <2>2, <2>3, <2>4 DEF EventsInv
<1> QED BY <1>2, <1>4, <1>5, <1>6, <1>7, <1>8, <1>9

\* The transactions that write an event or the document.
LEMMA WritingSteps ==
    ASSUME EventsInv, NEW s \in Sessions,
           AppendEvent(s) \/ Forget(s) \/ Rewrite(s) \/ Rebuild(s)
    PROVE  EventsInv'
<1> USE EventStoreAssumption
<1>0. EventsTypeOK /\ EventsAreNumbered /\ LastIsLast /\ KeysKnown /\ RepeatsKnown
    BY DEF EventsInv
<1>1. /\ stream \in [there : BOOLEAN, version : 0..MaxEvents, gone : BOOLEAN]
      /\ mem \in [Sessions -> MemTypes] /\ events \in Seq(EventTypes)
      /\ Len(events) \in Nat /\ Len(events) <= MaxEvents
      /\ DOMAIN events = 1..Len(events) /\ stream.version = Len(events)
      /\ live \subseteq DOMAIN events /\ doc \in {0} \cup DOMAIN events
    BY <1>0 DEF EventsTypeOK, EventsAreNumbered, MemTypes, EventTypes
<1>2. ASSUME NEW e \in EventTypes, NEW n, n = Len(events) + 1, e.number = n,
             events' = Append(events, e), n <= MaxEvents, NEW b \in BOOLEAN, Done(s, b),
             stream' = [there |-> TRUE, version |-> n, gone |-> e.kind = "forgotten"],
             live' \subseteq live \cup {n}, doc' \in {0, n}, late' \in BOOLEAN,
             stream.gone => e.kind = "forgotten",
             e.kind = "forgotten" => live' = {},
             e.kind # "forgotten" => live' = live \cup {n}
      PROVE  EventsInv'
    <2>1. /\ events' \in Seq(EventTypes) /\ Len(events') = n /\ events'[n] = e
          /\ DOMAIN events' = 1..n /\ n \in Nat /\ n \in Numbers
          /\ \A i \in DOMAIN events : events'[i] = events[i]
          /\ DOMAIN events' = DOMAIN events \cup {n}
        BY <1>1, <1>2 DEF Numbers
    <2>2. EventsTypeOK'
        BY <1>0, <1>1, <1>2, <2>1, DoneEffect
           DEF EventsTypeOK, MemTypes, Places, EventTypes
    <2>3. EventsAreNumbered'
        BY <1>0, <1>1, <1>2, <2>1 DEF EventsAreNumbered
    <2>4. LastIsLast'
        <3>1. /\ stream'.gone => /\ live' = {} /\ events' # <<>>
                                  /\ events'[Len(events')].kind = "forgotten"
              /\ ~stream'.gone =>
                   /\ live' = DOMAIN events'
                   /\ \A i \in DOMAIN events' : events'[i].kind # "forgotten"
            <4>1. stream'.gone <=> e.kind = "forgotten"
                BY <1>2
            <4>2. CASE e.kind = "forgotten"
                BY <1>2, <2>1, <4>1, <4>2
            <4>3. CASE e.kind # "forgotten"
                <5>1. live = DOMAIN events
                    BY <1>0, <1>2, <4>3 DEF LastIsLast
                <5>2. \A i \in DOMAIN events : events'[i].kind # "forgotten"
                    BY <1>0, <1>2, <2>1, <4>3 DEF LastIsLast
                <5> QED BY <1>2, <2>1, <4>1, <4>3, <5>1, <5>2
            <4> QED BY <4>2, <4>3
        <3>2. ASSUME NEW i \in DOMAIN events', NEW j \in DOMAIN events',
                     events'[i].kind = "forgotten", i < j
              PROVE  events'[j].kind = "forgotten"
            <4>1. i \in DOMAIN events /\ events'[i] = events[i]
                BY <1>1, <1>2, <2>1, <3>2
            <4>2. stream.gone
                BY <1>0, <3>2, <4>1 DEF LastIsLast
            <4>3. CASE j = n
                BY <1>2, <2>1, <4>2, <4>3
            <4>4. CASE j # n
                BY <1>0, <2>1, <3>2, <4>1, <4>4 DEF LastIsLast
            <4> QED BY <4>3, <4>4
        <3> QED BY <3>1, <3>2 DEF LastIsLast
    <2>5. KeysKnown' /\ RepeatsKnown'
        <3>1. /\ stream.version \in Nat /\ stream'.version \in Nat
              /\ stream'.version > stream.version
              /\ DOMAIN events \subseteq DOMAIN events'
              /\ stream.gone => stream'.gone
            BY <1>1, <1>2, <2>1
        <3> QED BY <1>0, <1>2, <3>1, SettledSessions
    <2> QED BY <2>2, <2>3, <2>4, <2>5 DEF EventsInv
<1>3. CASE AppendEvent(s)
    <2> DEFINE n == Len(events) + 1
               e == [number |-> n, kind |-> mem[s].kind, name |-> mem[s].name]
    <2>1. SeenVersion(s) = Len(events) /\ ~stream.gone /\ n <= MaxEvents /\ n \in Numbers
        BY <1>1, <1>3 DEF AppendEvent, Cas, Numbers
    <2>2. mem[s] \in MemTypes
        BY <1>1
    <2>3. e \in EventTypes /\ e.number = n /\ e.kind # "forgotten" /\ n = Len(events) + 1
        BY <2>1, <2>2 DEF EventTypes, MemTypes, Kinds
    <2>4. /\ events' = Append(events, e) /\ live' = live \cup {n} /\ late' = FALSE
          /\ stream' = [there |-> TRUE, version |-> n, gone |-> FALSE]
          /\ doc' \in {0, n} /\ Done(s, mem[s].kind # "text")
        BY <1>3, <2>1 DEF AppendEvent
    <2> HIDE DEF e, n
    <2> QED BY <1>2, <2>1, <2>3, <2>4
<1>4. CASE Forget(s)
    <2> DEFINE n == Len(events) + 1
               e == [number |-> n, kind |-> "forgotten", name |-> None]
    <2>1. mem[s].version = Len(events) /\ n <= MaxEvents /\ n \in Numbers
        BY <1>1, <1>4 DEF Forget, CasForgetting, Numbers
    <2>2. live \subseteq mem[s].keys
        BY <1>0, <1>1, <1>4, <2>1 DEF Forget, KeysKnown
    <2>3. e \in EventTypes /\ e.number = n /\ e.kind = "forgotten" /\ n = Len(events) + 1
        BY <2>1 DEF EventTypes
    <2>4. /\ events' = Append(events, e) /\ live' = {} /\ late' = FALSE
          /\ stream' = [there |-> TRUE, version |-> n, gone |-> TRUE]
          /\ doc' = 0 /\ Done(s, TRUE)
        BY <1>4, <2>1, <2>2 DEF Forget
    <2> HIDE DEF e, n
    <2> QED BY <1>2, <2>1, <2>3, <2>4
<1>5. ASSUME NEW b \in BOOLEAN, Done(s, b), UNCHANGED <<stream, events, live>>,
             doc' \in {0} \cup DOMAIN events, late' \in BOOLEAN
      PROVE  EventsInv'
    <2>1. EventsTypeOK'
        BY <1>0, <1>1, <1>5, DoneEffect DEF EventsTypeOK, MemTypes, Places
    <2>2. EventsAreNumbered' /\ LastIsLast'
        BY <1>0, <1>5 DEF EventsAreNumbered, LastIsLast
    <2>3. KeysKnown' /\ RepeatsKnown'
        <3>1. /\ stream.version \in Nat /\ stream'.version \in Nat
              /\ stream'.version >= stream.version /\ live' \subseteq live
              /\ DOMAIN events \subseteq DOMAIN events'
              /\ stream.gone => stream'.gone
            BY <1>1, <1>5
        <3> QED BY <1>0, <1>5, <3>1, SettledSessions
    <2> QED BY <2>1, <2>2, <2>3 DEF EventsInv
<1>6. CASE Rewrite(s)
    <2>1. mem[s].event \in DOMAIN events
        BY <1>0, <1>6 DEF Rewrite, RepeatsKnown
    <2>2. /\ doc' \in {0, doc, mem[s].event} /\ late' \in BOOLEAN
          /\ UNCHANGED <<stream, events, live>> /\ Done(s, doc' = 0)
        BY <1>0, <1>6 DEF Rewrite, EventsTypeOK
    <2> QED BY <1>1, <1>5, <2>1, <2>2
<1>7. CASE Rebuild(s)
    <2>1. Shown(LastApplied) \in {0} \cup DOMAIN events
        BY <1>1, <1>7 DEF Rebuild, Shown, LastApplied
    <2> QED BY <1>5, <1>7, <2>1 DEF Rebuild
<1> QED BY <1>3, <1>4, <1>6, <1>7

LEMMA EventsInvariant == Spec => []EventsInv
<1>1. EventsInv /\ [Next]_vars => EventsInv'
    <2> SUFFICES ASSUME EventsInv, [Next]_vars PROVE EventsInv'
        OBVIOUS
    <2>1. CASE Next
        BY <2>1, ReadingSteps, WritingSteps DEF Next
    <2>2. CASE UNCHANGED vars
        BY <2>2 DEF vars, EventsInv, EventsTypeOK, EventsAreNumbered, LastIsLast,
                    KeysKnown, RepeatsKnown
    <2> QED BY <2>1, <2>2
<1> QED BY <1>1, InitEvents, PTL DEF Spec

(* The rows of the log, the search document and what each session keeps are
   well typed (memory_event_models.py:26-100): no session refers to an event
   that is not there, and the numbers stay within the bound. *)
THEOREM EventsTypeCorrect == Spec => []EventsTypeOK
<1>1. EventsInv => EventsTypeOK
    BY DEF EventsInv
<1> QED BY <1>1, EventsInvariant, PTL

(* MemoryEventStore.append (memory_event_store.py:195-206): each event has the
   number of its place, for any number of sessions that read the same version. *)
THEOREM EventNumbers == Spec => []EventsAreNumbered
<1>1. EventsInv => EventsAreNumbered
    BY DEF EventsInv
<1> QED BY <1>1, EventsInvariant, PTL

(* destroy_stream_payloads and the last append (memory_event_store.py:241-266):
   no key of a forgotten memory is left and nothing is appended to it but
   another forgetting, whoever was appending while the keys were read. *)
THEOREM ForgettingIsComplete == Spec => []ForgottenIsUnreadable
<1>1. EventsInv => ForgottenIsUnreadable
    BY DEF EventsInv, LastIsLast, ForgottenIsUnreadable
<1> QED BY <1>1, EventsInvariant, PTL

-----------------------------------------------------------------------------
(* The search document.                                                    *)

LEMMA InitShows == Init => SearchShowsHead
BY DEF Init, SearchShowsHead, Newest

LEMMA StepShows ==
    ASSUME EventsInv, SearchShowsHead, [Next]_vars
    PROVE  SearchShowsHead'
<1>0. EventsTypeOK /\ LastIsLast /\ RepeatsKnown /\ EventsInv'
    <2>1. EventsInv'
        BY ReadingSteps, WritingSteps
           DEF Next, vars, EventsInv, EventsTypeOK, EventsAreNumbered, LastIsLast,
               KeysKnown, RepeatsKnown
    <2> QED BY <2>1 DEF EventsInv
<1>1. /\ Len(events) \in Nat /\ DOMAIN events = 1..Len(events)
      /\ events \in Seq(EventTypes) /\ stream.gone \in BOOLEAN
    BY <1>0 DEF EventsTypeOK, EventTypes
<1>2. CASE UNCHANGED <<stream, events, doc, late>>
    BY <1>2 DEF SearchShowsHead, Newest
<1>3. ASSUME NEW s \in Sessions, AppendEvent(s) PROVE SearchShowsHead'
    <2> DEFINE i == Len(events) + 1
               e == [number |-> SeenVersion(s) + 1, kind |-> mem[s].kind,
                     name |-> mem[s].name]
    <2>1. events' = Append(events, e) /\ ~stream'.gone
          /\ doc' = IF mem[s].kind = "text" THEN i ELSE 0
        BY <1>3 DEF AppendEvent
    <2>2. Len(events') = i /\ events'[i] = e /\ events' # <<>>
        BY <1>1, <2>1
    <2>3. e.kind = mem[s].kind
        OBVIOUS
    <2> HIDE DEF e, i
    <2> QED BY <2>1, <2>2, <2>3 DEF SearchShowsHead, Newest
<1>4. ASSUME NEW s \in Sessions, Forget(s) PROVE SearchShowsHead'
    BY <1>4 DEF Forget, SearchShowsHead, Newest
<1>5. ASSUME NEW s \in Sessions, Rewrite(s) PROVE SearchShowsHead'
    <2> DEFINE i == mem[s].event
    <2>1. i \in DOMAIN events /\ (mem[s].gone => stream.gone)
        BY <1>0, <1>5 DEF RepeatsKnown, Rewrite
    <2>2. UNCHANGED <<stream, events>> /\ Newest' = Newest
        BY <1>5 DEF Rewrite, Newest
    <2>3. /\ late' = (late \/ (~mem[s].gone /\ i # Len(events) /\ doc' # doc))
          /\ \/ Removes(s) /\ doc' \in {0, doc}
             \/ ~Removes(s) /\ doc' \in {i, doc}
        BY <1>5 DEF Rewrite
    <2>4. CASE late' \/ doc' = doc
        BY <1>0, <2>2, <2>3, <2>4 DEF SearchShowsHead, EventsTypeOK
    <2>5. CASE ~late' /\ doc' # doc /\ mem[s].gone
        BY <2>1, <2>2, <2>3, <2>5 DEF SearchShowsHead, Newest, Removes
    <2>6. CASE ~late' /\ doc' # doc /\ ~mem[s].gone
        <3>1. i = Len(events) /\ events # <<>>
            <4>1. i = Len(events)
                BY <2>3, <2>6
            <4> QED BY <1>1, <2>1, <4>1
        <3>2. CASE events[i].kind = "text"
            <4>1. doc' = i /\ ~stream.gone
                BY <1>0, <2>3, <2>6, <3>1, <3>2 DEF Removes, LastIsLast
            <4> QED BY <2>2, <3>1, <3>2, <4>1 DEF SearchShowsHead, Newest
        <3>3. CASE events[i].kind # "text"
            BY <2>2, <2>3, <2>6, <3>1, <3>3 DEF SearchShowsHead, Newest, Removes
        <3> QED BY <3>2, <3>3
    <2> QED BY <2>4, <2>5, <2>6
<1>6. ASSUME NEW s \in Sessions, Rebuild(s) PROVE SearchShowsHead'
    <2>1. Newest' = Newest /\ doc' = Shown(Len(events)) /\ events # <<>>
        BY <1>6 DEF Rebuild, LastApplied, Newest
    <2>2. Len(events) \in DOMAIN events
        BY <1>1, <2>1
    <2>3. Shown(Len(events)) = Newest
        BY <1>0, <2>1, <2>2 DEF Shown, Newest, LastIsLast
    <2> QED BY <2>1, <2>3 DEF SearchShowsHead
<1> QED
    BY <1>2, <1>3, <1>4, <1>5, <1>6
       DEF Next, vars, db, Read, See, SeeKeys, LookAgain, SeeDocument, Abort

(* The document is right after every append, forgetting and rebuild, and stays
   so until a repetition of an earlier event writes it (memory_projector.py:
   253-405), for any number of sessions. *)
THEOREM SearchIsCurrent == Spec => []SearchShowsHead
<1>1. EventsInv /\ SearchShowsHead /\ [Next]_vars => SearchShowsHead'
    BY StepShows
<1> QED BY <1>1, InitShows, EventsInvariant, PTL DEF Spec

(* A memory that was forgotten, and of which no repetition is under way that
   found its stream open, is out of the search for ever (memory_projector.py:
   264-271): how far the break of TombstoneKeeps reaches. *)
THEOREM TombstoneHolds == Spec => ForgottenStaysHidden
<1>1. ASSUME EventsInv, Hidden, [Next]_vars PROVE Hidden'
    <2>0. /\ EventsTypeOK /\ LastIsLast /\ RepeatsKnown
          /\ stream.gone /\ doc = 0
        BY <1>1 DEF EventsInv, Hidden
    <2>1. /\ Len(events) \in Nat /\ DOMAIN events = 1..Len(events)
          /\ events \in Seq(EventTypes) /\ mem \in [Sessions -> MemTypes]
          /\ pc \in [Sessions -> Places]
        BY <2>0 DEF EventsTypeOK, EventTypes, MemTypes, Places
    <2>2. ASSUME NEW s \in Sessions, NEW b \in BOOLEAN, Done(s, b),
                 stream'.gone, doc' = 0,
                 \A i \in DOMAIN events : events'[i] = events[i]
          PROVE  Hidden'
        <3>1. ASSUME NEW t \in Sessions, pc'[t] \in {"again", "write"}
              PROVE  mem'[t].gone \/ events'[mem'[t].event].kind # "text"
            <4>1. /\ t # s /\ pc[t] = pc'[t] /\ mem'[t].event = mem[t].event
                  /\ mem'[t].gone = mem[t].gone
                BY <2>0, <2>2, <3>1, DoneEffect
            <4>2. mem[t].event \in DOMAIN events
                BY <2>0, <3>1, <4>1 DEF RepeatsKnown
            <4> QED BY <1>1, <2>2, <3>1, <4>1, <4>2 DEF Hidden, Removes
        <3> QED BY <2>2, <3>1 DEF Hidden, Removes
    <2>3. CASE UNCHANGED vars
        BY <1>1, <2>3 DEF vars, Hidden, Removes
    <2>4. ASSUME NEW s \in Sessions, NEW at \in Places, NEW m, Goto(s, at, m),
                 UNCHANGED db,
                 at \in {"again", "write"} => m.gone \/ events[m.event].kind # "text"
          PROVE  Hidden'
        <3>1. ASSUME NEW t \in Sessions, pc'[t] \in {"again", "write"}
              PROVE  mem'[t].gone \/ events[mem'[t].event].kind # "text"
            BY <1>1, <2>1, <2>4, <3>1 DEF Goto, Hidden, Removes
        <3> QED BY <2>0, <2>4, <3>1 DEF Hidden, Removes, db
    <2>5. ASSUME NEW s \in Sessions, NEW name \in Names, NEW k \in Kinds,
                 Read(s, name, k)
          PROVE  Hidden'
        BY <2>0, <2>5 DEF Read
    <2>6. ASSUME NEW s \in Sessions, AppendEvent(s) PROVE Hidden'
        BY <2>0, <2>6 DEF AppendEvent, Cas
    <2>7. ASSUME NEW s \in Sessions, NEW name \in Names, LookAgain(s, name)
          PROVE  Hidden'
        <3>1. PICK i \in Earlier(name) :
                Goto(s, "again", [NoMem EXCEPT !.event = i, !.gone = TRUE])
            BY <2>0, <2>7 DEF LookAgain, SeesForgotten, EventsTypeOK
        <3>2. [NoMem EXCEPT !.event = i, !.gone = TRUE].gone
            BY DEF NoMem, Known
        <3> QED BY <2>4, <2>7, <3>1, <3>2 DEF LookAgain, Places
    <2>8. ASSUME NEW s \in Sessions, SeeDocument(s) PROVE Hidden'
        <3>1. /\ [mem[s] EXCEPT !.seen = doc].gone = mem[s].gone
              /\ [mem[s] EXCEPT !.seen = doc].event = mem[s].event
            BY <2>1 DEF MemTypes
        <3> QED BY <1>1, <2>4, <2>8, <3>1 DEF SeeDocument, Places, Hidden, Removes
    <2>9. ASSUME NEW s \in Sessions, See(s) \/ SeeKeys(s) PROVE Hidden'
        BY <2>4, <2>9 DEF See, SeeKeys, Places
    <2>10. ASSUME NEW s \in Sessions, Rewrite(s) PROVE Hidden'
        <3>1. /\ Removes(s) /\ doc' = 0
              /\ UNCHANGED <<stream, events>> /\ Done(s, doc' = 0)
            BY <1>1, <2>10 DEF Rewrite, Hidden, Removes
        <3> QED BY <2>0, <2>2, <3>1
    <2>11. ASSUME NEW s \in Sessions, Forget(s) PROVE Hidden'
        <3>1. /\ stream'.gone /\ doc' = 0 /\ Done(s, TRUE)
              /\ \A i \in DOMAIN events : events'[i] = events[i]
            <4>1. PICK e : events' = Append(events, e)
                BY <2>11 DEF Forget
            <4>2. \A i \in DOMAIN events : Append(events, e)[i] = events[i]
                BY <2>1
            <4> QED BY <2>11, <4>1, <4>2 DEF Forget
        <3> QED BY <2>2, <3>1
    <2>12. ASSUME NEW s \in Sessions, Rebuild(s) PROVE Hidden'
        <3>1. doc' = 0 /\ UNCHANGED <<stream, events>> /\ Done(s, TRUE)
            BY <2>0, <2>12 DEF Rebuild, Shown
        <3> QED BY <2>0, <2>2, <3>1
    <2>13. ASSUME NEW s \in Sessions, Abort(s) PROVE Hidden'
        <3>1. UNCHANGED <<stream, events, doc>> /\ Done(s, FALSE)
            BY <2>13 DEF Abort, db
        <3> QED BY <2>0, <2>2, <3>1
    <2> QED
        BY <1>1, <2>3, <2>5, <2>6, <2>7, <2>8, <2>9, <2>10, <2>11, <2>12, <2>13
           DEF Next
<1>2. EventsInv /\ [Next]_vars => [Hidden => Hidden']_vars
    BY <1>1
<1> QED BY <1>2, EventsInvariant, PTL DEF Spec, ForgottenStaysHidden
=============================================================================

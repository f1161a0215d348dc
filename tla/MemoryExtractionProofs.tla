----------------------- MODULE MemoryExtractionProofs -----------------------
(***************************************************************************)
(* Each part of the text is stored once, paid once, and what was paid for  *)
(* is used, for any number of callers, any messages and any batch size;    *)
(* but for the claims and resets that rest on an outdated look at the row. *)
(*                                                                         *)
(* The lease lets one caller write at a time, and the update that claims   *)
(* the row lets it in with a fresh look at it; so what the holder knows of *)
(* the checkpoint is what the checkpoint says, for as long as it holds the *)
(* row (HolderKnows), however many passes lost their lease and go on.  A   *)
(* batch that was requested begins where the text stored so far ends, and  *)
(* the requests made beyond it are the one in the row (PaidSoFar).         *)
(***************************************************************************)
EXTENDS MemoryExtraction, TLAPS, FiniteSetTheorems, WellFoundedInduction

Fresh == "row" \notin overtaken /\ "reset" \notin overtaken

\* The offset is inside a message, and in the text.
Within(o) == o \notin Ends /\ o <= said

\* A request is for a part of the text.
Frozen(r) == r.phase # "none" => r.from < r.to /\ r.to <= said

TextKnown ==
    /\ Within(offset) /\ Frozen(receipt) /\ cursor <= said /\ config <= trouble
    /\ \A c \in Callers :
         /\ Within(mem[c].offset) /\ Frozen(mem[c].receipt)
         /\ pc[c] \in {"ready", "calling", "answered"}
              => mem[c].from < mem[c].to /\ mem[c].to <= said

\* A pass has a window, and from its request on a receipt of it.
PassesKnow ==
    \A c \in Callers :
        /\ pc[c] \in {"looked", "peeked", "claimed", "ready", "calling", "answered"}
             => mem[c].window \in Windows
        /\ pc[c] \in {"calling", "answered"} =>
             /\ mem[c].receipt.phase = IF pc[c] = "calling" THEN "started" ELSE "received"
             /\ mem[c].receipt.window = mem[c].window
             /\ mem[c].receipt.from = mem[c].from /\ mem[c].receipt.to = mem[c].to

\* A caller that has the row, and is at work on it.
Holds(c) == row.holder = c /\ pc[c] \in {"claimed", "ready", "calling", "answered"}

HolderKnows ==
    \A c \in Callers : Holds(c) =>
        /\ mem[c].offset = offset /\ mem[c].receipt = receipt
        /\ pc[c] # "claimed" => mem[c].from = Reached

RequestIsNext == receipt.phase # "none" => receipt.from = Reached

\* The window of the holder is that of the request, if there is one.
WindowsAgree ==
    \A c \in Callers : Holds(c) /\ receipt.phase # "none" =>
        mem[c].window = receipt.window /\ pc[c] # "ready"

\* No unit was paid twice; beyond what is stored, those of the request were paid.
PaidSoFar ==
    \A u \in Units :
        /\ sent[u] <= 1
        /\ u > Reached /\ sent[u] # 0 => receipt.phase # "none" /\ u <= receipt.to

ExtractionInv ==
    /\ ExtractionTypeOK /\ TextKnown /\ PassesKnow /\ EachPartOnce
    /\ Fresh => HolderKnows /\ RequestIsNext
    /\ overtaken = {} => WindowsAgree /\ PaidSoFar

-----------------------------------------------------------------------------
(* Greatest and least numbers, and the ends of the messages.               *)

LEMMA Least ==
    ASSUME NEW S \in SUBSET Nat, S # {}
    PROVE  \E x \in S : \A y \in S : x <= y
<1> DEFINE Less == {p \in Nat \X Nat : p[1] < p[2]}
<1>1. IsWellFoundedOn(Less, Nat)
    BY NatLessThanWellFounded DEF OpToRel
<1>2. \A x, y \in Nat : <<x, y>> \in Less <=> x < y
    OBVIOUS
<1> HIDE DEF Less
<1>3. PICK x \in S : \A y \in S : <<y, x>> \notin Less
    BY <1>1, WFMin, Zenon
<1>4. ASSUME NEW y \in S PROVE x <= y
    <2>1. x \in Nat /\ y \in Nat
        OBVIOUS
    <2>2. ~(y < x)
        BY <1>2, <1>3, <2>1
    <2> QED BY <2>1, <2>2
<1> QED BY <1>4

LEMMA LeastIsThere ==
    ASSUME NEW S \in SUBSET Nat, S # {}
    PROVE  Min(S) \in S /\ \A y \in S : Min(S) <= y
BY Least DEF Min

LEMMA GreatestIsThere ==
    ASSUME NEW S \in SUBSET Nat, S # {}, NEW b \in Nat, \A y \in S : y <= b
    PROVE  Max(S) \in S /\ \A y \in S : y <= Max(S)
<1> DEFINE T == {n \in Nat : \A y \in S : y <= n}
<1>1. T \in SUBSET Nat /\ T # {}
    OBVIOUS
<1>2. PICK m \in T : \A n \in T : m <= n
    <2> HIDE DEF T
    <2> QED BY <1>1, Least
<1>3. m \in S
    <2> SUFFICES ASSUME m \notin S PROVE FALSE
        OBVIOUS
    <2>1. PICK y \in S : TRUE
        OBVIOUS
    <2>2. y < m /\ m - 1 \in Nat
        BY <2>1
    <2>3. \A z \in S : z <= m - 1
        BY <2>2
    <2>4. m - 1 \in T
        BY <2>2, <2>3
    <2> QED BY <1>2, <2>4
<1>4. \E x \in S : \A y \in S : x >= y
    BY <1>2, <1>3
<1>5. Max(S) \in S /\ \A y \in S : Max(S) >= y
    BY <1>4 DEF Max
<1> QED BY <1>5

\* A finite set of numbers has a bound; a smallest subset without one would lose its
\* want of a bound with any of its elements.
LEMMA EndsBounded == \E b \in Nat : \A e \in Ends : e <= b
<1> DEFINE Bound(S) == \E b \in Nat : \A e \in S : e <= b
           T == {S \in SUBSET Ends : ~Bound(S)}
<1>1. Ends \subseteq Nat /\ IsFiniteSet(Ends)
    BY ExtractionAssumption
<1>2. IsWellFoundedOn(StrictSubsetOrdering(Ends), SUBSET Ends)
    BY <1>1, FS_StrictSubsetOrderingWellFounded, FS_FiniteSubsetsOfFinite
<1>3. T \subseteq SUBSET Ends
    OBVIOUS
<1> SUFFICES ASSUME T # {} PROVE FALSE
    OBVIOUS
<1>4. PICK S \in T : \A R \in T : <<R, S>> \notin StrictSubsetOrdering(Ends)
    <2> HIDE DEF T
    <2> QED BY <1>2, <1>3, WFMin, Zenon
<1>5. S # {}
    <2> SUFFICES ASSUME S = {} PROVE FALSE
        OBVIOUS
    <2>1. \A e \in S : e <= 0
        OBVIOUS
    <2> QED BY <2>1
<1>6. PICK x \in S : TRUE
    BY <1>5
<1> DEFINE R == S \ {x}
<1>7. R \in SUBSET Ends /\ <<R, S>> \in StrictSubsetOrdering(Ends)
    BY <1>6 DEF StrictSubsetOrdering
<1>8. Bound(R)
    BY <1>4, <1>7
<1>9. PICK b \in Nat : \A e \in R : e <= b
    BY <1>8
<1>10. x \in Nat
    BY <1>1, <1>6
<1>11. \E d \in Nat : d >= b /\ d >= x
    BY <1>9, <1>10
<1>12. PICK d \in Nat : d >= b /\ d >= x
    BY <1>11
<1>13. \A e \in S : e <= d
    BY <1>1, <1>9, <1>10, <1>12
<1> QED BY <1>13

LEMMA LastEnd ==
    /\ Max(Ends) \in Ends /\ Max(Ends) \in Nat \ {0} /\ 0 \notin Ends
    /\ \A e \in Ends : e \in Nat \ {0} /\ e <= Max(Ends)
<1>1. Ends \in SUBSET Nat /\ Ends # {} /\ Ends \subseteq Nat \ {0}
    BY ExtractionAssumption
<1>2. PICK b \in Nat : \A e \in Ends : e <= b
    BY EndsBounded
<1>3. Max(Ends) \in Ends /\ \A e \in Ends : e <= Max(Ends)
    BY <1>1, <1>2, GreatestIsThere
<1> QED BY <1>1, <1>3

\* The greatest of some ends and 0.
LEMMA GreatestEnd ==
    ASSUME NEW S \in SUBSET Ends, S # {}
    PROVE  Max(S) \in S /\ \A e \in S : e <= Max(S)
BY LastEnd, GreatestIsThere

LEMMA StartOfMessage ==
    ASSUME NEW u \in Nat
    PROVE  /\ MessageStart(u) \in {0} \cup Ends /\ (u # 0 => MessageStart(u) < u)
           /\ \A e \in Ends : e < u => e <= MessageStart(u)
<1> DEFINE S == {0} \cup {e \in Ends : e < u}
<1>1. S \in SUBSET Nat /\ S # {} /\ \A e \in S : e <= Max(Ends)
    BY LastEnd
<1>2. Max(S) \in S /\ \A e \in S : e <= Max(S)
    <2> HIDE DEF S
    <2> QED BY <1>1, LastEnd, GreatestIsThere
<1>3. MessageStart(u) = Max(S)
    BY DEF MessageStart
<1>4. /\ \A e \in S : e \in {0} \cup Ends /\ (u # 0 => e < u)
      /\ \A e \in Ends : e < u => e \in S
    OBVIOUS
<1> HIDE DEF S
<1> QED BY <1>2, <1>3, <1>4

LEMMA NextEnd ==
    ASSUME NEW n \in Nat, n < Max(Ends)
    PROVE  Min({e \in Ends : e > n}) \in Ends /\ Min({e \in Ends : e > n}) > n
<1> DEFINE S == {e \in Ends : e > n}
<1>1. S \in SUBSET Nat /\ S # {}
    BY LastEnd
<1>2. Min(S) \in S
    <2> HIDE DEF S
    <2> QED BY <1>1, LeastIsThere
<1> QED BY <1>2

LEMMA LessOfTwo ==
    ASSUME NEW a \in Nat, NEW b \in Nat
    PROVE  Min({a, b}) = IF a <= b THEN a ELSE b
<1>1. Min({a, b}) \in {a, b} /\ \A y \in {a, b} : Min({a, b}) <= y
    BY LeastIsThere
<1> QED BY <1>1

LEMMA CountRight ==
    ASSUME NEW count \in [Units -> 0..2], NEW m
    PROVE  /\ CountBatch(count, m) \in [Units -> 0..2]
           /\ \A u \in Units : CountBatch(count, m)[u] =
                IF u \in Batch(m) THEN IF count[u] = 0 THEN 1 ELSE 2 ELSE count[u]
<1>1. \A u \in Units : Min({count[u] + 1, 2}) = IF count[u] = 0 THEN 1 ELSE 2
    <2> TAKE u \in Units
    <2>1. count[u] \in 0..2 /\ count[u] + 1 \in Nat
        OBVIOUS
    <2>2. Min({count[u] + 1, 2}) = IF count[u] + 1 <= 2 THEN count[u] + 1 ELSE 2
        BY <2>1, LessOfTwo
    <2> QED BY <2>1, <2>2
<1> QED BY <1>1 DEF CountBatch

\* Where a batch begins and ends.
LEMMA BatchBounds ==
    ASSUME ExtractionTypeOK, NEW off \in 0..Max(Ends), Within(off), cursor <= said
    PROVE  /\ BatchFrom(cursor, off) \in 0..Max(Ends) /\ BatchFrom(cursor, off) <= said
           /\ cursor <= BatchFrom(cursor, off)
           /\ MessageStart(BatchFrom(cursor, off) + 1) = cursor
           /\ cursor < said => /\ BatchFrom(cursor, off) < BatchTo(BatchFrom(cursor, off))
                               /\ BatchTo(BatchFrom(cursor, off)) <= said
                               /\ BatchTo(BatchFrom(cursor, off)) \in 1..Max(Ends)
<1> DEFINE from == BatchFrom(cursor, off)
<1>1. /\ cursor \in Nat /\ cursor \in {0} \cup Ends /\ said \in Nat /\ said \in {0} \cup Ends
      /\ said <= Max(Ends) /\ Max(Ends) \in Nat /\ Budget \in Nat \ {0}
    BY LastEnd, ExtractionAssumption DEF ExtractionTypeOK
<1>2. /\ from \in {off, cursor} /\ cursor <= from /\ from <= said /\ from \in 0..Max(Ends)
      /\ from # cursor => from = off /\ from > cursor /\ MessageStart(off) = cursor
    BY <1>1 DEF BatchFrom, Within
<1>3. MessageStart(from + 1) = cursor
    <2>1. /\ MessageStart(from + 1) \in {0} \cup Ends /\ MessageStart(from + 1) < from + 1
          /\ \A e \in Ends : e < from + 1 => e <= MessageStart(from + 1)
        BY <1>2, StartOfMessage
    <2>2. CASE from = cursor
        BY <1>1, <2>1, <2>2, LastEnd
    <2>3. CASE from # cursor
        <3>1. from \notin Ends /\ from > 0
            BY <1>1, <1>2, <2>3 DEF Within
        <3>2. \A e \in Ends : e < from => e <= cursor
            BY <1>2, <2>3, StartOfMessage
        <3>3. MessageStart(from + 1) <= cursor
            BY <1>1, <1>2, <2>1, <3>1, <3>2, LastEnd
        <3>4. cursor <= MessageStart(from + 1)
            BY <1>1, <1>2, <2>1, LastEnd
        <3> QED BY <1>1, <2>1, <3>3, <3>4, LastEnd
    <2> QED BY <2>2, <2>3
<1>4. ASSUME cursor < said
      PROVE  from < BatchTo(from) /\ BatchTo(from) <= said /\ BatchTo(from) \in 1..Max(Ends)
    <2>1. from < said
        BY <1>1, <1>2, <1>4 DEF Within
    <2>2. from + Budget \in Nat
        BY <1>1, <1>2
    <2>3. BatchTo(from) = IF from + Budget <= said THEN from + Budget ELSE said
        BY <1>1, <2>2, LessOfTwo DEF BatchTo
    <2> HIDE DEF from
    <2> QED BY <1>1, <1>2, <2>1, <2>3
<1> HIDE DEF from
<1> QED BY <1>2, <1>3, <1>4 DEF from

-----------------------------------------------------------------------------
(* Types.                                                                  *)

Points == {"idle", "resetting", "looked", "peeked", "claimed", "ready", "calling", "answered",
           "ending"}

JobRows == [window : Windows \cup {None}, tries : 0..MaxAttempts,
            status : {"ready", "running", "retry", "exhausted", "done"},
            unknown : BOOLEAN, holder : Callers \cup {None}, live : BOOLEAN]

Mems == [window : Windows \cup {None}, seen : Windows \cup {None}, tries : 0..MaxAttempts,
         receipt : Receipts, offset : 0..Max(Ends), from : 0..Max(Ends), to : 0..Max(Ends),
         result : Results \cup {"none"}]

\* A row that is running is held, and a lease is somebody's.
HeldRuns(r) ==
    /\ r.live => r.holder # None
    /\ r.status = "running" => r.holder # None
    /\ r.holder # None => r.status \in {"running", "ready"}

\* Only a reset that was outdated leaves a row ready that is held.
ReadyIsFree == row.status = "ready" /\ row.holder # None => "reset" \in overtaken

LEMMA ExtractionTyped ==
    ExtractionTypeOK <=>
      /\ said \in {0} \cup Ends /\ cursor \in {0} \cup Ends
      /\ config \in 0..MaxTrouble /\ offset \in 0..Max(Ends)
      /\ row \in JobRows /\ HeldRuns(row) /\ ReadyIsFree
      /\ receipt \in Receipts
      /\ pc \in [Callers -> Points] /\ mem \in [Callers -> Mems]
      /\ stored \in [Units -> 0..2] /\ sent \in [Units -> 0..2]
      /\ overtaken \subseteq {"window", "row", "reset"} /\ trouble \in 0..MaxTrouble
<1>1. ASSUME row \in JobRows
      PROVE  /\ row.live => row.holder # None
             /\ row.status = "running" => row.holder # None
             /\ row.holder # None =>
                  row.status = "running" \/ (row.status = "ready" /\ "reset" \in overtaken)
             <=> HeldRuns(row) /\ ReadyIsFree
    BY DEF HeldRuns, ReadyIsFree
<1> QED BY <1>1 DEF ExtractionTypeOK, JobRows, Points, Mems

LEMMA ReceiptFacts ==
    /\ NoReceipt \in Receipts /\ NoReceipt.phase = "none"
    /\ \A r \in Receipts :
         /\ r.phase \in {"none", "started", "received"} /\ (r.phase = "none" => r = NoReceipt)
         /\ r.phase # "none" => /\ r.window \in Windows
                                /\ r.from \in 0..Max(Ends) /\ r.to \in 1..Max(Ends)
                                /\ r.to \in 0..Max(Ends)
    /\ \A p \in {"started", "received"}, w \in Windows, f \in 0..Max(Ends), t \in 1..Max(Ends) :
         [phase |-> p, window |-> w, from |-> f, to |-> t] \in Receipts
<1> DEFINE Real == [phase : {"started", "received"}, window : Windows,
                    from : 0..Max(Ends), to : 1..Max(Ends)]
<1>1. Receipts = {NoReceipt} \cup Real
    BY DEF Receipts
<1>2. NoReceipt.phase = "none"
    BY DEF NoReceipt
<1>3. 1..Max(Ends) \subseteq 0..Max(Ends)
    OBVIOUS
<1> QED BY <1>1, <1>2, <1>3

LEMMA AnswerNoted ==
    ASSUME NEW r \in Receipts, r.phase = "started"
    PROVE  LET note == [r EXCEPT !.phase = "received"] IN
           /\ note \in Receipts /\ note.phase = "received" /\ note.window = r.window
           /\ note.from = r.from /\ note.to = r.to
BY DEF Receipts, NoReceipt

LEMMA NoMemIsMem ==
    /\ NoMem \in Mems /\ NoMem.receipt = NoReceipt /\ NoMem.offset = 0
    /\ \A w \in Windows : /\ [NoMem EXCEPT !.window = w] \in Mems
                          /\ [NoMem EXCEPT !.window = w].window = w
                          /\ [NoMem EXCEPT !.window = w].receipt = NoReceipt
                          /\ [NoMem EXCEPT !.window = w].offset = 0
    /\ \A r \in Results : /\ [NoMem EXCEPT !.result = r] \in Mems
                          /\ [NoMem EXCEPT !.result = r].receipt = NoReceipt
                          /\ [NoMem EXCEPT !.result = r].offset = 0
                          /\ [NoMem EXCEPT !.result = r].result = r
<1>1. 0 \in 0..Max(Ends) /\ 0 \in 0..MaxAttempts
    BY LastEnd, ExtractionAssumption
<1>2. NoReceipt \in Receipts
    BY ReceiptFacts
<1>3. NoMem \in Mems /\ NoMem.receipt = NoReceipt /\ NoMem.offset = 0
    BY <1>1, <1>2 DEF NoMem, Mems
<1> HIDE DEF NoMem
<1> QED BY <1>3 DEF Mems

-----------------------------------------------------------------------------
(* What the steps of a pass do.                                            *)

\* What TextKnown and PassesKnow say of one pass.
Knows(at, m) ==
    /\ Within(m.offset) /\ Frozen(m.receipt)
    /\ at \in {"ready", "calling", "answered"} => m.from < m.to /\ m.to <= said
    /\ at \in {"looked", "peeked", "claimed", "ready", "calling", "answered"}
         => m.window \in Windows
    /\ at \in {"calling", "answered"} =>
         /\ m.receipt.phase = IF at = "calling" THEN "started" ELSE "received"
         /\ m.receipt.window = m.window
         /\ m.receipt.from = m.from /\ m.receipt.to = m.to

LEMMA EachKnows ==
    TextKnown /\ PassesKnow <=>
      /\ Within(offset) /\ Frozen(receipt) /\ cursor <= said /\ config <= trouble
      /\ \A c \in Callers : Knows(pc[c], mem[c])
BY DEF TextKnown, PassesKnow, Knows

Elsewhere == UNCHANGED <<said, config, cursor, stored>>

\* It moves on by itself: away from the row, or with what it read there.
Moves(c) ==
    \E at \in Points, m \in Mems :
        /\ Goto(c, at, m) /\ Knows(at, m)
        /\ \/ at \in {"idle", "resetting", "looked", "peeked", "ending"}
           \/ /\ pc[c] = "claimed" /\ m.offset = mem[c].offset /\ m.receipt = mem[c].receipt
              /\ m.window = mem[c].window
              /\ \/ at = "answered" /\ m.receipt.phase # "none"
                 \/ at = "ready" /\ ~OwnReceipt(c) /\ m.from = BatchFrom(cursor, mem[c].offset)
        /\ Elsewhere /\ UNCHANGED <<row, receipt, offset, sent, overtaken>>
        /\ trouble' \in 0..MaxTrouble /\ trouble <= trouble'

\* It claims the row.
Claims(c) ==
    \E m \in Mems :
        /\ Goto(c, "claimed", m) /\ Knows("claimed", m)
        /\ m.offset = mem[c].offset /\ m.receipt = mem[c].receipt
        /\ m.window = mem[c].window
        /\ row' \in JobRows /\ HeldRuns(row') /\ row'.holder = c /\ row'.status = "running"
        /\ overtaken' = overtaken \cup Outdated(c)
        /\ Elsewhere /\ UNCHANGED <<receipt, offset, sent, trouble>>

\* It writes what it knows to the checkpoint: its request, or the answer to it.
Writes(c) ==
    \E m \in Mems :
        /\ Fence(c) /\ m.receipt.phase # "none" /\ receipt' = m.receipt
        /\ offset' = mem[c].offset /\ m.offset = mem[c].offset /\ m.window = mem[c].window
        /\ m.from = mem[c].from /\ m.to = mem[c].to
        /\ \/ /\ pc[c] = "ready" /\ Goto(c, "calling", m) /\ Knows("calling", m)
              /\ sent' = CountBatch(sent, mem[c])
           \/ /\ pc[c] = "calling" /\ Goto(c, "answered", m) /\ Knows("answered", m)
              /\ UNCHANGED sent
        /\ Elsewhere /\ UNCHANGED <<row, overtaken, trouble>>

\* It stores the memories.
Stores(c) ==
    \E m \in Mems :
        /\ Fence(c) /\ pc[c] = "answered" /\ Goto(c, "ending", m) /\ Knows("ending", m)
        /\ cursor' = LET whole == {e \in Ends : mem[c].from < e /\ e <= mem[c].to}
                     IN IF whole = {} THEN cursor ELSE Max(whole)
        /\ offset' = IF mem[c].to \in Ends THEN 0 ELSE mem[c].to
        /\ receipt' = NoReceipt /\ stored' = CountBatch(stored, mem[c])
        /\ UNCHANGED <<said, config, row, sent, overtaken, trouble>>

\* It lets go of the row, if it has it.
LetsGo(c) ==
    /\ Goto(c, "idle", NoMem) /\ Knows("idle", NoMem)
    /\ row' \in JobRows /\ HeldRuns(row')
    /\ row' = row \/ row'.holder = None
    /\ Elsewhere /\ UNCHANGED <<receipt, offset, sent, overtaken, trouble>>

LEMMA WindowTyped ==
    ASSUME ExtractionTypeOK PROVE WindowNow \in Windows
<1>1. receipt \in Receipts /\ cursor \in 0..Max(Ends) /\ offset \in 0..Max(Ends)
      /\ config \in 0..MaxTrouble
    BY LastEnd DEF ExtractionTypeOK
<1>2. CASE receipt.phase = "none"
    BY <1>1, <1>2 DEF WindowNow, Windows
<1>3. CASE receipt.phase # "none"
    BY <1>1, <1>3, ReceiptFacts DEF WindowNow
<1> QED BY <1>2, <1>3

LEMMA ZeroIsWithin ==
    ASSUME ExtractionTypeOK PROVE Within(0) /\ Frozen(NoReceipt)
BY LastEnd, ReceiptFacts DEF ExtractionTypeOK, Within, Frozen

LEMMA AwayKnows ==
    ASSUME ExtractionTypeOK
    PROVE  /\ Knows("idle", NoMem)
           /\ \A r \in Results : Knows("ending", [NoMem EXCEPT !.result = r])
           /\ \A w \in Windows : Knows("looked", [NoMem EXCEPT !.window = w])
<1> HIDE DEF NoMem
<1> QED BY NoMemIsMem, ZeroIsWithin DEF Knows

LEMMA Away ==
    ASSUME ExtractionTypeOK, NEW c \in Callers,
           Leave(c) \/ \E r \in Results : End(c, r),
           Elsewhere, UNCHANGED <<row, receipt, offset, sent, overtaken>>,
           UNCHANGED trouble \/ Trouble(1)
    PROVE  Moves(c)
<1>1. trouble' \in 0..MaxTrouble /\ trouble <= trouble'
    <2>1. trouble \in 0..MaxTrouble
        BY DEF ExtractionTypeOK
    <2> QED BY <2>1, ExtractionAssumption DEF Trouble
<1>2. CASE Leave(c)
    BY <1>1, <1>2, AwayKnows, NoMemIsMem DEF Moves, Leave, Points
<1>3. CASE \E r \in Results : End(c, r)
    <2>1. PICK r \in Results : End(c, r)
        BY <1>3
    <2>2. [NoMem EXCEPT !.result = r] \in Mems /\ Knows("ending", [NoMem EXCEPT !.result = r])
        BY AwayKnows, NoMemIsMem
    <2> QED BY <1>1, <2>1, <2>2 DEF Moves, End, Points
<1> QED BY <1>2, <1>3

\* A pass goes on without the row: it looks, peeks or gives up.
LEMMA QuietSteps ==
    ASSUME ExtractionInv, NEW c \in Callers,
           \/ Look(c) \/ Refused(c) \/ \E force \in BOOLEAN : Peek(c, force)
           \/ SwitchedOff(c) \/ NothingNew(c) \/ OutcomeUnknown(c) \/ Blocked(c) \/ NoAnswer(c)
           \/ ApplyFails(c) \/ ApplyRefused(c) \/ ResetCheck(c) \/ Crash(c)
    PROVE  Moves(c)
<1>1. ExtractionTypeOK /\ trouble \in 0..MaxTrouble /\ trouble <= trouble
    BY DEF ExtractionInv, ExtractionTypeOK
<1>2. CASE Look(c)
    <2>1. WindowNow \in Windows
        BY <1>1, WindowTyped
    <2>2. /\ [NoMem EXCEPT !.window = WindowNow] \in Mems
          /\ Knows("looked", [NoMem EXCEPT !.window = WindowNow])
        BY <1>1, <2>1, AwayKnows, NoMemIsMem
    <2> QED BY <1>1, <1>2, <2>2 DEF Look, Moves, Elsewhere, Points
<1>3. CASE \E force \in BOOLEAN : Peek(c, force)
    <2>1. PICK force \in BOOLEAN : Peek(c, force)
        BY <1>3
    <2> DEFINE n == [mem[c] EXCEPT !.seen = row.window, !.tries = row.tries,
                                   !.receipt = receipt, !.offset = offset]
    <2>2. /\ mem[c] \in Mems /\ row.window \in Windows \cup {None} /\ row.tries \in 0..MaxAttempts
          /\ receipt \in Receipts /\ offset \in 0..Max(Ends)
        BY <1>1, ExtractionTyped DEF JobRows
    <2>3. /\ n \in Mems /\ n.window = mem[c].window /\ n.seen = row.window
          /\ n.tries = row.tries /\ n.receipt = receipt /\ n.offset = offset
        BY <2>2 DEF Mems
    <2>4. Within(offset) /\ Frozen(receipt) /\ mem[c].window \in Windows
        BY <2>1 DEF Peek, ExtractionInv, TextKnown, PassesKnow
    <2>5. Goto(c, "peeked", n) /\ Elsewhere
          /\ UNCHANGED <<row, receipt, offset, sent, overtaken, trouble>>
        BY <2>1 DEF Peek, Elsewhere
    <2> HIDE DEF n
    <2>6. Knows("peeked", n)
        BY <2>3, <2>4 DEF Knows
    <2> QED BY <1>1, <2>3, <2>5, <2>6 DEF Moves, Points
<1>4. CASE Refused(c) \/ Crash(c)
    BY <1>1, <1>4, Away DEF Refused, Crash, Elsewhere
<1>5. CASE SwitchedOff(c) \/ NothingNew(c) \/ OutcomeUnknown(c)
    BY <1>1, <1>5, Away DEF SwitchedOff, NothingNew, OutcomeUnknown, Elsewhere, Results
<1>6. CASE Blocked(c) \/ NoAnswer(c) \/ ApplyFails(c) \/ ApplyRefused(c)
    BY <1>1, <1>6, Away DEF Blocked, NoAnswer, ApplyFails, ApplyRefused, Elsewhere, Results
<1>7. CASE ResetCheck(c)
    <2> DEFINE n == [NoMem EXCEPT !.receipt = receipt, !.offset = offset]
    <2>1. receipt \in Receipts /\ offset \in 0..Max(Ends)
        BY <1>1, ExtractionTyped
    <2>2. n \in Mems /\ n.receipt = receipt /\ n.offset = offset
        <3> HIDE DEF NoMem
        <3> QED BY <2>1, NoMemIsMem DEF Mems
    <2>3. Within(offset) /\ Frozen(receipt)
        BY DEF ExtractionInv, TextKnown
    <2>4. Goto(c, "resetting", n) /\ Elsewhere
          /\ UNCHANGED <<row, receipt, offset, sent, overtaken, trouble>>
        BY <1>7 DEF ResetCheck, Elsewhere
    <2> HIDE DEF n
    <2>5. Knows("resetting", n)
        BY <2>2, <2>3 DEF Knows
    <2> QED BY <1>1, <2>2, <2>4, <2>5 DEF Moves, Points
<1> QED BY <1>2, <1>3, <1>4, <1>5, <1>6, <1>7

\* A pass that has the row chooses what to do with it.
LEMMA ClaimedSteps ==
    ASSUME ExtractionInv, NEW c \in Callers, UseAnswer(c) \/ Prepare(c)
    PROVE  Moves(c)
<1>1. /\ ExtractionTypeOK /\ trouble \in 0..MaxTrouble /\ trouble <= trouble
      /\ mem[c] \in Mems /\ mem[c].receipt \in Receipts /\ mem[c].offset \in 0..Max(Ends)
    <2>1. ExtractionTypeOK /\ mem[c] \in Mems
        BY ExtractionTyped DEF ExtractionInv
    <2> QED BY <2>1 DEF Mems, ExtractionTypeOK
<1>2. pc[c] = "claimed" /\ Pending /\ mem[c].window \in Windows
      /\ Within(mem[c].offset) /\ Frozen(mem[c].receipt) /\ cursor <= said
    BY DEF UseAnswer, Prepare, ExtractionInv, TextKnown, PassesKnow
<1>3. CASE UseAnswer(c) /\ ~Replayable(c)
    BY <1>1, <1>3, Away DEF UseAnswer, Elsewhere, Results
<1>4. CASE UseAnswer(c) /\ Replayable(c)
    <2> DEFINE n == [mem[c] EXCEPT !.from = mem[c].receipt.from, !.to = mem[c].receipt.to]
    <2>1. /\ mem[c].receipt.phase = "received" /\ mem[c].receipt.window = mem[c].window
          /\ Goto(c, "answered", n) /\ Elsewhere
          /\ UNCHANGED <<row, receipt, offset, sent, overtaken, trouble>>
        BY <1>4 DEF UseAnswer, OwnReceipt, Elsewhere
    <2>2. /\ mem[c].receipt.from \in 0..Max(Ends) /\ mem[c].receipt.to \in 1..Max(Ends)
          /\ mem[c].receipt.to \in 0..Max(Ends)
        BY <1>1, <2>1, ReceiptFacts
    <2>3. /\ n \in Mems /\ n.window = mem[c].window /\ n.receipt = mem[c].receipt
          /\ n.offset = mem[c].offset /\ n.from = mem[c].receipt.from /\ n.to = mem[c].receipt.to
        BY <1>1, <2>2 DEF Mems
    <2> HIDE DEF n
    <2>4. Knows("answered", n)
        BY <1>2, <2>1, <2>3 DEF Knows, Frozen
    <2> QED BY <1>1, <1>2, <2>1, <2>3, <2>4 DEF Moves, Points
<1>5. CASE Prepare(c)
    <2> DEFINE f == BatchFrom(cursor, mem[c].offset)
               n == [mem[c] EXCEPT !.from = f, !.to = BatchTo(f)]
    <2>1. /\ ~OwnReceipt(c) /\ Goto(c, "ready", n) /\ Elsewhere
          /\ UNCHANGED <<row, receipt, offset, sent, overtaken, trouble>>
        BY <1>5 DEF Prepare, Elsewhere
    <2>2. /\ f \in 0..Max(Ends) /\ BatchTo(f) \in 1..Max(Ends) /\ BatchTo(f) \in 0..Max(Ends)
          /\ f < BatchTo(f) /\ BatchTo(f) <= said
        BY <1>1, <1>2, BatchBounds DEF Pending
    <2>3. /\ n \in Mems /\ n.window = mem[c].window /\ n.receipt = mem[c].receipt
          /\ n.offset = mem[c].offset /\ n.from = f /\ n.to = BatchTo(f)
        BY <1>1, <2>2 DEF Mems
    <2> HIDE DEF n
    <2>4. Knows("ready", n)
        BY <1>2, <2>2, <2>3 DEF Knows
    <2> QED BY <1>1, <1>2, <2>1, <2>3, <2>4 DEF Moves, Points
<1> QED BY <1>3, <1>4, <1>5

LEMMA SwapSteps ==
    ASSUME ExtractionInv, NEW c \in Callers, Swap(c)
    PROVE  Moves(c) \/ Claims(c)
<1>1. /\ ExtractionTypeOK /\ mem[c] \in Mems /\ row \in JobRows /\ pc[c] = "peeked"
      /\ mem[c].window \in Windows /\ Within(mem[c].offset) /\ Frozen(mem[c].receipt)
    <2>1. ExtractionTypeOK /\ mem[c] \in Mems /\ row \in JobRows
        BY ExtractionTyped DEF ExtractionInv
    <2> QED BY <2>1 DEF Swap, ExtractionInv, TextKnown, PassesKnow
<1>2. CASE ~(~row.live /\ Unchanged(c))
    BY <1>1, <1>2, Away DEF Swap, Elsewhere
<1>3. CASE ~row.live /\ Unchanged(c)
    <2> DEFINE n == [mem[c] EXCEPT !.seen = None, !.tries = 0]
               r == [row EXCEPT !.window = mem[c].window, !.tries = NextTries(c),
                                !.status = "running", !.holder = c, !.live = TRUE]
    <2>1. /\ row' = r /\ Goto(c, "claimed", n) /\ overtaken' = overtaken \cup Outdated(c)
          /\ Elsewhere /\ UNCHANGED <<receipt, offset, sent, trouble>>
        BY <1>3 DEF Swap, Elsewhere
    <2>2. mem[c].tries \in 0..MaxAttempts /\ MaxAttempts \in Nat \ {0}
        BY <1>1, ExtractionAssumption DEF Mems
    <2>3. NextTries(c) \in 0..MaxAttempts
        BY <2>2 DEF NextTries
    <2>4. c # None
        BY ExtractionAssumption
    <2>5. r \in JobRows /\ r.holder = c /\ r.status = "running"
        BY <1>1, <2>3 DEF JobRows
    <2>6. 0 \in 0..MaxAttempts
        BY <2>2
    <2>7. n \in Mems /\ n.window = mem[c].window /\ n.receipt = mem[c].receipt
          /\ n.offset = mem[c].offset
        BY <1>1, <2>6 DEF Mems
    <2> HIDE DEF n, r
    <2>8. Knows("claimed", n)
        BY <1>1, <2>7 DEF Knows
    <2>9. HeldRuns(r)
        BY <2>4, <2>5 DEF HeldRuns
    <2> QED BY <2>1, <2>5, <2>7, <2>8, <2>9 DEF Claims
<1> QED BY <1>2, <1>3

\* The checkpoint is written only by the caller that has the row.
LEMMA WritingSteps ==
    ASSUME ExtractionInv, NEW c \in Callers, Reserve(c) \/ Answer(c)
    PROVE  Moves(c) \/ Writes(c)
<1>1. /\ ExtractionTypeOK /\ mem[c] \in Mems /\ mem[c].receipt \in Receipts
      /\ mem[c].from \in 0..Max(Ends) /\ mem[c].to \in 0..Max(Ends)
    <2>1. ExtractionTypeOK /\ mem[c] \in Mems
        BY ExtractionTyped DEF ExtractionInv
    <2> QED BY <2>1 DEF Mems
<1>2. /\ Within(mem[c].offset) /\ Frozen(mem[c].receipt) /\ mem[c].window \in Windows
      /\ mem[c].from < mem[c].to /\ mem[c].to <= said
    BY DEF Reserve, Answer, ExtractionInv, TextKnown, PassesKnow
<1>3. CASE Reserve(c) /\ ~Fence(c)
    BY <1>1, <1>3, Away DEF Reserve, Elsewhere, Results
<1>4. CASE Reserve(c) /\ Fence(c)
    <2> DEFINE note == [phase |-> "started", window |-> mem[c].window,
                        from |-> mem[c].from, to |-> mem[c].to]
               n == [mem[c] EXCEPT !.receipt = note]
    <2>1. /\ pc[c] = "ready" /\ Fence(c)
          /\ receipt' = note /\ offset' = mem[c].offset /\ sent' = CountBatch(sent, mem[c])
          /\ Goto(c, "calling", n) /\ Elsewhere /\ UNCHANGED <<row, overtaken, trouble>>
        BY <1>4 DEF Reserve, Elsewhere
    <2>2. mem[c].to \in 1..Max(Ends)
        BY <1>1, <1>2, LastEnd
    <2>3. /\ note \in Receipts /\ note.phase = "started" /\ note.window = mem[c].window
          /\ note.from = mem[c].from /\ note.to = mem[c].to
        BY <1>1, <1>2, <2>2, ReceiptFacts
    <2> HIDE DEF note
    <2>4. /\ n \in Mems /\ n.window = mem[c].window /\ n.receipt = note
          /\ n.offset = mem[c].offset /\ n.from = mem[c].from /\ n.to = mem[c].to
        BY <1>1, <2>3 DEF Mems
    <2> HIDE DEF n
    <2>5. Knows("calling", n)
        BY <1>2, <2>3, <2>4 DEF Knows, Frozen
    <2> QED BY <2>1, <2>3, <2>4, <2>5 DEF Writes
<1>5. CASE Answer(c)
    <2> DEFINE note == [mem[c].receipt EXCEPT !.phase = "received"]
               n == [mem[c] EXCEPT !.receipt = note]
    <2>1. /\ pc[c] = "calling" /\ Fence(c)
          /\ receipt' = note /\ offset' = mem[c].offset /\ UNCHANGED sent
          /\ Goto(c, "answered", n) /\ Elsewhere /\ UNCHANGED <<row, overtaken, trouble>>
        BY <1>5 DEF Answer, Elsewhere
    <2>2. /\ mem[c].receipt.phase = "started" /\ mem[c].receipt.window = mem[c].window
          /\ mem[c].receipt.from = mem[c].from /\ mem[c].receipt.to = mem[c].to
        BY <2>1 DEF ExtractionInv, PassesKnow
    <2>3. /\ note \in Receipts /\ note.phase = "received" /\ note.window = mem[c].window
          /\ note.from = mem[c].from /\ note.to = mem[c].to
        BY <1>1, <2>2, AnswerNoted
    <2> HIDE DEF note
    <2>4. /\ n \in Mems /\ n.window = mem[c].window /\ n.receipt = note
          /\ n.offset = mem[c].offset /\ n.from = mem[c].from /\ n.to = mem[c].to
        BY <1>1, <2>3 DEF Mems
    <2> HIDE DEF n
    <2>5. Knows("answered", n)
        BY <1>2, <2>3, <2>4 DEF Knows, Frozen
    <2> QED BY <2>1, <2>3, <2>4, <2>5 DEF Writes
<1> QED BY <1>3, <1>4, <1>5

LEMMA StoringSteps ==
    ASSUME ExtractionInv, NEW c \in Callers, Apply(c)
    PROVE  Stores(c)
<1>1. ExtractionTypeOK
    BY DEF ExtractionInv
<1>2. "ok" \in Results
    BY DEF Results
<1>3. [NoMem EXCEPT !.result = "ok"] \in Mems /\ Knows("ending", [NoMem EXCEPT !.result = "ok"])
    BY <1>1, <1>2, AwayKnows, NoMemIsMem
<1> QED BY <1>3 DEF Apply, Stores, End

LEMMA FinishingSteps ==
    ASSUME ExtractionInv, NEW c \in Callers, Finish(c)
    PROVE  LetsGo(c)
<1>1. ExtractionTypeOK /\ row \in JobRows /\ HeldRuns(row) /\ mem[c] \in Mems
    BY ExtractionTyped DEF ExtractionInv
<1>2. Goto(c, "idle", NoMem) /\ Knows("idle", NoMem)
      /\ Elsewhere /\ UNCHANGED <<receipt, offset, sent, overtaken, trouble>>
    BY <1>1, AwayKnows DEF Finish, Leave, Elsewhere
<1> DEFINE result == mem[c].result
           tries == IF result = "skipped" THEN 0 ELSE row.tries
           status == IF result \in {"ok", "unknown"} THEN "done"
                     ELSE IF tries >= MaxAttempts THEN "exhausted" ELSE "retry"
           r == [row EXCEPT !.tries = tries, !.unknown = result = "unknown",
                            !.holder = None, !.live = FALSE, !.status = status]
<1>3. row' = row \/ row' = r
    BY DEF Finish
<1>4. tries \in 0..MaxAttempts
    BY <1>1, ExtractionAssumption DEF JobRows
<1>5. status \in {"exhausted", "retry", "done"}
    OBVIOUS
<1>6. (result = "unknown") \in BOOLEAN
    OBVIOUS
<1> HIDE DEF tries, status, result
<1>7. r \in JobRows /\ r.holder = None /\ r.live = FALSE /\ r.status = status
    BY <1>1, <1>4, <1>5, <1>6 DEF JobRows
<1>8. HeldRuns(r)
    <2> HIDE DEF r
    <2> QED BY <1>5, <1>7 DEF HeldRuns
<1> HIDE DEF r
<1> QED BY <1>1, <1>2, <1>3, <1>7, <1>8 DEF LetsGo

LEMMA PassKinds ==
    ASSUME ExtractionInv, NEW c \in Callers, Pass(c) \/ ResetCheck(c) \/ Crash(c), ~Reset(c)
    PROVE  Moves(c) \/ Claims(c) \/ Writes(c) \/ Stores(c) \/ LetsGo(c)
<1>1. CASE \/ Look(c) \/ Refused(c) \/ \E force \in BOOLEAN : Peek(c, force)
           \/ SwitchedOff(c) \/ NothingNew(c) \/ OutcomeUnknown(c) \/ Blocked(c) \/ NoAnswer(c)
           \/ ApplyFails(c) \/ ApplyRefused(c) \/ ResetCheck(c) \/ Crash(c)
    BY <1>1, QuietSteps
<1>2. CASE UseAnswer(c) \/ Prepare(c)
    BY <1>2, ClaimedSteps
<1>3. CASE Swap(c) \/ Reserve(c) \/ Answer(c) \/ Apply(c) \/ Finish(c)
    BY <1>3, SwapSteps, WritingSteps, StoringSteps, FinishingSteps
<1> QED BY <1>1, <1>2, <1>3 DEF Pass

-----------------------------------------------------------------------------
(* How far the text is stored.                                             *)

\* A batch is stored up to its end, wherever that is in a message.
LEMMA StoredTo ==
    ASSUME ExtractionTypeOK, cursor <= said, Within(offset), NEW c \in Callers, Stores(c),
           mem[c].from < mem[c].to, mem[c].to <= said
    PROVE  /\ cursor' \in {0} \cup Ends /\ cursor' <= said /\ offset' \in 0..Max(Ends)
           /\ Within(offset')
           /\ mem[c].from = Reached => BatchFrom(cursor', offset') = mem[c].to
<1> DEFINE f == mem[c].from
           t == mem[c].to
           whole == {e \in Ends : f < e /\ e <= t}
<1>1. /\ f \in 0..Max(Ends) /\ t \in 0..Max(Ends) /\ f < t /\ t <= said
      /\ said \in 0..Max(Ends) /\ Max(Ends) \in Nat /\ offset \in 0..Max(Ends)
      /\ cursor \in {0} \cup Ends /\ cursor \in Nat /\ cursor <= said
    <2>1. mem[c] \in Mems
        BY ExtractionTyped
    <2> QED BY <2>1, LastEnd DEF Mems, ExtractionTypeOK
<1>2. /\ cursor' = IF whole = {} THEN cursor ELSE Max(whole)
      /\ offset' = IF t \in Ends THEN 0 ELSE t
    BY DEF Stores
<1>3. whole \in SUBSET Ends /\ \A e \in whole : f < e /\ e <= t
    OBVIOUS
<1>4. \A e \in Ends : f < e /\ e <= t => e \in whole
    OBVIOUS
<1> HIDE DEF f, t, whole
<1>5. whole # {} => Max(whole) \in whole /\ \A e \in whole : e <= Max(whole)
    BY <1>3, GreatestEnd
<1>6. /\ cursor' \in {0} \cup Ends /\ cursor' \in Nat /\ cursor' <= said
      /\ whole # {} => cursor' <= t
    BY <1>1, <1>2, <1>3, <1>5, LastEnd
<1>7. offset' \in 0..Max(Ends) /\ Within(offset')
    BY <1>1, <1>2, LastEnd DEF Within
<1>8. ASSUME f = Reached PROVE BatchFrom(cursor', offset') = t
    <2>1. cursor <= f /\ MessageStart(f + 1) = cursor
        BY <1>1, <1>8, BatchBounds DEF Reached
    <2>2. \A e \in Ends : e <= f => e <= cursor
        <3> TAKE e \in Ends
        <3>1. e \in Nat /\ f + 1 \in Nat
            BY <1>1, LastEnd
        <3>2. e < f + 1 => e <= MessageStart(f + 1)
            BY <3>1, StartOfMessage
        <3> QED BY <1>1, <2>1, <3>1, <3>2
    <2>3. CASE t \in Ends
        <3>1. t \in whole
            BY <1>1, <1>4, <2>3
        <3>2. Max(whole) \in whole /\ t <= Max(whole)
            BY <1>5, <3>1
        <3>3. cursor' = t
            BY <1>1, <1>2, <1>3, <3>1, <3>2, LastEnd
        <3> QED BY <1>1, <1>2, <2>3, <3>3 DEF BatchFrom
    <2>4. CASE t \notin Ends
        <3>1. cursor' < t
            BY <1>1, <1>2, <1>3, <1>5, <1>6, <2>1, <2>4
        <3>2. \A e \in Ends : e < t => e <= cursor'
            <4> TAKE e \in Ends
            <4> SUFFICES ASSUME e < t PROVE e <= cursor'
                OBVIOUS
            <4>1. e \in Nat
                BY LastEnd
            <4>2. CASE e <= f
                <5>1. e <= cursor
                    BY <2>2, <4>2
                <5>2. cursor <= cursor'
                    BY <1>1, <1>2, <1>3, <1>5, <2>1, LastEnd
                <5> QED BY <1>1, <1>6, <4>1, <5>1, <5>2
            <4>3. CASE ~(e <= f)
                <5>1. e \in whole
                    BY <1>1, <1>4, <4>1, <4>3
                <5> QED BY <1>2, <1>5, <5>1
            <4> QED BY <4>2, <4>3
        <3>3. MessageStart(t) \in {0} \cup Ends /\ MessageStart(t) < t
              /\ \A e \in Ends : e < t => e <= MessageStart(t)
            BY <1>1, StartOfMessage
        <3>4. MessageStart(t) <= cursor'
            BY <1>6, <3>2, <3>3
        <3>5. cursor' <= MessageStart(t)
            BY <1>6, <3>1, <3>3, LastEnd
        <3>6. MessageStart(t) = cursor'
            BY <1>6, <3>3, <3>4, <3>5, LastEnd
        <3> QED BY <1>1, <1>2, <1>6, <2>4, <3>1, <3>6 DEF BatchFrom
    <2> QED BY <2>3, <2>4
<1> QED BY <1>6, <1>7, <1>8 DEF f, t

-----------------------------------------------------------------------------
(* The steps of a pass, one by one.                                        *)

LEMMA GoneTo ==
    ASSUME pc \in [Callers -> Points], mem \in [Callers -> Mems], NEW c \in Callers,
           NEW at \in Points, NEW m \in Mems, Goto(c, at, m)
    PROVE  /\ pc' \in [Callers -> Points] /\ mem' \in [Callers -> Mems]
           /\ pc'[c] = at /\ mem'[c] = m
           /\ \A d \in Callers : d # c => pc'[d] = pc[d] /\ mem'[d] = mem[d]
BY DEF Goto

\* Where each kind of step goes, and with what.
LEMMA PassGoes ==
    ASSUME ExtractionInv, NEW c \in Callers,
           Moves(c) \/ Claims(c) \/ Writes(c) \/ Stores(c) \/ LetsGo(c)
    PROVE  \E at \in Points, m \in Mems : Goto(c, at, m) /\ Knows(at, m)
<1>1. CASE Moves(c)
    BY <1>1 DEF Moves
<1>2. CASE Claims(c) \/ Writes(c) \/ Stores(c)
    BY <1>2 DEF Claims, Writes, Stores, Points
<1>3. CASE LetsGo(c)
    BY <1>3, NoMemIsMem DEF LetsGo, Points
<1> QED BY <1>1, <1>2, <1>3

LEMMA PassTypes ==
    ASSUME ExtractionInv, NEW c \in Callers,
           Moves(c) \/ Claims(c) \/ Writes(c) \/ Stores(c) \/ LetsGo(c)
    PROVE  ExtractionTypeOK'
<1>1. /\ ExtractionTypeOK /\ row \in JobRows /\ HeldRuns(row) /\ ReadyIsFree
      /\ pc \in [Callers -> Points] /\ mem \in [Callers -> Mems]
    BY ExtractionTyped DEF ExtractionInv
<1>2. pc' \in [Callers -> Points] /\ mem' \in [Callers -> Mems]
    BY <1>1, PassGoes, GoneTo
<1>3. mem[c].offset \in 0..Max(Ends) /\ mem[c] \in Mems
    BY <1>1 DEF Mems
<1>4. row' \in JobRows /\ HeldRuns(row') /\ ReadyIsFree'
    BY <1>1 DEF Moves, Claims, Writes, Stores, LetsGo, ReadyIsFree
<1>5. /\ said' \in {0} \cup Ends /\ config' \in 0..MaxTrouble /\ trouble' \in 0..MaxTrouble
      /\ overtaken' \subseteq {"window", "row", "reset"}
    BY <1>1 DEF Moves, Claims, Writes, Stores, LetsGo, Elsewhere, ExtractionTypeOK, Outdated
<1>6. cursor' \in {0} \cup Ends /\ offset' \in 0..Max(Ends)
    <2>1. CASE Stores(c)
        <3>1. /\ cursor <= said /\ Within(offset) /\ mem[c].from < mem[c].to
              /\ mem[c].to <= said
            BY <2>1 DEF Stores, ExtractionInv, TextKnown
        <3> QED BY <1>1, <2>1, <3>1, StoredTo
    <2>2. CASE Moves(c) \/ Claims(c) \/ Writes(c) \/ LetsGo(c)
        BY <1>1, <1>3, <2>2 DEF Moves, Claims, Writes, LetsGo, Elsewhere, ExtractionTypeOK
    <2> QED BY <2>1, <2>2
<1>7. receipt' \in Receipts
    <2>1. CASE Writes(c)
        BY <2>1 DEF Writes, Mems
    <2>2. CASE Moves(c) \/ Claims(c) \/ Stores(c) \/ LetsGo(c)
        BY <1>1, <2>2, ReceiptFacts DEF Moves, Claims, Stores, LetsGo, ExtractionTypeOK
    <2> QED BY <2>1, <2>2
<1>8. stored' \in [Units -> 0..2] /\ sent' \in [Units -> 0..2]
    <2>1. stored \in [Units -> 0..2] /\ sent \in [Units -> 0..2]
        BY <1>1 DEF ExtractionTypeOK
    <2>2. CountBatch(stored, mem[c]) \in [Units -> 0..2]
          /\ CountBatch(sent, mem[c]) \in [Units -> 0..2]
        BY <2>1, CountRight
    <2> QED BY <2>1, <2>2 DEF Moves, Claims, Writes, Stores, LetsGo, Elsewhere
<1> QED BY <1>2, <1>4, <1>5, <1>6, <1>7, <1>8
    DEF ExtractionTypeOK, JobRows, HeldRuns, ReadyIsFree, Points, Mems

LEMMA PassIsKnown ==
    ASSUME ExtractionInv, NEW c \in Callers,
           Moves(c) \/ Claims(c) \/ Writes(c) \/ Stores(c) \/ LetsGo(c)
    PROVE  (TextKnown /\ PassesKnow)'
<1>1. /\ ExtractionTypeOK /\ pc \in [Callers -> Points] /\ mem \in [Callers -> Mems]
      /\ trouble \in 0..MaxTrouble /\ config \in 0..MaxTrouble /\ config <= trouble
      /\ \A d \in Callers : Knows(pc[d], mem[d])
      /\ Within(offset) /\ Frozen(receipt) /\ cursor <= said
    <2>1. /\ ExtractionTypeOK /\ pc \in [Callers -> Points] /\ mem \in [Callers -> Mems]
        BY ExtractionTyped DEF ExtractionInv
    <2> QED BY <2>1, EachKnows DEF ExtractionInv, ExtractionTypeOK
<1>2. PICK at \in Points, m \in Mems : Goto(c, at, m) /\ Knows(at, m)
    BY PassGoes
<1>3. \A d \in Callers : Knows(pc'[d], mem'[d])
    BY <1>1, <1>2, GoneTo
<1>4. said' = said
    BY DEF Moves, Claims, Writes, Stores, LetsGo, Elsewhere
<1>5. config' <= trouble'
    <2>1. config' = config
        BY DEF Moves, Claims, Writes, Stores, LetsGo, Elsewhere
    <2>2. trouble' = trouble \/ (trouble' \in 0..MaxTrouble /\ trouble <= trouble')
        BY DEF Moves, Claims, Writes, Stores, LetsGo
    <2> QED BY <1>1, <2>1, <2>2, ExtractionAssumption
<1>6. Within(offset') /\ cursor' <= said
    <2>1. CASE Stores(c)
        <3>1. mem[c].from < mem[c].to /\ mem[c].to <= said
            BY <2>1 DEF Stores, ExtractionInv, TextKnown
        <3> QED BY <1>1, <2>1, <3>1, StoredTo
    <2>2. CASE Writes(c)
        BY <1>1, <2>2 DEF Writes, Elsewhere, Knows
    <2>3. CASE Moves(c) \/ Claims(c) \/ LetsGo(c)
        BY <1>1, <2>3 DEF Moves, Claims, LetsGo, Elsewhere
    <2> QED BY <2>1, <2>2, <2>3
<1>7. Frozen(receipt')
    <2>1. CASE Writes(c)
        BY <2>1 DEF Writes, Knows
    <2>2. CASE Stores(c)
        BY <1>1, <2>2, ZeroIsWithin DEF Stores
    <2>3. CASE Moves(c) \/ Claims(c) \/ LetsGo(c)
        BY <1>1, <2>3 DEF Moves, Claims, LetsGo
    <2> QED BY <2>1, <2>2, <2>3
<1> QED BY <1>3, <1>4, <1>5, <1>6, <1>7 DEF TextKnown, PassesKnow, Knows, Within, Frozen

\* What the rows say of the text, and the holder of the rows.
Accounts ==
    /\ EachPartOnce
    /\ Fresh => HolderKnows /\ RequestIsNext
    /\ overtaken = {} => WindowsAgree /\ PaidSoFar

\* A step of one caller that takes the row for itself or leaves it alone makes nobody
\* else its holder.
LEMMA OnlyHolder ==
    ASSUME ExtractionInv, NEW c \in Callers, NEW at \in Points, NEW m \in Mems,
           Goto(c, at, m), row'.holder = c \/ row' = row
    PROVE  /\ \A d \in Callers : d # c /\ Holds(d)' =>
                Holds(d) /\ row' = row /\ mem'[d] = mem[d] /\ pc'[d] = pc[d]
           /\ pc'[c] = at /\ mem'[c] = m
<1>1. /\ pc \in [Callers -> Points] /\ mem \in [Callers -> Mems]
    BY ExtractionTyped DEF ExtractionInv
<1> QED BY <1>1, GoneTo DEF Holds

LEMMA MovesKeep ==
    ASSUME ExtractionInv, NEW c \in Callers, Moves(c)
    PROVE  Accounts'
<1>1. PICK at \in Points, m \in Mems :
        /\ Goto(c, at, m) /\ Knows(at, m)
        /\ \/ at \in {"idle", "resetting", "looked", "peeked", "ending"}
           \/ /\ pc[c] = "claimed" /\ m.offset = mem[c].offset /\ m.receipt = mem[c].receipt
              /\ m.window = mem[c].window
              /\ \/ at = "answered" /\ m.receipt.phase # "none"
                 \/ at = "ready" /\ ~OwnReceipt(c) /\ m.from = BatchFrom(cursor, mem[c].offset)
        /\ Elsewhere /\ UNCHANGED <<row, receipt, offset, sent, overtaken>>
    BY DEF Moves
<1>2. /\ \A d \in Callers : d # c /\ Holds(d)' =>
           Holds(d) /\ mem'[d] = mem[d] /\ pc'[d] = pc[d]
      /\ pc'[c] = at /\ mem'[c] = m
    BY <1>1, OnlyHolder
<1>3. UNCHANGED <<cursor, stored, row, receipt, offset, sent, overtaken>>
    BY <1>1 DEF Elsewhere
<1>4. Reached' = Reached /\ EachPartOnce' /\ Fresh' = Fresh
    BY <1>3 DEF ExtractionInv, EachPartOnce, Reached, BatchFrom, Fresh
<1>5. Holds(c)' => Holds(c) /\ at \in {"answered", "ready"} /\ pc[c] = "claimed"
    BY <1>1, <1>2, <1>3 DEF Holds
<1>6. ASSUME Fresh PROVE HolderKnows' /\ RequestIsNext'
    <2>1. HolderKnows /\ RequestIsNext
        BY <1>6 DEF ExtractionInv
    <2>2. RequestIsNext'
        BY <1>3, <1>4, <2>1 DEF RequestIsNext
    <2>3. \A d \in Callers : d # c /\ Holds(d)' =>
            /\ mem'[d].offset = offset' /\ mem'[d].receipt = receipt'
            /\ pc'[d] # "claimed" => mem'[d].from = Reached'
        BY <1>2, <1>3, <1>4, <2>1 DEF HolderKnows
    <2>4. Holds(c)' =>
            /\ m.offset = offset /\ m.receipt = receipt /\ m.from = Reached
        BY <1>1, <1>5, <2>1 DEF HolderKnows, RequestIsNext, Knows, Reached
    <2> QED BY <1>2, <1>3, <1>4, <2>2, <2>3, <2>4 DEF HolderKnows
<1>7. ASSUME overtaken = {} PROVE WindowsAgree' /\ PaidSoFar'
    <2>1. WindowsAgree /\ PaidSoFar /\ HolderKnows
        BY <1>7 DEF ExtractionInv, Fresh
    <2>2. PaidSoFar'
        BY <1>3, <1>4, <2>1 DEF PaidSoFar
    <2>3. \A d \in Callers : d # c /\ Holds(d)' /\ receipt'.phase # "none" =>
            mem'[d].window = receipt'.window /\ pc'[d] # "ready"
        BY <1>2, <1>3, <2>1 DEF WindowsAgree
    <2>4. Holds(c)' /\ receipt.phase # "none" => m.window = receipt.window /\ at # "ready"
        BY <1>1, <1>5, <2>1 DEF WindowsAgree, HolderKnows, OwnReceipt
    <2> QED BY <1>2, <1>3, <2>2, <2>3, <2>4 DEF WindowsAgree
<1> QED BY <1>3, <1>4, <1>6, <1>7 DEF Accounts

LEMMA ClaimsKeep ==
    ASSUME ExtractionInv, NEW c \in Callers, Claims(c)
    PROVE  Accounts'
<1>1. PICK m \in Mems :
        /\ Goto(c, "claimed", m)
        /\ m.offset = mem[c].offset /\ m.receipt = mem[c].receipt /\ m.window = mem[c].window
        /\ row'.holder = c /\ overtaken' = overtaken \cup Outdated(c)
        /\ Elsewhere /\ UNCHANGED <<receipt, offset, sent>>
    BY DEF Claims
<1>2. \A d \in Callers : Holds(d)' => d = c
    BY <1>1 DEF Holds
<1>3. pc'[c] = "claimed" /\ mem'[c] = m
    <2>1. "claimed" \in Points
        BY DEF Points
    <2> QED BY <1>1, <2>1, OnlyHolder
<1>4. UNCHANGED <<cursor, stored, receipt, offset, sent, config>>
    BY <1>1 DEF Elsewhere
<1>5. Reached' = Reached /\ EachPartOnce' /\ (Fresh' => Fresh)
    BY <1>1, <1>4 DEF ExtractionInv, EachPartOnce, Reached, BatchFrom, Fresh
<1>6. ASSUME Fresh' PROVE HolderKnows' /\ RequestIsNext'
    <2>1. HolderKnows /\ RequestIsNext
        BY <1>5, <1>6 DEF ExtractionInv
    <2>2. m.offset = offset /\ m.receipt = receipt
        BY <1>1, <1>6 DEF Fresh, Outdated
    <2> QED BY <1>2, <1>3, <1>4, <1>5, <2>1, <2>2 DEF HolderKnows, RequestIsNext
<1>7. ASSUME overtaken' = {} PROVE WindowsAgree' /\ PaidSoFar'
    <2>1. overtaken = {} /\ WindowsAgree /\ PaidSoFar
        BY <1>1, <1>7 DEF ExtractionInv
    <2>2. m.window = WindowNow
        BY <1>1, <1>7 DEF Outdated
    <2>3. PaidSoFar'
        BY <1>4, <1>5, <2>1 DEF PaidSoFar
    <2> QED BY <1>2, <1>3, <1>4, <2>2, <2>3 DEF WindowsAgree, WindowNow
<1> QED BY <1>5, <1>6, <1>7 DEF Accounts

LEMMA LetsGoKeeps ==
    ASSUME ExtractionInv, NEW c \in Callers, LetsGo(c)
    PROVE  Accounts'
<1>1. /\ pc \in [Callers -> Points] /\ mem \in [Callers -> Mems] /\ "idle" \in Points
    BY ExtractionTyped DEF ExtractionInv, Points
<1>2. /\ UNCHANGED <<cursor, stored, receipt, offset, sent, overtaken>>
      /\ Goto(c, "idle", NoMem) /\ (row' = row \/ row'.holder = None)
    BY DEF LetsGo, Elsewhere
<1>3. \A d \in Callers : Holds(d)' => Holds(d) /\ mem'[d] = mem[d] /\ pc'[d] = pc[d]
    <2>1. /\ pc'[c] = "idle"
          /\ \A d \in Callers : d # c => pc'[d] = pc[d] /\ mem'[d] = mem[d]
        BY <1>1, <1>2, NoMemIsMem, GoneTo
    <2>2. None \notin Callers
        BY ExtractionAssumption
    <2> QED BY <1>2, <2>1, <2>2 DEF Holds
<1>4. Reached' = Reached /\ EachPartOnce' /\ Fresh' = Fresh
    BY <1>2 DEF ExtractionInv, EachPartOnce, Reached, BatchFrom, Fresh
<1>5. Fresh => HolderKnows' /\ RequestIsNext'
    BY <1>2, <1>3, <1>4 DEF ExtractionInv, HolderKnows, RequestIsNext
<1>6. overtaken = {} => WindowsAgree' /\ PaidSoFar'
    BY <1>2, <1>3, <1>4 DEF ExtractionInv, WindowsAgree, PaidSoFar
<1> QED BY <1>2, <1>4, <1>5, <1>6 DEF Accounts

\* What the holder knows of the checkpoint when it writes to it.
LEMMA WriterKnows ==
    ASSUME ExtractionInv, NEW c \in Callers, Writes(c), Fresh
    PROVE  /\ mem[c].offset = offset /\ mem[c].receipt = receipt /\ mem[c].from = Reached
           /\ Reached' = Reached
<1>1. /\ row.holder = c /\ pc[c] \in {"ready", "calling"}
      /\ offset' = mem[c].offset /\ cursor' = cursor
    BY DEF Writes, Fence, Elsewhere
<1>2. mem[c].offset = offset /\ mem[c].receipt = receipt /\ mem[c].from = Reached
    BY <1>1 DEF ExtractionInv, HolderKnows, Holds
<1> QED BY <1>1, <1>2 DEF Reached, BatchFrom

\* The units of a request were not paid before, if no other was noted in the row.
LEMMA WritesPay ==
    ASSUME ExtractionInv, NEW c \in Callers, Writes(c), Fresh, PaidSoFar,
           pc[c] = "ready" => receipt.phase = "none"
    PROVE  PaidSoFar'
<1>1. /\ receipt'.phase # "none" /\ receipt'.to = mem[c].to
      /\ \/ pc[c] = "ready" /\ sent' = CountBatch(sent, mem[c])
         \/ pc[c] = "calling" /\ sent' = sent
    BY DEF Writes, Knows
<1>2. mem[c].receipt = receipt /\ mem[c].from = Reached /\ Reached' = Reached
    BY WriterKnows
<1>3. CASE pc[c] = "calling"
    <2>1. sent' = sent /\ receipt.to = mem[c].to
        BY <1>1, <1>2, <1>3 DEF ExtractionInv, PassesKnow
    <2> QED BY <1>1, <1>2, <2>1 DEF PaidSoFar
<1>4. CASE pc[c] = "ready"
    <2>1. receipt.phase = "none" /\ sent' = CountBatch(sent, mem[c])
        BY <1>1, <1>4
    <2>2. sent \in [Units -> 0..2] /\ mem[c] \in Mems
        BY ExtractionTyped DEF ExtractionInv
    <2>3. \A u \in Units : sent'[u] =
             IF u \in Batch(mem[c]) THEN IF sent[u] = 0 THEN 1 ELSE 2 ELSE sent[u]
        BY <2>1, <2>2, CountRight
    <2>4. /\ \A u \in Units : sent[u] <= 1 /\ (u > Reached => sent[u] = 0)
          /\ \A u \in Units : u \in Nat /\ sent[u] \in 0..2
          /\ mem[c].from \in Nat /\ mem[c].to \in Nat
        BY <2>1, <2>2 DEF PaidSoFar, Units, Mems
    <2>5. \A u \in Units : sent'[u] <= 1 /\ (u > Reached /\ sent'[u] # 0 => u <= mem[c].to)
        BY <1>2, <2>3, <2>4 DEF Batch
    <2> QED BY <1>1, <1>2, <2>5 DEF PaidSoFar
<1> QED BY <1>1, <1>3, <1>4

LEMMA WritesKeep ==
    ASSUME ExtractionInv, NEW c \in Callers, Writes(c)
    PROVE  Accounts'
<1>1. PICK m \in Mems, at \in {"calling", "answered"} :
        /\ Fence(c) /\ m.receipt.phase # "none" /\ receipt' = m.receipt
        /\ offset' = mem[c].offset /\ m.offset = mem[c].offset
        /\ m.from = mem[c].from /\ m.to = mem[c].to
        /\ Goto(c, at, m) /\ Knows(at, m)
        /\ \/ pc[c] = "ready" /\ sent' = CountBatch(sent, mem[c])
           \/ pc[c] = "calling" /\ sent' = sent
        /\ Elsewhere /\ UNCHANGED <<row, overtaken>>
    BY DEF Writes
<1>2. Holds(c) /\ pc[c] # "claimed"
    BY <1>1 DEF Holds, Fence
<1>3. \A d \in Callers : Holds(d)' => d = c
    BY <1>1 DEF Holds, Fence
<1>4. pc'[c] = at /\ mem'[c] = m
    <2>1. at \in Points
        BY DEF Points
    <2> QED BY <1>1, <2>1, OnlyHolder
<1>5. UNCHANGED <<cursor, stored, overtaken>>
    BY <1>1 DEF Elsewhere
<1>6. m.receipt.window = m.window /\ m.receipt.from = m.from /\ m.receipt.to = m.to
    BY <1>1 DEF Knows
<1>7. Fresh' = Fresh
    BY <1>5 DEF Fresh
<1>8. ASSUME Fresh
      PROVE  /\ mem[c].offset = offset /\ mem[c].receipt = receipt /\ mem[c].from = Reached
             /\ Reached' = Reached
    BY <1>8, WriterKnows
<1>9. EachPartOnce'
    BY <1>5, <1>8 DEF ExtractionInv, EachPartOnce, Fresh
<1>10. ASSUME Fresh PROVE HolderKnows' /\ RequestIsNext'
    BY <1>1, <1>3, <1>4, <1>6, <1>8, <1>10 DEF HolderKnows, RequestIsNext
<1>11. ASSUME overtaken = {} PROVE WindowsAgree' /\ PaidSoFar'
    <2>1. Fresh /\ WindowsAgree /\ PaidSoFar
        BY <1>11 DEF ExtractionInv, Fresh
    <2>2. WindowsAgree'
        BY <1>1, <1>3, <1>4, <1>6 DEF WindowsAgree
    <2>3. pc[c] = "ready" => receipt.phase = "none"
        BY <1>2, <2>1 DEF WindowsAgree
    <2>4. PaidSoFar'
        BY <2>1, <2>3, WritesPay
    <2> QED BY <2>2, <2>4
<1> QED BY <1>5, <1>7, <1>9, <1>10, <1>11 DEF Accounts

\* Beyond a batch that is stored nothing was paid.
LEMMA StoresPay ==
    ASSUME ExtractionInv, NEW c \in Callers, Stores(c), Fresh
    PROVE  /\ mem[c].from = Reached /\ Reached' = mem[c].to
           /\ PaidSoFar => PaidSoFar'
<1>1. /\ row.holder = c /\ pc[c] = "answered" /\ sent' = sent
    BY DEF Stores, Fence
<1>2. /\ ExtractionTypeOK /\ cursor <= said /\ Within(offset)
      /\ mem[c].from < mem[c].to /\ mem[c].to <= said /\ mem[c] \in Mems
      /\ mem[c].receipt.to = mem[c].to
    <2>1. mem[c] \in Mems
        BY ExtractionTyped DEF ExtractionInv
    <2> QED BY <1>1, <2>1 DEF ExtractionInv, TextKnown, PassesKnow
<1>3. mem[c].from = Reached /\ mem[c].receipt = receipt
    BY <1>1 DEF ExtractionInv, HolderKnows, Holds
<1>4. Reached' = mem[c].to
    BY <1>2, <1>3, StoredTo DEF Reached
<1>5. ASSUME PaidSoFar PROVE PaidSoFar'
    <2>1. /\ mem[c].from \in Nat /\ mem[c].to \in Nat /\ \A u \in Units : u \in Nat
        BY <1>2 DEF Mems, Units
    <2>2. receipt.to = mem[c].to
        BY <1>2, <1>3
    <2>3. \A u \in Units : sent[u] <= 1 /\ (u > mem[c].to => sent[u] = 0)
        BY <1>2, <1>3, <1>5, <2>1, <2>2 DEF PaidSoFar
    <2> QED BY <1>1, <1>4, <2>3 DEF PaidSoFar
<1> QED BY <1>3, <1>4, <1>5

LEMMA StoresKeep ==
    ASSUME ExtractionInv, NEW c \in Callers, Stores(c)
    PROVE  Accounts'
<1>1. PICK m \in Mems :
        /\ Fence(c) /\ pc[c] = "answered" /\ Goto(c, "ending", m)
        /\ receipt' = NoReceipt /\ stored' = CountBatch(stored, mem[c])
        /\ UNCHANGED <<row, sent, overtaken>>
    BY DEF Stores
<1>2. Holds(c) /\ row.holder = c
    BY <1>1 DEF Holds, Fence
<1>3. \A d \in Callers : ~Holds(d)'
    <2>1. "ending" \in Points
        BY DEF Points
    <2>2. pc'[c] = "ending"
        BY <1>1, <2>1, OnlyHolder
    <2> QED BY <1>1, <1>2, <2>2 DEF Holds
<1>4. receipt'.phase = "none"
    BY <1>1, ReceiptFacts
<1>5. HolderKnows' /\ RequestIsNext' /\ WindowsAgree'
    BY <1>3, <1>4 DEF HolderKnows, RequestIsNext, WindowsAgree
<1>6. Fresh' = Fresh
    BY <1>1 DEF Fresh
<1>7. ExtractionTypeOK /\ mem[c].from < mem[c].to /\ mem[c] \in Mems
    <2>1. mem[c] \in Mems
        BY ExtractionTyped DEF ExtractionInv
    <2> QED BY <1>1, <2>1 DEF ExtractionInv, TextKnown
<1>8. ASSUME Fresh PROVE mem[c].from = Reached /\ Reached' = mem[c].to
    BY <1>8, StoresPay
<1>9. /\ mem[c].from \in Nat /\ mem[c].to \in Nat /\ \A u \in Units : u \in Nat
    BY <1>7 DEF Mems, Units
<1>10. EachPartOnce'
    <2> SUFFICES ASSUME Fresh PROVE \A u \in Units : stored'[u] = IF u <= mem[c].to THEN 1 ELSE 0
        BY <1>1, <1>8 DEF EachPartOnce, Fresh
    <2>1. stored \in [Units -> 0..2]
        BY <1>7 DEF ExtractionTypeOK
    <2>2. \A u \in Units : stored'[u] =
             IF u \in Batch(mem[c]) THEN IF stored[u] = 0 THEN 1 ELSE 2 ELSE stored[u]
        BY <1>1, <2>1, CountRight
    <2>3. \A u \in Units : stored[u] = IF u <= mem[c].from THEN 1 ELSE 0
        BY <1>8 DEF ExtractionInv, EachPartOnce, Fresh
    <2> QED BY <1>7, <1>9, <2>2, <2>3 DEF Batch
<1>11. overtaken = {} => PaidSoFar'
    BY StoresPay DEF ExtractionInv, Fresh
<1> QED BY <1>1, <1>5, <1>6, <1>10, <1>11 DEF Accounts

LEMMA PassKeeps ==
    ASSUME ExtractionInv, NEW c \in Callers, Pass(c) \/ ResetCheck(c) \/ Crash(c), ~Reset(c)
    PROVE  ExtractionInv'
<1>1. Moves(c) \/ Claims(c) \/ Writes(c) \/ Stores(c) \/ LetsGo(c)
    BY PassKinds
<1>2. ExtractionTypeOK' /\ (TextKnown /\ PassesKnow)'
    BY <1>1, PassTypes, PassIsKnown
<1>3. Accounts'
    BY <1>1, MovesKeep, ClaimsKeep, WritesKeep, StoresKeep, LetsGoKeeps
<1> QED BY <1>2, <1>3 DEF ExtractionInv, Accounts

-----------------------------------------------------------------------------
(* The steps around the passes.                                            *)

\* A reset that finds what it checked.
Rightly(c) == Resettable /\ mem[c].receipt = receipt /\ mem[c].offset = offset

\* A person who allows another request allows it for the units of the one before.
LEMMA ResetPays ==
    ASSUME ExtractionInv, NEW c \in Callers, Reset(c), Rightly(c), Fresh, PaidSoFar
    PROVE  PaidSoFar'
<1>1. /\ receipt.phase = "started" /\ receipt.from = Reached /\ Reached' = Reached
      /\ sent' = [u \in Units |-> IF u \in Batch(receipt) THEN 0 ELSE sent[u]]
    BY DEF Reset, Rightly, Resettable, ExtractionInv, RequestIsNext, Reached, BatchFrom
<1>2. receipt.from \in Nat /\ receipt.to \in Nat /\ \A u \in Units : u \in Nat
    <2>1. receipt \in Receipts
        BY DEF ExtractionInv, ExtractionTypeOK
    <2> QED BY <1>1, <2>1, ReceiptFacts DEF Units
<1>3. \A u \in Units : sent'[u] <= 1 /\ (u > Reached => sent'[u] = 0)
    BY <1>1, <1>2 DEF PaidSoFar, Batch
<1> QED BY <1>1, <1>3 DEF PaidSoFar

LEMMA ResetTypes ==
    ASSUME ExtractionInv, NEW c \in Callers, Reset(c)
    PROVE  ExtractionTypeOK' /\ (TextKnown /\ PassesKnow)'
<1>1. /\ ExtractionTypeOK /\ row \in JobRows /\ HeldRuns(row) /\ ReadyIsFree
      /\ pc \in [Callers -> Points] /\ mem \in [Callers -> Mems] /\ "idle" \in Points
      /\ mem[c] \in Mems /\ overtaken \subseteq {"window", "row", "reset"}
      /\ \A d \in Callers : Knows(pc[d], mem[d])
    <2>1. /\ ExtractionTypeOK /\ row \in JobRows /\ HeldRuns(row) /\ ReadyIsFree
          /\ pc \in [Callers -> Points] /\ mem \in [Callers -> Mems]
          /\ overtaken \subseteq {"window", "row", "reset"}
        BY ExtractionTyped DEF ExtractionInv
    <2> QED BY <2>1, EachKnows DEF ExtractionInv, Points
<1> DEFINE r == [row EXCEPT !.window = None, !.tries = 0, !.status = "ready", !.unknown = FALSE]
<1>2. /\ row' = r /\ receipt' = NoReceipt /\ offset' = mem[c].offset
      /\ sent' = [u \in Units |-> IF u \in Batch(mem[c].receipt) THEN 0 ELSE sent[u]]
      /\ Goto(c, "idle", NoMem)
      /\ UNCHANGED <<said, config, cursor, stored, trouble>>
    BY DEF Reset, Leave
<1>3. 0 \in 0..MaxAttempts
    BY ExtractionAssumption
<1>4. r \in JobRows /\ r.holder = row.holder /\ r.live = row.live /\ r.status = "ready"
    BY <1>1, <1>3 DEF JobRows
<1> HIDE DEF r
<1>5. HeldRuns(row') /\ row' \in JobRows
    BY <1>1, <1>2, <1>4 DEF HeldRuns
<1>6. overtaken' = IF Rightly(c) THEN overtaken ELSE overtaken \cup {"reset"}
    BY DEF Reset, Rightly
<1>7. ReadyIsFree'
    <2>1. CASE Rightly(c)
        <3>1. row.status = "done"
            BY <2>1 DEF Rightly, Resettable
        <3>2. row.holder = None
            BY <1>1, <3>1 DEF HeldRuns
        <3> QED BY <1>2, <1>4, <3>2 DEF ReadyIsFree
    <2>2. CASE ~Rightly(c)
        BY <1>6, <2>2 DEF ReadyIsFree
    <2> QED BY <2>1, <2>2
<1>8. overtaken' \subseteq {"window", "row", "reset"}
    BY <1>1, <1>6
<1>9. offset' \in 0..Max(Ends) /\ Within(offset)' /\ Frozen(receipt)'
    BY <1>1, <1>2, ReceiptFacts DEF Mems, Knows, Within, Frozen
<1>10. sent' \in [Units -> 0..2]
    <2>1. sent \in [Units -> 0..2] /\ 0 \in 0..2
        BY <1>1 DEF ExtractionTypeOK
    <2> QED BY <1>2, <2>1
<1>11. /\ pc' \in [Callers -> Points] /\ mem' \in [Callers -> Mems]
       /\ \A d \in Callers : Knows(pc'[d], mem'[d])
    BY <1>1, <1>2, NoMemIsMem, AwayKnows, GoneTo
<1>12. ExtractionTypeOK'
    BY <1>1, <1>2, <1>5, <1>7, <1>8, <1>9, <1>10, <1>11, ReceiptFacts
       DEF ExtractionTypeOK, JobRows, HeldRuns, ReadyIsFree, Points, Mems
<1>13. (TextKnown /\ PassesKnow)'
    BY <1>2, <1>9, <1>11 DEF ExtractionInv, TextKnown, PassesKnow, Knows, Within, Frozen
<1> QED BY <1>12, <1>13

LEMMA ResetKeeps ==
    ASSUME ExtractionInv, NEW c \in Callers, Reset(c) PROVE ExtractionInv'
<1>1. /\ ExtractionTypeOK /\ row \in JobRows /\ HeldRuns(row)
    BY ExtractionTyped DEF ExtractionInv
<1>2. ExtractionTypeOK' /\ (TextKnown /\ PassesKnow)'
    BY ResetTypes
<1>3. overtaken' = IF Rightly(c) THEN overtaken ELSE overtaken \cup {"reset"}
    BY DEF Reset, Rightly
<1>4. CASE ~Rightly(c)
    <2>1. overtaken' # {} /\ ~Fresh'
        BY <1>3, <1>4 DEF Fresh
    <2>2. EachPartOnce'
        BY <2>1 DEF EachPartOnce, Fresh
    <2> QED BY <1>2, <2>1, <2>2 DEF ExtractionInv
<1>5. CASE Rightly(c)
    <2>1. /\ receipt' = NoReceipt /\ row' = [row EXCEPT !.window = None, !.tries = 0,
                                              !.status = "ready", !.unknown = FALSE]
          /\ row.status = "done" /\ UNCHANGED <<cursor, offset, stored, overtaken>>
        BY <1>3, <1>5 DEF Reset, Rightly, Resettable
    <2>2. row'.holder = None /\ receipt'.phase = "none"
        BY <1>1, <2>1, ReceiptFacts DEF HeldRuns, JobRows
    <2>3. \A d \in Callers : ~Holds(d)'
        BY <2>2, ExtractionAssumption DEF Holds
    <2>4. HolderKnows' /\ RequestIsNext' /\ WindowsAgree'
        BY <2>2, <2>3 DEF HolderKnows, RequestIsNext, WindowsAgree
    <2>5. Reached' = Reached /\ EachPartOnce'
        BY <2>1 DEF ExtractionInv, EachPartOnce, Reached, BatchFrom
    <2>6. overtaken = {} => PaidSoFar'
        BY <1>5, ResetPays DEF ExtractionInv, Fresh
    <2> QED BY <1>2, <2>1, <2>4, <2>5, <2>6 DEF ExtractionInv
<1> QED BY <1>4, <1>5

LEMMA LeaseEndsKeeps ==
    ASSUME ExtractionInv, LeaseEnds PROVE ExtractionInv'
<1>1. ExtractionTypeOK /\ row \in JobRows /\ HeldRuns(row) /\ ReadyIsFree
      /\ trouble \in 0..MaxTrouble /\ config \in 0..MaxTrouble /\ config <= trouble
    <2>1. ExtractionTypeOK /\ row \in JobRows /\ HeldRuns(row) /\ ReadyIsFree
        BY ExtractionTyped DEF ExtractionInv
    <2> QED BY <2>1 DEF ExtractionInv, TextKnown, ExtractionTypeOK
<1> DEFINE r == [row EXCEPT !.live = FALSE]
<1>2. /\ row' = r
      /\ UNCHANGED <<said, config, cursor, receipt, offset, pc, mem, stored, sent, overtaken>>
    BY DEF LeaseEnds
<1>3. trouble' \in 0..MaxTrouble /\ config <= trouble'
    BY <1>1, ExtractionAssumption DEF LeaseEnds, Trouble
<1>4. r \in JobRows /\ r.holder = row.holder /\ r.live = FALSE /\ r.status = row.status
    BY <1>1 DEF JobRows
<1> HIDE DEF r
<1>5. row' \in JobRows /\ HeldRuns(row') /\ ReadyIsFree' /\ row'.holder = row.holder
    BY <1>1, <1>2, <1>4 DEF HeldRuns, ReadyIsFree
<1>6. ExtractionTypeOK'
    BY <1>1, <1>2, <1>3, <1>5 DEF ExtractionTypeOK, JobRows, HeldRuns, ReadyIsFree
<1>7. (TextKnown /\ PassesKnow)'
    BY <1>2, <1>3 DEF ExtractionInv, TextKnown, PassesKnow, Within, Frozen
<1>8. \A d \in Callers : Holds(d)' = Holds(d)
    BY <1>2, <1>5 DEF Holds
<1>9. Reached' = Reached /\ EachPartOnce'
    BY <1>2 DEF ExtractionInv, EachPartOnce, Reached, BatchFrom
<1>10. (Fresh => HolderKnows /\ RequestIsNext)'
    BY <1>2, <1>8, <1>9 DEF ExtractionInv, Fresh, HolderKnows, RequestIsNext
<1>11. (overtaken = {} => WindowsAgree /\ PaidSoFar)'
    BY <1>2, <1>8, <1>9 DEF ExtractionInv, WindowsAgree, PaidSoFar
<1> QED BY <1>6, <1>7, <1>9, <1>10, <1>11 DEF ExtractionInv

\* More text, or other settings, change nothing of what was stored and requested.
LEMMA OutsideKeeps ==
    ASSUME ExtractionInv, Say \/ ChangeConfig \/ UNCHANGED vars PROVE ExtractionInv'
<1>1. /\ ExtractionTypeOK /\ said \in Nat /\ trouble \in 0..MaxTrouble
      /\ config \in 0..MaxTrouble /\ config <= trouble
    BY LastEnd DEF ExtractionInv, ExtractionTypeOK, TextKnown
<1>2. UNCHANGED <<cursor, row, receipt, offset, pc, mem, stored, sent, overtaken>>
    BY DEF Say, ChangeConfig, vars
<1>3. said' \in {0} \cup Ends /\ said <= said'
    <2>1. CASE Say
        <3>1. said' \in Ends /\ said' > said
            BY <1>1, <2>1, NextEnd DEF Say
        <3> QED BY <1>1, <3>1, LastEnd
    <2>2. CASE ChangeConfig \/ UNCHANGED vars
        BY <1>1, <2>2 DEF ChangeConfig, vars, ExtractionTypeOK
    <2> QED BY <2>1, <2>2
<1>4. config' \in 0..MaxTrouble /\ trouble' \in 0..MaxTrouble /\ config' <= trouble'
    BY <1>1, ExtractionAssumption DEF Say, ChangeConfig, Trouble, vars
<1>5. ExtractionTypeOK'
    BY <1>1, <1>2, <1>3, <1>4 DEF ExtractionTypeOK
<1>6. said' \in Nat
    BY <1>3, LastEnd
<1>7. (TextKnown /\ PassesKnow)'
    <2>1. /\ \A o \in Nat : Within(o) => Within(o)'
          /\ \A r \in Receipts : Frozen(r) => Frozen(r)'
        BY <1>1, <1>3, <1>6, ReceiptFacts, LastEnd DEF Within, Frozen
    <2>2. offset \in Nat /\ receipt \in Receipts /\ cursor \in Nat
          /\ \A c \in Callers : mem[c].offset \in Nat /\ mem[c].receipt \in Receipts
                                /\ mem[c].to \in Nat
        <3>1. mem \in [Callers -> Mems] /\ offset \in 0..Max(Ends) /\ receipt \in Receipts
              /\ cursor \in {0} \cup Ends
            BY <1>1, ExtractionTyped
        <3> QED BY <3>1, LastEnd DEF Mems
    <2>3. TextKnown'
        BY <1>1, <1>2, <1>3, <1>4, <1>6, <2>1, <2>2 DEF ExtractionInv, TextKnown
    <2>4. PassesKnow'
        BY <1>2 DEF ExtractionInv, PassesKnow
    <2> QED BY <2>3, <2>4
<1>8. \A d \in Callers : Holds(d)' = Holds(d)
    BY <1>2 DEF Holds
<1>9. Reached' = Reached /\ EachPartOnce'
    BY <1>2 DEF ExtractionInv, EachPartOnce, Reached, BatchFrom
<1>10. (Fresh => HolderKnows /\ RequestIsNext)'
    BY <1>2, <1>8, <1>9 DEF ExtractionInv, Fresh, HolderKnows, RequestIsNext
<1>11. (overtaken = {} => WindowsAgree /\ PaidSoFar)'
    BY <1>2, <1>8, <1>9 DEF ExtractionInv, WindowsAgree, PaidSoFar
<1> QED BY <1>5, <1>7, <1>9, <1>10, <1>11 DEF ExtractionInv

-----------------------------------------------------------------------------
(* The theorems.                                                           *)

LEMMA ExtractionStarts == Init => ExtractionInv
<1> SUFFICES ASSUME Init PROVE ExtractionInv
    OBVIOUS
<1>1. /\ 0 \in 0..Max(Ends) /\ 0 \in 0..MaxTrouble /\ 0 \in 0..MaxAttempts /\ 0 \notin Ends
    BY LastEnd, ExtractionAssumption
<1>2. NoMem \in Mems /\ NoMem.receipt = NoReceipt /\ NoMem.offset = 0 /\ NoReceipt \in Receipts
      /\ NoReceipt.phase = "none"
    BY NoMemIsMem, ReceiptFacts
<1> HIDE DEF NoMem, NoReceipt
<1>3. ExtractionTypeOK
    <2>1. row \in JobRows /\ HeldRuns(row) /\ ReadyIsFree
        BY <1>1 DEF Init, JobRows, HeldRuns, ReadyIsFree
    <2>2. pc \in [Callers -> Points] /\ mem \in [Callers -> Mems]
        BY <1>2 DEF Init, Points
    <2> QED BY <1>1, <1>2, <2>1, <2>2, ExtractionTyped DEF Init
<1>4. TextKnown /\ PassesKnow
    BY <1>1, <1>2 DEF Init, TextKnown, PassesKnow, Within, Frozen
<1>5. \A d \in Callers : ~Holds(d)
    BY DEF Init, Holds
<1>6. HolderKnows /\ RequestIsNext /\ WindowsAgree
    BY <1>2, <1>5 DEF Init, HolderKnows, RequestIsNext, WindowsAgree
<1>7. Reached = 0 /\ \A u \in Units : u \in Nat /\ u > 0
    BY DEF Init, Reached, BatchFrom, Units
<1>8. EachPartOnce /\ PaidSoFar
    BY <1>7 DEF Init, EachPartOnce, PaidSoFar
<1> QED BY <1>3, <1>4, <1>6, <1>8 DEF ExtractionInv

LEMMA ExtractionStep == ExtractionInv /\ [Next]_vars => ExtractionInv'
<1> SUFFICES ASSUME ExtractionInv, [Next]_vars PROVE ExtractionInv'
    OBVIOUS
<1>1. CASE \E c \in Callers : Pass(c) \/ ResetCheck(c) \/ Crash(c)
    BY <1>1, PassKeeps, ResetKeeps
<1>2. CASE LeaseEnds
    BY <1>2, LeaseEndsKeeps
<1>3. CASE Say \/ ChangeConfig \/ UNCHANGED vars
    BY <1>3, OutsideKeeps
<1> QED BY <1>1, <1>2, <1>3 DEF Next

LEMMA ExtractionHolds == Spec => []ExtractionInv
BY ExtractionStarts, ExtractionStep, PTL DEF Spec

\* The rows, the passes and the counts are of their types; in particular a lease is
\* somebody's, and a row is held exactly while its status is running, unless a reset that
\* was checked before another's took the row from under the pass that holds it.
THEOREM ExtractionTypeCorrect == Spec => []ExtractionTypeOK
<1>1. ExtractionInv => ExtractionTypeOK
    BY DEF ExtractionInv
<1> QED BY <1>1, ExtractionHolds, PTL

\* atomic_write stores the memories of a batch with the cursor and the checkpoint: each
\* part of the text up to where those two say is stored once and nothing beyond it,
\* however many callers fail, crash, lose their leases and claim the row anew; unless a
\* claim or a person's reset succeeded on a row that had changed since it was read.
THEOREM PartsAreStoredOnce == Spec => []EachPartOnce
<1>1. ExtractionInv => EachPartOnce
    BY DEF ExtractionInv
<1> QED BY <1>1, ExtractionHolds, PTL

\* reserve_extraction_call is committed before the request is sent and pins the window of
\* the claims after it: no part is requested twice until a person allows it, unless a
\* claim or a reset succeeded that rested on an outdated look at the row.
THEOREM PartsArePaidOnce == Spec => []PaidOnceUnlessOvertaken
<1>1. ExtractionInv => PaidOnceUnlessOvertaken
    BY DEF ExtractionInv, PaidSoFar, PaidOnceUnlessOvertaken
<1> QED BY <1>1, ExtractionHolds, PTL

\* The answer in the row goes only when its memories are stored.
LEMMA AnswerStays ==
    ASSUME ExtractionInv, [Next]_vars, receipt.phase = "received", receipt' # receipt,
           overtaken' = {}
    PROVE  stored' # stored
<1>1. PICK c \in Callers : Pass(c) \/ ResetCheck(c) \/ Crash(c)
    BY DEF Next, LeaseEnds, Say, ChangeConfig, vars
<1>2. ~Reset(c)
    <2>1. Reset(c) => Resettable
        BY DEF Reset
    <2> QED BY <2>1 DEF Resettable
<1>3. Moves(c) \/ Claims(c) \/ Writes(c) \/ Stores(c) \/ LetsGo(c)
    BY <1>1, <1>2, PassKinds
<1>4. overtaken = {}
    BY <1>3 DEF Moves, Claims, Writes, Stores, LetsGo
<1>5. /\ HolderKnows /\ WindowsAgree /\ EachPartOnce /\ PassesKnow /\ TextKnown /\ Fresh
      /\ mem \in [Callers -> Mems]
    BY <1>4, ExtractionTyped DEF ExtractionInv, Fresh
<1>6. CASE Writes(c)
    <2>1. Holds(c) /\ mem[c].receipt = receipt /\ pc[c] \in {"ready", "calling"}
        BY <1>5, <1>6 DEF Writes, Fence, Holds, HolderKnows
    <2>2. pc[c] # "ready"
        BY <1>5, <2>1 DEF WindowsAgree
    <2>3. pc[c] # "calling"
        BY <1>5, <2>1 DEF PassesKnow
    <2> QED BY <2>1, <2>2, <2>3
<1>7. CASE Stores(c)
    <2>1. Holds(c) /\ pc[c] = "answered" /\ stored' = CountBatch(stored, mem[c])
        BY <1>7 DEF Stores, Fence, Holds
    <2>2. mem[c].from = Reached /\ mem[c].from < mem[c].to
        BY <1>5, <2>1 DEF HolderKnows, TextKnown
    <2>3. mem[c].from \in Nat /\ mem[c].to \in Units
        BY <1>5, <2>2, LastEnd DEF Mems, Units
    <2>4. stored[mem[c].to] = 0 /\ mem[c].to \in Batch(mem[c])
        BY <1>5, <2>2, <2>3 DEF EachPartOnce, Fresh, Batch, Units
    <2>5. stored \in [Units -> 0..2]
        BY DEF ExtractionInv, ExtractionTypeOK
    <2>6. stored'[mem[c].to] = 1
        BY <2>1, <2>3, <2>4, <2>5, CountRight
    <2> QED BY <2>4, <2>6
<1>8. CASE Moves(c) \/ Claims(c) \/ LetsGo(c)
    BY <1>8 DEF Moves, Claims, LetsGo
<1> QED BY <1>6, <1>7, <1>8, <1>3

\* save_extraction_response is committed before anything else may fail: what was paid for
\* and kept leaves the row only in the transaction that stores its memories, whatever is
\* switched, changed, reset or crashes meanwhile; unless a claim was outdated, or a reset
\* that was checked before another's and the request after it.
THEOREM AnswersStay == Spec => AnswersAreUsed
<1>1. ExtractionInv /\ [Next]_vars =>
        [receipt.phase = "received" /\ receipt' # receipt
           => overtaken' # {} \/ stored' # stored]_vars
    BY AnswerStays
<1>2. Spec => [][ExtractionInv /\ [Next]_vars]_vars
    BY ExtractionHolds, PTL DEF Spec
<1> QED BY <1>1, <1>2, ExtractionHolds, PTL DEF Spec, AnswersAreUsed

-----------------------------------------------------------------------------
(* One caller alone.                                                       *)
(*                                                                         *)
(* The claims that are outdated take two callers, and so does the request  *)
(* that is made again (section 6 of the README): whoever is alone with the *)
(* session finds the row as it left it, whatever crashes, is switched or   *)
(* changed around it.                                                      *)

\* The row is the caller's from its claim to the end of its pass.
AtWork(c) == pc[c] \in {"claimed", "ready", "calling", "answered"}

\* A request that is noted is that of the row, and of the pass that looks for one.
RowIsOfRequest == receipt.phase # "none" => row.window = receipt.window

SoleKnows(c) ==
    /\ AtWork(c) => row.holder = c /\ row.window = mem[c].window
    /\ receipt.phase # "none" /\ (pc[c] \in {"looked", "peeked"} \/ AtWork(c)) =>
         mem[c].window = receipt.window /\ pc[c] # "ready"
    /\ pc[c] = "peeked" =>
         /\ mem[c].receipt = receipt /\ mem[c].offset = offset
         /\ receipt.phase # "none" => row.status # "done"
    /\ pc[c] = "resetting" => Rightly(c)

SoleInv ==
    /\ Fresh /\ PaidSoFar /\ RowIsOfRequest
    /\ \A c \in Callers : SoleKnows(c)

LEMMA SoleRests ==
    ASSUME ExtractionInv, SoleInv, NEW c \in Callers, \A d \in Callers : d = c,
           UNCHANGED <<cursor, receipt, offset, sent, overtaken>>, row'.window = row.window,
           SoleKnows(c)'
    PROVE  SoleInv'
<1>1. Fresh' /\ PaidSoFar' /\ RowIsOfRequest'
    BY DEF SoleInv, Fresh, PaidSoFar, RowIsOfRequest, Reached, BatchFrom
<1> QED BY <1>1 DEF SoleInv

\* A pass that ends, or has ended, is at nothing.
LEMMA SoleEnds ==
    ASSUME ExtractionInv, SoleInv, NEW c \in Callers, \A d \in Callers : d = c,
           Leave(c) \/ \E r \in Results : End(c, r),
           UNCHANGED <<cursor, receipt, offset, sent, overtaken>>, row'.window = row.window
    PROVE  SoleInv'
<1>1. pc \in [Callers -> Points]
    BY ExtractionTyped DEF ExtractionInv
<1>2. pc'[c] \in {"idle", "ending"}
    BY <1>1 DEF Leave, End, Goto
<1>3. SoleKnows(c)'
    BY <1>2 DEF SoleKnows, AtWork
<1> QED BY <1>3, SoleRests

LEMMA SolePass ==
    ASSUME ExtractionInv, SoleInv, NEW c \in Callers, \A d \in Callers : d = c,
           Pass(c) \/ ResetCheck(c) \/ Crash(c)
    PROVE  SoleInv'
<1>1. /\ pc \in [Callers -> Points] /\ mem \in [Callers -> Mems] /\ row \in JobRows
      /\ mem[c] \in Mems /\ SoleKnows(c) /\ Fresh /\ PaidSoFar /\ RowIsOfRequest
    BY ExtractionTyped DEF ExtractionInv, SoleInv
<1>2. CASE Look(c)
    <2> DEFINE n == [NoMem EXCEPT !.window = WindowNow]
    <2>1. /\ Goto(c, "looked", n)
          /\ UNCHANGED <<cursor, receipt, offset, sent, overtaken, row>>
        BY <1>2 DEF Look
    <2>2. n \in Mems /\ n.window = WindowNow
        BY WindowTyped, NoMemIsMem DEF ExtractionInv
    <2> HIDE DEF n
    <2>3. pc'[c] = "looked" /\ mem'[c].window = WindowNow
        BY <1>1, <2>1, <2>2 DEF Goto
    <2>4. SoleKnows(c)'
        BY <2>1, <2>3 DEF SoleKnows, AtWork, WindowNow
    <2> QED BY <2>1, <2>4, SoleRests
<1>3. CASE \E force \in BOOLEAN : Peek(c, force)
    <2> DEFINE n == [mem[c] EXCEPT !.seen = row.window, !.tries = row.tries,
                                   !.receipt = receipt, !.offset = offset]
    <2>1. PICK force \in BOOLEAN : Peek(c, force)
        BY <1>3
    <2>2. /\ Goto(c, "peeked", n) /\ pc[c] = "looked"
          /\ UNCHANGED <<cursor, receipt, offset, sent, overtaken, row>>
          /\ row.window = mem[c].window => row.status # "done"
        BY <2>1 DEF Peek, Claimable
    <2>3. n.window = mem[c].window /\ n.receipt = receipt /\ n.offset = offset
        BY <1>1 DEF Mems
    <2> HIDE DEF n
    <2>4. pc'[c] = "peeked" /\ mem'[c] = n
        BY <1>1, <2>2 DEF Goto
    <2>5. receipt.phase # "none" => mem[c].window = receipt.window /\ row.status # "done"
        BY <1>1, <2>2 DEF SoleKnows, RowIsOfRequest
    <2>6. SoleKnows(c)'
        BY <2>2, <2>3, <2>4, <2>5 DEF SoleKnows, AtWork
    <2> QED BY <2>2, <2>6, SoleRests
<1>4. CASE Swap(c) /\ ~(~row.live /\ Unchanged(c))
    BY <1>4, SoleEnds DEF Swap
<1>5. CASE Swap(c) /\ ~row.live /\ Unchanged(c)
    <2> DEFINE n == [mem[c] EXCEPT !.seen = None, !.tries = 0]
               r == [row EXCEPT !.window = mem[c].window, !.tries = NextTries(c),
                                !.status = "running", !.holder = c, !.live = TRUE]
    <2>1. /\ row' = r /\ Goto(c, "claimed", n) /\ overtaken' = overtaken \cup Outdated(c)
          /\ UNCHANGED <<cursor, receipt, offset, sent>> /\ pc[c] = "peeked"
        BY <1>5 DEF Swap
    <2>2. /\ n.window = mem[c].window /\ n.receipt = mem[c].receipt /\ n.offset = mem[c].offset
          /\ r.window = mem[c].window /\ r.holder = c
        BY <1>1 DEF Mems, JobRows
    <2> HIDE DEF n, r
    <2>3. pc'[c] = "claimed" /\ mem'[c] = n
        BY <1>1, <2>1 DEF Goto
    <2>4. /\ mem[c].receipt = receipt /\ mem[c].offset = offset
          /\ receipt.phase # "none" => mem[c].window = receipt.window
        BY <1>1, <2>1 DEF SoleKnows
    <2>5. Fresh' /\ PaidSoFar'
        BY <1>1, <2>1, <2>4 DEF Fresh, Outdated, PaidSoFar, Reached, BatchFrom
    <2>6. RowIsOfRequest' /\ SoleKnows(c)'
        BY <2>1, <2>2, <2>3, <2>4 DEF RowIsOfRequest, SoleKnows, AtWork
    <2> QED BY <2>5, <2>6 DEF SoleInv
<1>6. CASE UseAnswer(c) \/ Prepare(c)
    <2>1. /\ UNCHANGED <<cursor, receipt, offset, sent, overtaken, row>> /\ pc[c] = "claimed"
          /\ \/ End(c, "failed")
             \/ \E f, t : Goto(c, "answered", [mem[c] EXCEPT !.from = f, !.to = t])
             \/ ~OwnReceipt(c) /\ \E f, t : Goto(c, "ready", [mem[c] EXCEPT !.from = f, !.to = t])
        BY <1>6 DEF UseAnswer, Prepare
    <2>2. CASE End(c, "failed")
        BY <2>1, <2>2, SoleEnds DEF Results
    <2>3. ASSUME NEW f, NEW t, NEW at \in {"answered", "ready"},
                 Goto(c, at, [mem[c] EXCEPT !.from = f, !.to = t]),
                 at = "ready" => ~OwnReceipt(c)
          PROVE  SoleInv'
        <3> DEFINE n == [mem[c] EXCEPT !.from = f, !.to = t]
        <3>1. n.window = mem[c].window
            BY <1>1 DEF Mems
        <3>2. Goto(c, at, n)
            BY <2>3
        <3> HIDE DEF n
        <3>3. pc'[c] = at /\ mem'[c] = n
            BY <1>1, <3>2 DEF Goto
        <3>4. /\ row.holder = c /\ row.window = mem[c].window
              /\ receipt.phase # "none" => mem[c].window = receipt.window
            BY <1>1, <2>1 DEF SoleKnows, AtWork
        <3>5. mem[c].receipt = receipt
            BY <1>1, <2>1, <3>4 DEF ExtractionInv, HolderKnows, Holds
        <3>6. at = "ready" => receipt.phase = "none"
            BY <2>3, <3>4, <3>5 DEF OwnReceipt
        <3>7. SoleKnows(c)'
            BY <2>1, <3>1, <3>3, <3>4, <3>6 DEF SoleKnows, AtWork
        <3> QED BY <2>1, <3>7, SoleRests
    <2> QED BY <2>1, <2>2, <2>3
<1>7. CASE (Reserve(c) /\ Fence(c)) \/ Answer(c)
    <2>1. Writes(c)
        <3>1. Moves(c) \/ Writes(c)
            BY <1>7, WritingSteps
        <3>2. ~Moves(c)
            <4>1. pc'[c] \in {"calling", "answered"} /\ pc[c] # "claimed"
                BY <1>1, <1>7 DEF Reserve, Answer, Goto
            <4> QED BY <1>1, <4>1 DEF Moves, Goto
        <3> QED BY <3>1, <3>2
    <2>2. PICK m \in Mems, at \in {"calling", "answered"} :
            /\ pc[c] \in {"ready", "calling"} /\ Fence(c) /\ receipt' = m.receipt
            /\ m.window = mem[c].window /\ Goto(c, at, m) /\ Knows(at, m)
            /\ UNCHANGED <<row, overtaken>>
        BY <2>1 DEF Writes
    <2>3. receipt'.window = m.window
        BY <2>2 DEF Knows
    <2>4. pc'[c] = at /\ mem'[c] = m
        BY <1>1, <2>2 DEF Goto
    <2>5. row.holder = c /\ row.window = mem[c].window
          /\ (pc[c] = "ready" => receipt.phase = "none")
        BY <1>1, <2>2 DEF SoleKnows, AtWork
    <2>6. PaidSoFar'
        BY <1>1, <2>1, <2>5, WritesPay
    <2>7. Fresh' /\ RowIsOfRequest' /\ SoleKnows(c)'
        BY <1>1, <2>2, <2>3, <2>4, <2>5 DEF Fresh, RowIsOfRequest, SoleKnows, AtWork
    <2> QED BY <2>6, <2>7 DEF SoleInv
<1>8. CASE Apply(c)
    <2>1. Stores(c)
        BY <1>8, StoringSteps
    <2>2. PaidSoFar'
        BY <1>1, <2>1, StoresPay
    <2>3. receipt'.phase = "none" /\ overtaken' = overtaken
        BY <2>1, ReceiptFacts DEF Stores
    <2>4. pc'[c] = "ending"
        BY <1>1, <2>1 DEF Stores, Goto
    <2> QED BY <1>1, <2>2, <2>3, <2>4 DEF SoleInv, Fresh, RowIsOfRequest, SoleKnows, AtWork
<1>9. CASE Finish(c)
    <2>1. row'.window = row.window
        BY <1>1, <1>9 DEF Finish, JobRows
    <2> QED BY <1>9, <2>1, SoleEnds DEF Finish
<1>10. CASE \/ Refused(c) \/ SwitchedOff(c) \/ NothingNew(c) \/ OutcomeUnknown(c) \/ Blocked(c)
            \/ (Reserve(c) /\ ~Fence(c)) \/ NoAnswer(c) \/ ApplyFails(c) \/ ApplyRefused(c)
            \/ Crash(c)
    <2>1. /\ UNCHANGED <<cursor, receipt, offset, sent, overtaken, row>>
          /\ Leave(c) \/ \E r \in Results : End(c, r)
        BY <1>10 DEF Refused, SwitchedOff, NothingNew, OutcomeUnknown, Blocked, Reserve,
                     NoAnswer, ApplyFails, ApplyRefused, Crash, Results
    <2> QED BY <2>1, SoleEnds
<1>11. CASE ResetCheck(c)
    <2> DEFINE n == [NoMem EXCEPT !.receipt = receipt, !.offset = offset]
    <2>1. /\ Goto(c, "resetting", n) /\ Resettable
          /\ UNCHANGED <<cursor, receipt, offset, sent, overtaken, row>>
        BY <1>11 DEF ResetCheck
    <2>2. n.receipt = receipt /\ n.offset = offset
        <3> HIDE DEF NoMem
        <3> QED BY NoMemIsMem DEF Mems
    <2> HIDE DEF n
    <2>3. pc'[c] = "resetting" /\ mem'[c] = n
        BY <1>1, <2>1 DEF Goto
    <2>4. SoleKnows(c)'
        BY <2>1, <2>2, <2>3 DEF SoleKnows, AtWork, Rightly, Resettable
    <2> QED BY <2>1, <2>4, SoleRests
<1>12. CASE Reset(c)
    <2>1. Rightly(c) /\ receipt' = NoReceipt /\ pc'[c] = "idle"
        BY <1>1, <1>12 DEF Reset, Leave, Goto, SoleKnows
    <2>2. overtaken' = overtaken /\ receipt'.phase = "none"
        BY <1>12, <2>1, ReceiptFacts DEF Reset, Rightly
    <2>3. PaidSoFar'
        BY <1>1, <1>12, <2>1, ResetPays
    <2>4. Fresh' /\ RowIsOfRequest' /\ SoleKnows(c)'
        BY <1>1, <2>1, <2>2 DEF Fresh, RowIsOfRequest, SoleKnows, AtWork
    <2> QED BY <2>3, <2>4 DEF SoleInv
<1> QED BY <1>2, <1>3, <1>4, <1>5, <1>6, <1>7, <1>8, <1>9, <1>10, <1>11, <1>12 DEF Pass

LEMMA SoleAround ==
    ASSUME ExtractionInv, SoleInv, NEW c \in Callers, \A d \in Callers : d = c,
           LeaseEnds \/ Say \/ ChangeConfig \/ UNCHANGED vars
    PROVE  SoleInv'
<1>1. row \in JobRows /\ SoleKnows(c)
    BY ExtractionTyped DEF ExtractionInv, SoleInv
<1>2. /\ UNCHANGED <<cursor, receipt, offset, sent, overtaken, pc, mem>>
      /\ row'.window = row.window /\ row'.holder = row.holder /\ row'.status = row.status
      /\ row'.unknown = row.unknown /\ (row'.live => row.live)
    BY <1>1 DEF LeaseEnds, Say, ChangeConfig, vars, JobRows
<1>3. SoleKnows(c)'
    BY <1>1, <1>2 DEF SoleKnows, AtWork, Rightly, Resettable
<1> QED BY <1>2, <1>3, SoleRests

\* "Commit before dispatch: an unknown remote outcome is never auto-replayed" holds for a
\* caller that is alone with the session, and so does that each part of the text is stored
\* once: none of its claims is outdated by anything but a change of the settings.
THEOREM AloneNeverReplays ==
    ASSUME NEW only, Callers = {only}
    PROVE  Spec => [](NeverAutoReplayed /\ Fresh)
<1>1. Init => SoleInv
    <2> SUFFICES ASSUME Init PROVE SoleInv
        OBVIOUS
    <2>1. ExtractionInv /\ overtaken = {} /\ receipt = NoReceipt
        BY ExtractionStarts DEF Init
    <2>2. Fresh /\ PaidSoFar /\ RowIsOfRequest
        BY <2>1, ReceiptFacts DEF ExtractionInv, Fresh, RowIsOfRequest
    <2>3. \A c \in Callers : SoleKnows(c)
        BY DEF Init, SoleKnows, AtWork
    <2> QED BY <2>2, <2>3 DEF SoleInv
<1>2. ExtractionInv /\ SoleInv /\ [Next]_vars => SoleInv'
    <2> SUFFICES ASSUME ExtractionInv, SoleInv, [Next]_vars PROVE SoleInv'
        OBVIOUS
    <2>1. CASE \E c \in Callers : Pass(c) \/ ResetCheck(c) \/ Crash(c)
        BY <2>1, SolePass
    <2>2. CASE LeaseEnds \/ Say \/ ChangeConfig \/ UNCHANGED vars
        BY <2>2, SoleAround
    <2> QED BY <2>1, <2>2 DEF Next
<1>3. SoleInv => NeverAutoReplayed /\ Fresh
    BY DEF SoleInv, PaidSoFar, NeverAutoReplayed
<1> QED BY <1>1, <1>2, <1>3, ExtractionHolds, PTL DEF Spec
=============================================================================

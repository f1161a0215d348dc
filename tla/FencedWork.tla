----------------------------- MODULE FencedWork -----------------------------
(***************************************************************************)
(* What the leased tables of the backend promise: an item of work is       *)
(* handed to one worker at a time, may be taken over from a worker that is *)
(* late, and only the worker that took it last can say how it ended.       *)
(*                                                                         *)
(* DurableQueue and MemoryOutbox are shown to implement this; tokens,      *)
(* generations, attempts, time and the order of the work do not appear.    *)
(***************************************************************************)

CONSTANTS Items, Workers, None

VARIABLES
    state,   \* of each item: not there yet, open, held or settled
    work,    \* the item each worker thinks it is working on
    current  \* workers that are right: nobody took the item since, nor ended it

work_vars == <<state, work, current>>

FencedInit ==
    /\ state = [i \in Items |-> "none"]
    /\ work = [w \in Workers |-> None]
    /\ current = {}

Offer(i) ==
    /\ state[i] = "none"
    /\ state' = [state EXCEPT ![i] = "open"]
    /\ UNCHANGED <<work, current>>

\* Whoever worked on the item until now is overtaken, and need not notice.
Take(w, i) ==
    /\ work[w] = None
    /\ state[i] \in {"open", "held"}
    /\ state' = [state EXCEPT ![i] = "held"]
    /\ work' = [work EXCEPT ![w] = i]
    /\ current' = {v \in current : work[v] # i} \cup {w}

\* The worker says how it ended: done with, or to be done again.
Deliver(w, i, outcome) ==
    /\ w \in current /\ work[w] = i
    /\ state' = [state EXCEPT ![i] = outcome]
    /\ work' = [work EXCEPT ![w] = None]
    /\ current' = current \ {w}

\* The worker dies, or is told that it was overtaken: no item changes.
Drop(w) ==
    /\ work' = [work EXCEPT ![w] = None]
    /\ current' = current \ {w}
    /\ UNCHANGED state

\* Somebody other than a worker ends items or opens them again.
Decide(S, outcome) ==
    /\ \A i \in S : state[i] # "none"
    /\ state' = [i \in Items |-> IF i \in S THEN outcome ELSE state[i]]
    /\ current' = {v \in current : work[v] \notin S}
    /\ UNCHANGED work

FencedNext ==
    \/ \E i \in Items : Offer(i)
    \/ \E w \in Workers, i \in Items : Take(w, i)
    \/ \E w \in Workers, i \in Items, o \in {"open", "settled"} : Deliver(w, i, o)
    \/ \E w \in Workers : Drop(w)
    \/ \E S \in SUBSET Items, o \in {"open", "settled"} : Decide(S, o)

FencedSpec == FencedInit /\ [][FencedNext]_work_vars
=============================================================================

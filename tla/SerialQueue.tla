----------------------------- MODULE SerialQueue -----------------------------
(***************************************************************************)
(* What a task queue promises, whatever threads and locks it is made of:   *)
(* one task at a time is in hand, one of those of highest priority is taken *)
(* next, and each task that is submitted is taken and finished once.        *)
(* It may break the promise at any time, but has to say so.                *)
(***************************************************************************)
EXTENDS Naturals

CONSTANTS Tasks, NULL

VARIABLES priority, waiting, running, done, broken

vars == <<priority, waiting, running, done, broken>>

Init == waiting = {} /\ running = NULL /\ done = {} /\ ~broken

Submit(t) ==
    /\ t \notin waiting \cup done \cup {running}
    /\ waiting' = waiting \cup {t}
    /\ UNCHANGED <<priority, running, done>>

Begin(t) ==
    /\ running = NULL
    /\ t \in waiting /\ \A u \in waiting : priority[u] <= priority[t]
    /\ running' = t
    /\ waiting' = waiting \ {t}
    /\ UNCHANGED <<priority, done>>

End ==
    /\ running # NULL
    /\ done' = done \cup {running}
    /\ running' = NULL
    /\ UNCHANGED <<priority, waiting>>

Work == (\E t \in Tasks : Submit(t) \/ Begin(t)) \/ End
Unbroken == ~broken /\ UNCHANGED broken
Break == broken'

Next == (Work /\ Unbroken) \/ Break

Spec == Init /\ [][Next]_vars

\* What can begin begins, and ends.
FairSpec ==
    /\ Spec
    /\ WF_vars(Unbroken /\ \E t \in Tasks : Begin(t))
    /\ WF_vars(Unbroken /\ End)
=============================================================================

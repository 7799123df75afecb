---------------------------- MODULE EventLedger ----------------------------
(***************************************************************************)
(* What the event queue promises to the code that hands it events, with   *)
(* nothing about how: an event that was accepted is pending until it has  *)
(* exactly one fate, and a fate is final.  An event is accepted only while *)
(* the queue is open and abandoned only while it is closed.               *)
(***************************************************************************)
CONSTANT Events

VARIABLES
    pending,     \* accepted, no fate yet
    processed,   \* its handler returned
    buried,      \* dead-lettered
    abandoned,   \* given up by a shutdown while its handler was running
    closed       \* the queue refuses events

vars == <<pending, processed, buried, abandoned, closed>>

Known == pending \cup processed \cup buried \cup abandoned

Init ==
    /\ pending = {} /\ processed = {} /\ buried = {} /\ abandoned = {}
    /\ closed = FALSE

Accept(e) ==
    /\ ~closed
    /\ e \notin Known
    /\ pending' = pending \cup {e}
    /\ UNCHANGED <<processed, buried, abandoned, closed>>

Process(e) ==
    /\ e \in pending
    /\ pending' = pending \ {e}
    /\ processed' = processed \cup {e}
    /\ UNCHANGED <<buried, abandoned, closed>>

Bury(e) ==
    /\ e \in pending
    /\ pending' = pending \ {e}
    /\ buried' = buried \cup {e}
    /\ UNCHANGED <<processed, abandoned, closed>>

(* A shutdown closes the queue and may give up one running event.         *)
Abandon(e) ==
    /\ e \in pending
    /\ pending' = pending \ {e}
    /\ abandoned' = abandoned \cup {e}
    /\ closed' = TRUE
    /\ UNCHANGED <<processed, buried>>

Close ==
    /\ ~closed
    /\ closed' = TRUE
    /\ UNCHANGED <<pending, processed, buried, abandoned>>

Reopen ==
    /\ closed
    /\ closed' = FALSE
    /\ UNCHANGED <<pending, processed, buried, abandoned>>

Next ==
    \/ \E e \in Events : Accept(e) \/ Process(e) \/ Bury(e) \/ Abandon(e)
    \/ Close
    \/ Reopen

Spec == Init /\ [][Next]_vars
=============================================================================

--------------------------- MODULE TerminalOutcome ---------------------------
(***************************************************************************)
(* What a connection promises about its end, whatever runs concurrently:   *)
(* at most one terminal event is ever established, the established event   *)
(* is never rewritten, and the native resources are reclaimed at most once *)
(* and only after an event has been established.                           *)
(***************************************************************************)
EXTENDS Integers

CONSTANT Events     \* the terminal events a caller may report

NoEvent == -1

VARIABLES
    phase,          \* "live", "decided" (an event is established), "closed"
    event,          \* the established event, NoEvent while live
    reclaimed       \* have the descriptor and the heap objects been released

vars == <<phase, event, reclaimed>>

Init ==
    /\ phase = "live"
    /\ event = NoEvent
    /\ reclaimed = FALSE

\* The first terminal event wins; it decides the outcome for good.
Establish(e) ==
    /\ phase = "live"
    /\ phase' = "decided"
    /\ event' = e
    /\ UNCHANGED reclaimed

\* One caller moves the decided connection to closed and owns its cleanup.
Close ==
    /\ phase = "decided"
    /\ phase' = "closed"
    /\ UNCHANGED <<event, reclaimed>>

\* The cleanup of a closed connection.
Reclaim ==
    /\ phase = "closed"
    /\ ~reclaimed
    /\ reclaimed' = TRUE
    /\ UNCHANGED <<phase, event>>

Next ==
    \/ \E e \in Events : Establish(e)
    \/ Close
    \/ Reclaim

Spec == Init /\ [][Next]_vars
==============================================================================

----------------------------- MODULE BoundedFifo ------------------------------
(***************************************************************************)
(* What the completion queue promises: a first-in first-out queue of       *)
(* bounded length that can be closed once.  A closed queue takes no more   *)
(* records, but what it holds can still be taken out.                      *)
(***************************************************************************)
EXTENDS Integers, Sequences

CONSTANTS Capacity, Records

VARIABLES queue, closed

vars == <<queue, closed>>

Init ==
    /\ queue = <<>>
    /\ closed = FALSE

Put(record) ==
    /\ ~closed
    /\ Len(queue) < Capacity
    /\ queue' = Append(queue, record)
    /\ UNCHANGED closed

Take ==
    /\ queue # <<>>
    /\ queue' = Tail(queue)
    /\ UNCHANGED closed

Close ==
    /\ ~closed
    /\ closed' = TRUE
    /\ UNCHANGED queue

Next == (\E record \in Records : Put(record)) \/ Take \/ Close

Spec == Init /\ [][Next]_vars
===============================================================================

----------------------------- MODULE HttpOutput -----------------------------
(***************************************************************************)
(* The output side of a connection: the response transaction of            *)
(* c/output/ck_http_response.c and the bounded socket writer of            *)
(* c/output/ck_http_output_writer.c.                                       *)
(*                                                                         *)
(* All calls are made by the connection's owner, one after the other: set  *)
(* up and write the response, finish it, serialise its headers and queue   *)
(* them, queue its body, drive the writer, start the next response.  The   *)
(* socket takes any part of what it is offered.  A call that is refused    *)
(* changes nothing and is no step.                                         *)
(*                                                                         *)
(* Every byte is told apart: <<k, 0, h>> is the header of the k-th         *)
(* response, which says h, <<k, i>> the i-th byte of its body.             *)
(***************************************************************************)
EXTENDS Integers, Sequences

CONSTANTS
    StagingBytes,   \* CK_HTTP_RESPONSE_BODY_BUFFER_BYTES
    WriterBytes,    \* CK_HTTP_OUTPUT_WRITE_BUFFER_BYTES
    WriteBudget,    \* CK_HTTP_OUTPUT_WRITE_BUDGET_BYTES
    Statuses,       \* the statuses a handler sets, valid or not
    Lengths         \* the Content-Lengths and write sizes a handler chooses

ASSUME OutputBounds ==
    /\ StagingBytes \in Nat /\ WriterBytes \in Nat \ {0}
    /\ WriteBudget \in Nat \ {0}
    /\ Statuses \subseteq Nat /\ Lengths \subseteq Nat

(* A body that could be staged can be queued once the writer is empty. *)
ASSUME StagedFits == StagingBytes <= WriterBytes

VARIABLES
    response,    \* ck_http_response_t; lengthSet and length are content_length*
    staged,      \* bytes of the serialised response that were queued
    buffer,      \* the writer's bytes, up to its end
    begin,       \* the writer's begin
    served,      \* responses that were recycled
    output,      \* history: the bytes the socket took
    earlier      \* history: what was queued of the responses before this one

outputVars == <<response, staged, buffer, begin, served, output, earlier>>

-----------------------------------------------------------------------------
ResponseInit ==
    [state |-> "NEW", status |-> 500, lengthSet |-> FALSE, length |-> 0,
     close |-> FALSE, body |-> 0]

OutputInit ==
    /\ response = ResponseInit
    /\ staged = 0
    /\ buffer = <<>> /\ begin = 0
    /\ served = 0
    /\ output = <<>> /\ earlier = <<>>

writerVars == <<staged, buffer, begin, served, output, earlier>>

ValidStatus(status) == status \in 200..599

(* ck_http_response_set_status() *)
SetStatus(status) ==
    /\ response.state = "NEW"
    /\ ValidStatus(status)
    /\ response' = [response EXCEPT !.status = status]
    /\ UNCHANGED writerVars

(* ck_http_response_set_content_length() *)
SetContentLength(n) ==
    /\ response.state = "NEW"
    /\ response' = [response EXCEPT !.lengthSet = TRUE, !.length = n]
    /\ UNCHANGED writerVars

(* ck_http_response_set_connection_close() *)
SetConnectionClose(enabled) ==
    /\ response.state = "NEW"
    /\ response' = [response EXCEPT !.close = enabled]
    /\ UNCHANGED writerVars

(* ck_http_response_reset() *)
Reset ==
    /\ response.state = "NEW"
    /\ response' = ResponseInit
    /\ UNCHANGED writerVars

(* ck_http_response_commit() *)
Commit ==
    /\ response.state = "NEW"
    /\ response' = [response EXCEPT !.state = "COMMITTED"]
    /\ UNCHANGED writerVars

(* ck_http_response_write_body(): the first write commits; a body that *)
(* outgrows the staging buffer fails the response.                     *)
WriteBody(n) ==
    /\ response.state \in {"NEW", "COMMITTED"}
    /\ response' = IF n > StagingBytes - response.body
                   THEN [response EXCEPT !.state = "FAILED"]
                   ELSE [response EXCEPT !.state = "COMMITTED", !.body = @ + n]
    /\ UNCHANGED writerVars

(* What a finished response looks like on the wire: the header tells the *)
(* set length, or the length of the body when none was set.              *)
HeaderOf(r, k) ==
    << <<k, 0, [status |-> r.status,
                length |-> IF r.lengthSet THEN r.length ELSE r.body,
                close  |-> r.close]>> >>

BodyOf(r, k) == [i \in 1..r.body |-> <<k, i>>]

Serialised(r, k) == HeaderOf(r, k) \o BodyOf(r, k)

(* ck_http_response_finish(): the body must have the length that was set. *)
Finish ==
    /\ response.state = "COMMITTED"
    /\ response' = [response EXCEPT !.state =
                       IF response.lengthSet /\ response.body # response.length
                       THEN "FAILED" ELSE "FINISHED"]
    /\ UNCHANGED writerVars

-----------------------------------------------------------------------------
(* ck_http_output_writer_queue(): the consumed front is reclaimed only when *)
(* the end has reached the capacity; data that does not fit behind the end  *)
(* is refused whole, the reclaimed space staying reclaimed.                 *)
Compacts == begin > 0 /\ Len(buffer) = WriterBytes

Buffered == SubSeq(buffer, begin + 1, Len(buffer))

(* A slip: reclaiming the front forgets where the pending bytes begin. *)
QueueKeepingBegin(data) ==
    LET kept == IF Compacts THEN Buffered ELSE buffer
    IN  /\ begin' = begin
        /\ IF Len(data) > WriterBytes - Len(kept)
           THEN buffer' = kept /\ UNCHANGED staged
           ELSE buffer' = kept \o data /\ staged' = staged + Len(data)

Queue(data) ==
    LET kept == IF Compacts THEN Buffered ELSE buffer
    IN  /\ begin' = IF Compacts THEN 0 ELSE begin
        /\ IF Len(data) > WriterBytes - Len(kept)
           THEN buffer' = kept /\ UNCHANGED staged
           ELSE buffer' = kept \o data /\ staged' = staged + Len(data)

(* The owner queues the serialised header of a finished response and its *)
(* body, in one call or in several, and tries again what was refused.    *)
QueueNext(n) ==
    /\ response.state = "FINISHED"
    /\ n >= 1 /\ staged + n <= Len(Serialised(response, served))
    /\ Queue(SubSeq(Serialised(response, served), staged + 1, staged + n))
    /\ UNCHANGED <<response, served, output, earlier>>

(* ck_http_output_writer_drive(), one call: the socket takes n bytes in one *)
(* or several sends, no more than the budget, before it is drained, would   *)
(* block or fails.                                                          *)
DriveWriter(n) ==
    /\ n <= Len(Buffered) /\ n <= WriteBudget
    /\ output' = output \o SubSeq(Buffered, 1, n)
    /\ IF n = Len(Buffered)
       THEN buffer' = <<>> /\ begin' = 0
       ELSE begin' = begin + n /\ UNCHANGED buffer
    /\ UNCHANGED <<response, staged, served, earlier>>

(* What of the response has been queued. *)
QueuedPart == SubSeq(Serialised(response, served), 1, staged)

(* The output side of ck_connection_http_recycle(): it asks for a finished *)
(* response and an empty writer, not whether the response was queued.      *)
NextResponse ==
    /\ response.state = "FINISHED"
    /\ Len(buffer) = begin
    /\ ~response.close
    /\ response' = ResponseInit
    /\ earlier' = earlier \o QueuedPart
    /\ staged' = 0
    /\ served' = served + 1
    /\ UNCHANGED <<buffer, begin, output>>

Handler ==
    \/ \E status \in Statuses : SetStatus(status)
    \/ \E n \in Lengths : SetContentLength(n) \/ WriteBody(n)
    \/ \E enabled \in BOOLEAN : SetConnectionClose(enabled)
    \/ Reset \/ Commit \/ Finish

OutputNext ==
    \/ Handler
    \/ \E n \in Nat : QueueNext(n) \/ DriveWriter(n)
    \/ NextResponse

OutputSpec == OutputInit /\ [][OutputNext]_outputVars

-----------------------------------------------------------------------------
(* The peer is sent what was queued, byte for byte and in order: what the   *)
(* socket took and what the writer holds are together exactly the parts of  *)
(* the responses that were queued, one response after the other, through    *)
(* partial sends, refused queue calls, the moves of the writer's bytes and  *)
(* the turnovers (ck_http_output_writer_queue() and _drive(),               *)
(* ck_connection_http_recycle()).                                           *)
OutputInOrder == output \o Buffered = earlier \o QueuedPart

=============================================================================

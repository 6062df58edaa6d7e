------------------------------ MODULE Exchange ------------------------------
(***************************************************************************)
(* One connection that serves a sequence of requests: the reader, its      *)
(* request body queue and the output side, brought together by             *)
(* ck_connection_http_recycle() of c/connection/ck_connection.c, which     *)
(* turns a finished exchange over to the next request.                     *)
(*                                                                         *)
(* The owner of the connection makes one call at a time: drive the reader, *)
(* work on the response of a request whose header is complete, drive the   *)
(* writer, recycle.  The peer and the consumer of the body run beside it.  *)
(***************************************************************************)
EXTENDS ConnectionReader, HttpOutput

vars == <<readerVars, outputVars>>

Init == ReaderInit /\ OutputInit

(* A connection whose reader or response has failed is given up. *)
OwnerFree == call.at = "idle" /\ result \notin Fatal /\ response.state # "FAILED"

(* The handler of a request works once the header is complete. *)
Handle ==
    /\ OwnerFree /\ reader.input.headerComplete
    /\ Handler
    /\ UNCHANGED readerVars

Respond ==
    /\ OwnerFree
    /\ \E n \in 1..WriterBytes : QueueNext(n)
    /\ UNCHANGED readerVars

Write(n) ==
    /\ OwnerFree /\ Buffered # <<>>
    /\ DriveWriter(n)
    /\ UNCHANGED readerVars

(* The writer's socket is gone. *)
WriteFails ==
    /\ OwnerFree /\ Buffered # <<>>
    /\ result' \in {"PEER_CLOSED", "IO_ERROR"}
    /\ UNCHANGED <<wire, stream, received, closed, reader, call, queue, message, delivered,
                   consumer, outputVars>>

(* A slip: the unread rest of a body does not stop the turnover. *)
RecycleUnread ==
    /\ OwnerFree
    /\ ~reader.input.request.closeRequired
    /\ queue.eof
    /\ NextResponse
    /\ NextRequest
    /\ result' = ""

(* A slip: a connection is turned over only with an empty read buffer. *)
RecycleWhenEmpty ==
    /\ OwnerFree
    /\ ~reader.input.request.closeRequired
    /\ queue.eof /\ queue.data = <<>> /\ Unread = <<>>
    /\ NextResponse
    /\ NextRequest
    /\ result' = ""

(* ck_connection_http_recycle() on an open connection: the message is      *)
(* complete and read to its end, the response is finished and sent, and    *)
(* neither side asked for the connection to be closed.                     *)
Recycle ==
    /\ OwnerFree
    /\ ~reader.input.request.closeRequired
    /\ queue.eof /\ queue.data = <<>>
    /\ NextResponse
    /\ NextRequest
    /\ result' = ""

DriveReader == OwnerFree /\ Drive /\ UNCHANGED outputVars

ReaderStep ==
    /\ Process \/ Complete \/ GiveUp \/ ReceiveNothing \/ ReceiveEnd
    /\ UNCHANGED outputVars

ReaderReceives == (\E n \in 1..ReadBudget : Receive(n)) /\ UNCHANGED outputVars

ConsumerStep == Consume /\ UNCHANGED outputVars

Next ==
    \/ DriveReader \/ ReaderStep \/ ReaderReceives
    \/ ConsumerStep
    \/ Handle \/ Respond
    \/ \E n \in 0..WriteBudget : Write(n)
    \/ WriteFails
    \/ Recycle

(* The steps that bring an exchange on: commit, finish, queue, send, turn over. *)
Answer ==
    \/ Handle /\ response'.state # "NEW"
    \/ Respond
    \/ \E n \in 1..WriteBudget : Write(n)
    \/ Recycle

(* The owner is due to call the reader: the socket has bytes (the event     *)
(* loop is level-triggered), or the connection is new or just turned over.  *)
(* Bytes that are left in the reader's buffer wake nobody.                  *)
Due == received < Len(stream) \/ result = ""

(* A call of the reader goes on until it returns (weak fairness, with the   *)
(* condition under which a step is enabled written out; every step of a     *)
(* call changes call), and the owner makes the next when it is due.         *)
(* Readiness means that the socket gives or takes at least a byte, time and *)
(* again.  The handler commits and finishes; the consumer reads on.         *)
Fairness ==
    /\ []<>(call.at = "idle") \/ []<><<call' # call>>_vars
    /\ WF_vars(Due /\ DriveReader) /\ SF_vars(ReaderReceives)
    /\ WF_vars(ConsumerStep)
    /\ SF_vars(Answer)

Spec == Init /\ [][Next]_vars /\ Fairness

-----------------------------------------------------------------------------
Current == wire[message]
BodiesOf(messages) == FlattenSeq([i \in DOMAIN messages |-> messages[i].body])

(* Whatever pieces the stream arrives in and wherever the budgets and the   *)
(* queue cut it, the queue is given the decoded body of the message being   *)
(* read, in order, and all of it when the message counts as complete; and   *)
(* across the turnovers the consumers get every byte the queue was given,   *)
(* once (ck_http_connection_reader_drive(), ck_http_input_feed(),           *)
(* ck_http_chunked_feed(), ck_connection_http_recycle()).                   *)
BodyAsFramed ==
    /\ delivered # <<>> => IsPrefix(delivered, Current.body)
    /\ reader.input.complete => delivered = Current.body
    /\ consumer.got \o queue.data
         = BodiesOf(SubSeq(wire, 1, message - 1)) \o delivered

(* When a message is complete, the unread bytes of the buffer and of the    *)
(* socket are exactly the messages that follow: no byte of this message is  *)
(* left for the next, none of the next is taken (reader->begin).            *)
BoundaryKept ==
    reader.input.complete =>
        Unread \o SubSeq(stream, received + 1, Len(stream))
          = BytesOf(SubSeq(wire, message + 1, Len(wire)))

(* A message is completed only if the framing policy accepts it, and then   *)
(* one that must be the connection's last is marked so; it is refused only  *)
(* if the policy refuses it, or for a buffer that is full behind a line end *)
(* which the processing budget has cut in two (parse_header_block(),        *)
(* chunked decoder, the loop of ck_http_connection_reader_drive()).         *)
VerdictAsPolicy ==
    /\ reader.input.complete =>
          /\ Current.accept
          /\ reader.input.request.closeRequired = Current.close
    /\ result = "BAD_REQUEST" => ~Current.accept
    /\ result = "TOO_LARGE" => ~Current.accept \/ (Full /\ Head(Unread) = "CR")

(* Framing that is ambiguous is rejected, and the numbers of Content-Length *)
(* are validated, illegal ones among them (docs/HTTP_FRAMING_POLICY.md): a  *)
(* message the policy does not accept is never read to its completion       *)
(* (parse_content_length_headers()).                                        *)
AmbiguousRefused == reader.input.complete => Current.accept

(* The first k messages have been received. *)
Whole(k) == received >= Len(BytesOf(SubSeq(wire, 1, k)))

(* The queue tells its consumer the end of the body only when it was given  *)
(* the whole body; it tells an error only when the stream has ended and the *)
(* message has not, or only lacks a line end that the processing budget has *)
(* cut in two (ck_http_request_body_mark_eof(), _mark_error()).             *)
EndIsTrue ==
    /\ queue.eof => message <= Len(wire) /\ delivered = Current.body
    /\ queue.error =>
          /\ ~queue.eof
          /\ closed
          /\ message <= Len(wire) /\ Current.accept /\ Whole(message) =>
                Unread # <<>> /\ Head(Unread) = "CR"

(* A body is reported broken only when its message was cut short: the       *)
(* budgets of a call are no limit on messages                               *)
(* (ck_http_connection_reader_drive() at the end of the stream).            *)
ErrorIsTruncation ==
    queue.error /\ message <= Len(wire) => ~(Current.accept /\ Whole(message))

(* Where a connection stops for good. *)
Over ==
    \/ message > Len(wire)
    \/ result \in Fatal \/ closed
    \/ reader.input.complete /\ reader.input.request.closeRequired
    \/ response.close \/ response.state = "FAILED"

(* The reader came back with bytes in its buffer, for its budget or for the *)
(* queue's room, and the socket, which has no more, will not wake the owner.*)
Stalled ==
    /\ call.at = "idle" /\ result \in {"INCOMPLETE", "BODY_BACKPRESSURE"}
    /\ Unread # <<>> /\ received = Len(stream)

(* The consumer has left with the end of a body whose last bytes it did not *)
(* take: it saw the queue empty before they came and the flag after that.   *)
Deserted == consumer.end = "EOF" /\ queue.data # <<>>

(* Every message of the peer is read, answered and turned over to the next, *)
(* unless the connection is over or stays in one of the two states above:   *)
(* neither a full queue nor a full writer, nor the next message's bytes     *)
(* behind this one's, hold it up for ever (the returns of                   *)
(* ck_http_connection_reader_drive(), ck_connection_http_recycle()).        *)
ExchangesEnd == <>Over \/ <>[]Stalled \/ <>[]Deserted

=============================================================================

-------------------------- MODULE ConnectionReader --------------------------
(***************************************************************************)
(* The connection reader, c/http/ck_http_connection_reader.c: bytes of the *)
(* socket go through a bounded buffer into the request input state, and    *)
(* body spans into the connection's request body queue, under a budget for *)
(* reading and a budget for processing per call.                           *)
(*                                                                         *)
(* ck_http_connection_reader_drive() runs on the connection's owner; while *)
(* it runs the peer sends and the consumer of the body reads.  What the    *)
(* call does between two accesses to the socket or the queue is one step.  *)
(* The queue is here a bounded queue with all-or-nothing writes, in which  *)
(* bytes are taken in one step and the flags are looked at a step after    *)
(* the bytes; RequestBody.tla models it load by load.                      *)
(*                                                                         *)
(* A behaviour begins with the messages the peer is going to send.  Each   *)
(* carries what it means: the decoded body, whether the framing policy     *)
(* accepts it, whether it ends the connection.                             *)
(***************************************************************************)
EXTENDS HttpInput

CONSTANTS
    Wires,            \* sequences of messages [bytes, body, accept, close]
    BufferBytes,      \* CK_HTTP_CONNECTION_READ_BUFFER_BYTES
    ReadBudget, ProcessBudget,
    QueueBytes        \* CK_HTTP_REQUEST_BODY_BUFFER_BYTES

(* The reader counts on a queue that holds what one call can process. *)
ASSUME ReaderBounds ==
    /\ BufferBytes \in Nat \ {0} /\ ReadBudget \in Nat \ {0}
    /\ ProcessBudget \in Nat \ {0}
    /\ QueueBytes \in Nat /\ QueueBytes >= ProcessBudget

VARIABLES
    wire,        \* the messages, in the order the peer sends them
    stream,      \* their bytes
    received,    \* bytes taken from the socket
    closed,      \* the socket has told the end of the stream
    reader,      \* [buffer, begin, input]; the buffer ends at its length
    call,        \* [at, read, process]: the running call and its budgets
    result,      \* what the last call returned
    queue,       \* [data, eof, error]
    message,     \* the message being read, counted from 1
    delivered,   \* history: body bytes the queue took for this message
    consumer     \* [of, got, looked, end]: the reading side and the bytes it got

readerVars == <<wire, stream, received, closed, reader, call, result, queue, message,
                delivered, consumer>>

-----------------------------------------------------------------------------
BytesOf(messages) ==
    FlattenSeq([i \in DOMAIN messages |-> messages[i].bytes])

QueueInit == [data |-> <<>>, eof |-> FALSE, error |-> FALSE]
Idle == [at |-> "idle", read |-> 0, process |-> 0]

(* ck_http_connection_reader_init(), with the queue attached. *)
ReaderInit ==
    /\ wire \in Wires /\ stream = BytesOf(wire)
    /\ received = 0 /\ closed = FALSE
    /\ reader = [buffer |-> <<>>, begin |-> 0, input |-> InputInit]
    /\ call = Idle
    /\ result = ""
    /\ queue = QueueInit
    /\ message = 1
    /\ delivered = <<>>
    /\ consumer = [of |-> 1, got |-> <<>>, looked |-> FALSE, end |-> ""]

(* The results after which the owner gives the connection up. *)
Fatal == {"BAD_REQUEST", "TOO_LARGE", "EOF_INCOMPLETE", "IO_ERROR", "PEER_CLOSED"}

Return(code) == call' = Idle /\ result' = code

-----------------------------------------------------------------------------
(* ck_http_connection_reader_drive() is called with fresh budgets. *)
Drive ==
    /\ call.at = "idle"
    /\ result \notin Fatal
    /\ call' = [at |-> "process", read |-> ReadBudget, process |-> ProcessBudget]
    /\ UNCHANGED <<wire, stream, received, closed, reader, result, queue, message,
                   delivered, consumer>>

Unread == SubSeq(reader.buffer, reader.begin + 1, Len(reader.buffer))

(* The feed has consumed n bytes: a complete message goes on to the end of *)
(* the call, a refusal ends it, and otherwise the loop goes on while it    *)
(* makes progress.                                                         *)
Advance(input, n, code) ==
    /\ reader' = [reader EXCEPT !.begin = @ + n, !.input = input]
    /\ IF code \in {"BAD_REQUEST", "TOO_LARGE"}
       THEN Return(code)
       ELSE /\ call' = [call EXCEPT !.process = @ - n,
                                    !.at = IF input.complete THEN "complete"
                                           ELSE IF n = 0 \/ n = Len(Unread)
                                           THEN "receive" ELSE "process"]
            /\ UNCHANGED result

(* One turn of the inner loop: feed what the budget allows, and give a body *)
(* span to the queue.  A span the queue has no room for stays pending in    *)
(* the input state, and the call returns without moving its begin.          *)
Process ==
    LET n == IF Len(Unread) < call.process THEN Len(Unread) ELSE call.process
    IN  /\ call.at = "process" /\ Unread # <<>> /\ call.process > 0
        /\ \E fed \in {InputFeed(reader.input, reader.begin, SubSeq(Unread, 1, n))} :
              LET span == fed.input.pending
                  data == SubSeq(reader.buffer, span.at + 1, span.at + span.length)
              IN  \/ /\ span.length = 0
                     /\ Advance(fed.input, fed.consumed, fed.result)
                     /\ UNCHANGED <<queue, delivered>>
                  \/ /\ span.length # 0
                     /\ Len(queue.data) + span.length <= QueueBytes
                     /\ queue' = [queue EXCEPT !.data = @ \o data]
                     /\ delivered' = delivered \o data
                     /\ Advance(InputAck(fed.input), fed.consumed + span.consumed, "BODY")
                  \/ /\ span.length # 0
                     /\ Len(queue.data) + span.length > QueueBytes
                     /\ reader' = [reader EXCEPT !.input = fed.input]
                     /\ Return("BODY_BACKPRESSURE")
                     /\ UNCHANGED <<queue, delivered>>
        /\ UNCHANGED <<wire, stream, received, closed, message, consumer>>

(* The message is complete: the queue is told so. *)
Complete ==
    /\ call.at = "complete"
    /\ queue' = [queue EXCEPT !.eof = TRUE]
    /\ Return("REQUEST_COMPLETE")
    /\ UNCHANGED <<wire, stream, received, closed, reader, message, delivered, consumer>>

(* The processing budget is spent with bytes left. *)
Exhausted == Unread # <<>> /\ call.process = 0

(* The buffer is full of bytes that cannot be moved out of the way. *)
Full == Len(reader.buffer) = BufferBytes /\ reader.begin = 0

(* The loop ends before the socket is asked. *)
GiveUp ==
    /\ \/ call.at \in {"process", "receive"} /\ Exhausted /\ Return("INCOMPLETE")
       \/ call.at = "receive" /\ ~Exhausted /\ Full /\ Return("TOO_LARGE")
    /\ UNCHANGED <<wire, stream, received, closed, reader, queue, message, delivered,
                   consumer>>

(* A full buffer is compacted before the next bytes are asked for. *)
Compacted ==
    IF Len(reader.buffer) = BufferBytes
    THEN [reader EXCEPT !.buffer = Unread, !.begin = 0] ELSE reader

AtReceive ==
    /\ call.at = "receive" \/ (call.at = "process" /\ Unread = <<>>)
    /\ ~Exhausted /\ ~Full

(* The socket gives some of the bytes it has, as the budget allows. *)
Receive(n) ==
    /\ AtReceive
    /\ ~closed
    /\ n <= call.read /\ n <= BufferBytes - Len(Compacted.buffer)
    /\ n <= Len(stream) - received
    /\ reader' = [Compacted EXCEPT
                    !.buffer = @ \o SubSeq(stream, received + 1, received + n)]
    /\ received' = received + n
    /\ call' = [call EXCEPT !.at = "process", !.read = @ - n]
    /\ UNCHANGED <<wire, stream, closed, result, queue, message, delivered, consumer>>

(* No budget is left, the socket has no byte now, or it fails. *)
ReceiveNothing ==
    /\ AtReceive
    /\ reader' = Compacted
    /\ \/ call.read = 0 /\ Return("INCOMPLETE")
       \/ call.read > 0 /\ ~closed /\ Return("INCOMPLETE")
       \/ call.read > 0 /\ ~closed /\ Return("IO_ERROR")
    /\ UNCHANGED <<wire, stream, received, closed, queue, message, delivered, consumer>>

(* A slip: the end of the stream is taken for the end of the body. *)
ReceiveEndAsEof ==
    /\ AtReceive
    /\ call.read > 0
    /\ reader' = Compacted
    /\ closed' = TRUE
    /\ Return(IF InputEof(reader.input) = "COMPLETE" THEN "REQUEST_COMPLETE"
              ELSE "EOF_INCOMPLETE")
    /\ queue' = [queue EXCEPT !.eof = TRUE]
    /\ UNCHANGED <<wire, stream, received, message, delivered, consumer>>

(* The end of the stream, which inside a message is an error of the body. *)
ReceiveEnd ==
    /\ AtReceive
    /\ call.read > 0
    /\ reader' = Compacted
    /\ closed' = TRUE
    /\ \/ /\ InputEof(reader.input) = "COMPLETE"
          /\ Return("REQUEST_COMPLETE")
          /\ UNCHANGED queue
       \/ /\ InputEof(reader.input) = "EOF_INCOMPLETE"
          /\ Return("EOF_INCOMPLETE")
          /\ queue' = [queue EXCEPT !.error = TRUE]
    /\ UNCHANGED <<wire, stream, received, message, delivered, consumer>>

(* ck_http_connection_reader_next_request(): the bytes that are left over  *)
(* are moved to the front and belong to the next message.                  *)
NextRequest ==
    /\ reader.input.complete
    /\ reader' = [buffer |-> Unread, begin |-> 0, input |-> InputInit]
    /\ queue' = QueueInit
    /\ message' = message + 1
    /\ delivered' = <<>>
    /\ UNCHANGED <<wire, stream, received, closed, call, consumer>>

-----------------------------------------------------------------------------
(* The consumer of the body: ck_http_request_body_read() until it tells the *)
(* end or an error; one consumer after the other, each for its message.     *)
Read(n) ==
    /\ consumer.end = "" /\ ~consumer.looked
    /\ n \in 1..Len(queue.data)
    /\ consumer' = [consumer EXCEPT !.got = @ \o SubSeq(queue.data, 1, n)]
    /\ queue' = [queue EXCEPT !.data = SubSeq(@, n + 1, Len(@))]
    /\ UNCHANGED <<wire, stream, received, closed, reader, call, result, message,
                   delivered>>

(* The queue is seen empty; its flags are loaded after that. *)
ReadLook ==
    /\ consumer.end = "" /\ ~consumer.looked
    /\ queue.data = <<>>
    /\ consumer' = [consumer EXCEPT !.looked = TRUE]
    /\ UNCHANGED <<wire, stream, received, closed, reader, call, result, queue, message,
                   delivered>>

(* The flags decide, whatever was queued since; without one the call would *)
(* block and is made again.                                                *)
ReadEnd ==
    /\ consumer.looked
    /\ consumer' = [consumer EXCEPT !.looked = FALSE,
                                    !.end = IF queue.error THEN "ERROR"
                                            ELSE IF queue.eof THEN "EOF" ELSE ""]
    /\ UNCHANGED <<wire, stream, received, closed, reader, call, result, queue, message,
                   delivered>>

Attend ==
    /\ consumer.end = "EOF" /\ consumer.of < message
    /\ consumer' = [consumer EXCEPT !.of = @ + 1, !.end = ""]
    /\ UNCHANGED <<wire, stream, received, closed, reader, call, result, queue, message,
                   delivered>>

Consume == (\E n \in 1..QueueBytes : Read(n)) \/ ReadLook \/ ReadEnd \/ Attend

=============================================================================

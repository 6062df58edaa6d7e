----------------------------- MODULE RequestBody ------------------------------
(***************************************************************************)
(* The request-body queue (ck_http_request_body.c): a lock-free ring with  *)
(* one producer, the connection reader, and one consumer, the Servlet      *)
(* side.  Every atomic load and store, and the copy of every byte, is a    *)
(* step, so that the two sides interleave inside one another's calls.      *)
(* Calls that return WOULD_BLOCK, CLOSED or INVALID to the producer change *)
(* nothing and are stuttering steps.                                       *)
(***************************************************************************)
EXTENDS Integers, Sequences

CONSTANTS
    Size,           \* CK_HTTP_REQUEST_BODY_BUFFER_BYTES
    Spans,          \* lengths of the body spans the reader writes
    Capacities,     \* lengths of the buffers the consumer passes to read
    MaxBytes        \* bound: how many bytes one request's body has

ASSUME RequestBodyAssumption ==
    /\ Size \in Nat \ {0}
    /\ Spans \subseteq Nat \ {0}
    /\ Capacities \subseteq Nat
    /\ MaxBytes \in Nat

VARIABLES
    head, tail,     \* the atomic counters: bytes written, bytes read
    eof, error,     \* the atomic flags
    buffer,         \* the ring
    producer,       \* the producer's call: [pc, at, to], a span being copied
    consumer,       \* the consumer's call: [pc, head, at, to, capacity]
    got,            \* history: the bytes the consumer was given
    ended,          \* history: how the body ended for the consumer
    settled         \* history: a flag was up when the last read loaded head

bodyVars == <<head, tail, eof, error, buffer, producer, consumer, got, ended,
              settled>>

\* A byte is told apart by its position in the body; 0 was never written.
Byte(position) == position + 1

IdleProducer == [pc |-> "idle", at |-> 0, to |-> 0]
IdleConsumer == [pc |-> "idle", head |-> 0, at |-> 0, to |-> 0, capacity |-> 0]

BodyInit ==
    /\ head = 0 /\ tail = 0
    /\ eof = FALSE /\ error = FALSE
    /\ buffer = [i \in 0 .. Size - 1 |-> 0]
    /\ producer = IdleProducer
    /\ consumer = IdleConsumer
    /\ got = <<>>
    /\ ended = "no"
    /\ settled = FALSE

-------------------------------------------------------------------------------
(* The producer.  head, eof and error are only stored by this side.        *)

\* A slip: the room in the ring is counted one too high.
WriteBeginOver(length) ==
    /\ producer.pc = "idle"
    /\ ~eof /\ ~error
    /\ head + length <= MaxBytes
    /\ Size - (head - tail) + 1 >= length
    /\ producer' = [pc |-> "copy", at |-> head, to |-> head + length]
    /\ UNCHANGED <<head, tail, eof, error, buffer, consumer, got, ended, settled>>

\* ck_http_request_body_write up to its last check, at the load of tail: the
\* whole span fits, or nothing is written.
WriteBegin(length) ==
    /\ producer.pc = "idle"
    /\ ~eof /\ ~error
    /\ head + length <= MaxBytes
    /\ head - tail <= Size
    /\ Size - (head - tail) >= length
    /\ producer' = [pc |-> "copy", at |-> head, to |-> head + length]
    /\ UNCHANGED <<head, tail, eof, error, buffer, consumer, got, ended, settled>>

WriteCopy ==
    /\ producer.pc = "copy"
    /\ producer.at < producer.to
    /\ buffer' = [buffer EXCEPT ![producer.at % Size] = Byte(producer.at)]
    /\ producer' = [producer EXCEPT !.at = @ + 1]
    /\ UNCHANGED <<head, tail, eof, error, consumer, got, ended, settled>>

\* A slip: head is published before the bytes are copied.
WritePublishEarly ==
    /\ producer.pc = "copy"
    /\ head' = producer.to
    /\ producer' = IdleProducer
    /\ UNCHANGED <<tail, eof, error, buffer, consumer, got, ended, settled>>

WritePublish ==
    /\ producer.pc = "copy"
    /\ producer.at = producer.to
    /\ head' = producer.to
    /\ producer' = IdleProducer
    /\ UNCHANGED <<tail, eof, error, buffer, consumer, got, ended, settled>>

\* ck_http_request_body_mark_eof, when the reader has framed the whole request.
MarkEof ==
    /\ producer.pc = "idle"
    /\ ~eof /\ ~error
    /\ eof' = TRUE
    /\ UNCHANGED <<head, tail, error, buffer, producer, consumer, got,
                   ended, settled>>

\* ck_http_request_body_mark_error, when the peer ends the request early.
MarkError ==
    /\ producer.pc = "idle"
    /\ ~eof /\ ~error
    /\ error' = TRUE
    /\ UNCHANGED <<head, tail, eof, buffer, producer, consumer, got,
                   ended, settled>>

-------------------------------------------------------------------------------
(* The consumer.  Only this side stores tail.                              *)

\* ck_http_request_body_read: the load of head ...
ReadHead(capacity) ==
    /\ consumer.pc = "idle"
    /\ ended = "no"
    /\ consumer' = [IdleConsumer EXCEPT !.pc = "tail", !.head = head,
                                        !.capacity = capacity]
    /\ settled' = (eof \/ error)
    /\ UNCHANGED <<head, tail, eof, error, buffer, producer, got, ended>>

\* A slip: the flags are looked at before the bytes.
ReadTailFlagsFirst ==
    LET available == consumer.head - tail
        length == IF available > consumer.capacity THEN consumer.capacity ELSE available
    IN  /\ consumer.pc = "tail"
        /\ consumer' = IF available = 0 \/ error \/ eof THEN [consumer EXCEPT !.pc = "error"]
                       ELSE IF consumer.capacity = 0 THEN IdleConsumer
                       ELSE [consumer EXCEPT !.pc = "copy", !.at = tail, !.to = tail + length]
        /\ UNCHANGED <<head, tail, eof, error, buffer, producer, got,
                       ended, settled>>

\* A slip: a full ring is taken for a corrupt one.
ReadTailFull ==
    LET available == consumer.head - tail
        length == IF available > consumer.capacity THEN consumer.capacity ELSE available
    IN  /\ consumer.pc = "tail"
        /\ consumer' = IF available < 0 \/ available >= Size THEN IdleConsumer
                       ELSE IF available = 0 THEN [consumer EXCEPT !.pc = "error"]
                       ELSE IF consumer.capacity = 0 THEN IdleConsumer
                       ELSE [consumer EXCEPT !.pc = "copy", !.at = tail, !.to = tail + length]
        /\ UNCHANGED <<head, tail, eof, error, buffer, producer, got,
                       ended, settled>>

\* ... and of tail.  The unsigned difference is out of range when head is behind.
ReadTail ==
    LET available == consumer.head - tail
        length == IF available > consumer.capacity THEN consumer.capacity ELSE available
    IN  /\ consumer.pc = "tail"
        /\ consumer' = IF available < 0 \/ available > Size THEN IdleConsumer
                       ELSE IF available = 0 THEN [consumer EXCEPT !.pc = "error"]
                       ELSE IF consumer.capacity = 0 THEN IdleConsumer
                       ELSE [consumer EXCEPT !.pc = "copy", !.at = tail, !.to = tail + length]
        /\ UNCHANGED <<head, tail, eof, error, buffer, producer, got,
                       ended, settled>>

\* A slip: an error is reported like an empty queue.
ReadErrorQuiet ==
    /\ consumer.pc = "error"
    /\ consumer' = IF error THEN IdleConsumer ELSE [consumer EXCEPT !.pc = "eof"]
    /\ UNCHANGED <<head, tail, eof, error, buffer, producer, got, ended, settled>>

\* Nothing was available: is it an error, the end, or only not yet?
ReadError ==
    /\ consumer.pc = "error"
    /\ \/ /\ error
          /\ ended' = "error"
          /\ consumer' = IdleConsumer
       \/ /\ ~error
          /\ consumer' = [consumer EXCEPT !.pc = "eof"]
          /\ UNCHANGED ended
    /\ UNCHANGED <<head, tail, eof, error, buffer, producer, got, settled>>

ReadEof ==
    /\ consumer.pc = "eof"
    /\ ended' = IF eof THEN "eof" ELSE ended
    /\ consumer' = IdleConsumer
    /\ UNCHANGED <<head, tail, eof, error, buffer, producer, got, settled>>

ReadCopy ==
    /\ consumer.pc = "copy"
    /\ consumer.at < consumer.to
    /\ got' = Append(got, buffer[consumer.at % Size])
    /\ consumer' = [consumer EXCEPT !.at = @ + 1]
    /\ UNCHANGED <<head, tail, eof, error, buffer, producer, ended,
                   settled>>

ReadPublish ==
    /\ consumer.pc = "copy"
    /\ consumer.at = consumer.to
    /\ tail' = consumer.to
    /\ consumer' = IdleConsumer
    /\ UNCHANGED <<head, eof, error, buffer, producer, got,
                       ended, settled>>

ProducerStep == WriteCopy \/ WritePublish
ConsumerStep == ReadTail \/ ReadError \/ ReadEof \/ ReadCopy \/ ReadPublish

BodyNext ==
    \/ \E length \in Spans : WriteBegin(length)
    \/ MarkEof
    \/ MarkError
    \/ ProducerStep
    \/ \E capacity \in Capacities : ReadHead(capacity)
    \/ ConsumerStep

BodySpec == BodyInit /\ [][BodyNext]_bodyVars

\* Each side finishes the call it is in, and the consumer comes back with room
\* for a byte until it is told the end; nobody is obliged to send or end a body.
BodyFairness ==
    /\ WF_bodyVars(ProducerStep)
    /\ WF_bodyVars(ConsumerStep)
    /\ SF_bodyVars(\E capacity \in Capacities \ {0} : ReadHead(capacity))

BodyFairSpec == BodySpec /\ BodyFairness

-------------------------------------------------------------------------------
Bytes == Nat

BodyTypeOK ==
    /\ head \in Nat /\ tail \in Nat
    /\ eof \in BOOLEAN /\ error \in BOOLEAN
    /\ buffer \in [0 .. Size - 1 -> Bytes]
    /\ producer \in [pc : {"idle", "copy"}, at : Nat, to : Nat]
    /\ consumer \in [pc : {"idle", "tail", "error", "eof", "copy"}, head : Nat,
                     at : Nat, to : Nat, capacity : Nat]
    /\ got \in Seq(Bytes)
    /\ ended \in {"no", "eof", "error"}
    /\ settled \in BOOLEAN

\* The consumer is given the bytes of the body in order, none lost, none twice
\* and none torn by a write in progress, wherever the ring wraps.
InOrder == \A i \in 1 .. Len(got) : got[i] = Byte(i - 1)

\* The two memcpys never touch the same cell: the region being written and the
\* region being read do not meet, although neither side locks.
CopiesDisjoint ==
    producer.pc = "copy" /\ consumer.pc = "copy" =>
        \A i \in producer.at .. producer.to - 1, j \in consumer.at .. consumer.to - 1 :
            i % Size # j % Size

\* A read that starts after the body has ended returns EOF or ERROR only when
\* the consumer has been given every byte.
SettledEndIsWhole == ended # "no" /\ settled => Len(got) = head

\* EOF is "the request body is complete and there are no more body bytes"
\* (docs/SERVLET_INPUT_STREAM_MODEL.md), so whoever got EOF got every byte.
EofMeansComplete == ended = "eof" => Len(got) = head

\* What the producer published reaches a consumer that keeps reading, unless
\* it is told the end first.
BytesArrive ==
    \A n \in 1 .. MaxBytes : (head >= n) ~> (Len(got) >= n \/ ended # "no")

\* mark_eof and mark_error are not lost on a consumer that keeps reading.
EndIsSeen == (eof \/ error) ~> (ended # "no")
===============================================================================

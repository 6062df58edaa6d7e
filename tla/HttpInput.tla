----------------------------- MODULE HttpInput -----------------------------
(***************************************************************************)
(* The per-request input state, c/http/ck_http_input.c, as operators: the  *)
(* header parser, then the body by Content-Length or by chunks, with each  *)
(* body span handed out as a pending span that the caller acknowledges     *)
(* once its sink has taken it.                                             *)
(***************************************************************************)
EXTENDS HttpParser, HttpChunked

ASSUME OneUint64 == UintMax = MaxUint

NoPending == [at |-> 0, length |-> 0, consumed |-> 0, complete |-> FALSE]

(* ck_http_input_init() and ck_http_input_next_request(). *)
InputInit ==
    [parser |-> ParserInit, chunked |-> ChunkedInit, request |-> NoRequest,
     headerComplete |-> FALSE, lengthRemaining |-> 0, complete |-> FALSE,
     pending |-> NoPending]

(* The span a call hands out is at pending.at of the caller's buffer; *)
(* length is zero when there is none.                                 *)
Fed(input, consumed, result) ==
    [input |-> input, consumed |-> consumed, result |-> result]

-----------------------------------------------------------------------------
(* A slip: acknowledging the end of a body takes what follows it as well. *)
LengthBodyFeedAll(input, base, source, from) ==
    LET available == Len(source) - from
        take      == IF input.lengthRemaining < available
                     THEN input.lengthRemaining ELSE available
    IN  Fed([input EXCEPT
               !.lengthRemaining = @ - take,
               !.pending = [at |-> base + from, length |-> take, consumed |-> available,
                            complete |-> input.lengthRemaining = take]],
            from, IF take # 0 THEN "BODY" ELSE "INCOMPLETE")

(* What there is of a Content-Length body, from position "from" of source. *)
LengthBodyFeed(input, base, source, from) ==
    LET available == Len(source) - from
        take      == IF input.lengthRemaining < available
                     THEN input.lengthRemaining ELSE available
    IN  Fed([input EXCEPT
               !.lengthRemaining = @ - take,
               !.pending = [at |-> base + from, length |-> take, consumed |-> take,
                            complete |-> input.lengthRemaining = take]],
            from, IF take # 0 THEN "BODY" ELSE "INCOMPLETE")

(* What one call of the decoder has given; the framing bytes before a span *)
(* are consumed with the span.                                             *)
ChunkedFed(input, base, from, fed) ==
    IF fed.bodyLength # 0
    THEN Fed([input EXCEPT
                !.chunked = fed.d,
                !.pending = [at |-> base + from + fed.bodyAt,
                             length |-> fed.bodyLength,
                             consumed |-> fed.consumed,
                             complete |-> fed.result = "COMPLETE"]],
             from, "BODY")
    ELSE Fed([input EXCEPT !.chunked = fed.d,
                           !.complete = fed.result = "COMPLETE"],
             from + fed.consumed, fed.result)

ChunkedBodyFeed(input, base, source, from) ==
    ChunkedFed(input, base, from,
               ChunkedFeed(input.chunked, SubSeq(source, from + 1, Len(source))))

BodyFeed(input, base, source, from) ==
    IF input.request.bodyMode = "CONTENT_LENGTH"
    THEN LengthBodyFeed(input, base, source, from)
    ELSE ChunkedBodyFeed(input, base, source, from)

(* What the parser has given: after the end of the header, in the same *)
(* call, the body bytes that follow it.                                *)
HeaderFed(input, base, source, fed) ==
    LET parsed == [input EXCEPT
                     !.parser = fed.parser,
                     !.request = fed.request,
                     !.headerComplete = fed.result = "COMPLETE",
                     !.lengthRemaining = fed.request.contentLength]
    IN  IF fed.result # "COMPLETE" THEN Fed(parsed, fed.consumed, fed.result)
        ELSE IF \/ fed.request.bodyMode = "NONE"
                \/ /\ fed.request.bodyMode = "CONTENT_LENGTH"
                   /\ fed.request.contentLength = 0
        THEN Fed([parsed EXCEPT !.complete = TRUE], fed.consumed, "COMPLETE")
        ELSE BodyFeed(parsed, base, source, fed.consumed)

HeaderFeed(input, base, source) ==
    HeaderFed(input, base, source, ParserFeed(input.parser, source))

(* ck_http_input_feed(): a span that is still pending is handed out again *)
(* and nothing new is looked at.                                          *)
InputFeed(input, base, source) ==
    IF input.pending.length # 0 THEN Fed(input, 0, "BODY")
    ELSE IF input.complete THEN Fed(input, 0, "COMPLETE")
    ELSE IF ~input.headerComplete THEN HeaderFeed(input, base, source)
    ELSE BodyFeed(input, base, source, 0)

(* ck_http_input_ack_body(): the pending span is settled. *)
InputAck(input) ==
    [input EXCEPT !.complete = @ \/ input.pending.complete,
                  !.pending = NoPending]

(* ck_http_input_eof(): only a complete message may end with the stream. *)
InputEof(input) == IF input.complete THEN "COMPLETE" ELSE "EOF_INCOMPLETE"

=============================================================================

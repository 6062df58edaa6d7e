---------------------------- MODULE HttpChunked ----------------------------
(***************************************************************************)
(* The chunked body decoder, c/http/ck_http_chunked.c, as operators.       *)
(*                                                                         *)
(* Bytes are strings: "CR", "LF", the characters of Hex with their value,  *)
(* ";" and ":", the control characters of Control, the token characters of *)
(* Token; any other string is a byte that no line may be made of but that  *)
(* body data may.                                                          *)
(***************************************************************************)
EXTENDS Integers, Sequences, SequencesExt

CONSTANTS
    Hex,               \* hexadecimal digit -> its value
    Token, Control,    \* characters of a field name; control characters
    UintMax,           \* UINT64_MAX
    MaxLine,           \* sizeof(decoder->line) - 1
    MaxBody, MaxTrailers, MaxTrailerBytes

ASSUME ChunkedBounds ==
    {UintMax, MaxLine, MaxBody, MaxTrailers, MaxTrailerBytes} \subseteq Nat

ChunkedInit ==
    [state |-> "SIZE", remaining |-> 0, total |-> 0, line |-> <<>>,
     trailerBytes |-> 0, trailers |-> 0]

-----------------------------------------------------------------------------
(* Where the first of these characters is, one past the end if it is not. *)
Find(line, char) ==
    Min({i \in DOMAIN line : line[i] = char} \cup {Len(line) + 1})

(* parse_chunk_size(): hexadecimal digits that fit 64 bits, then an *)
(* optional extension without control characters; -1 is a refusal.  *)
ParseChunkSize(line) ==
    LET semicolon == Find(line, ";")
        digits    == SubSeq(line, 1, semicolon - 1)
        extension == SubSeq(line, semicolon + 1, Len(line))
        push(value, c) ==
            IF \/ value < 0 \/ c \notin DOMAIN Hex
               \/ value > (UintMax - Hex[c]) \div 16
            THEN -1 ELSE value * 16 + Hex[c]
    IN  IF digits = <<>> \/ \E i \in DOMAIN extension : extension[i] \in Control
        THEN -1 ELSE FoldLeft(push, 0, digits)

(* valid_trailer_field(): a name of token characters, a colon, a value. *)
ValidTrailerField(line) ==
    LET colon == Find(line, ":")
    IN  /\ colon \in 2..Len(line)
        /\ \A i \in 1..(colon - 1) : line[i] \in Token
        /\ \A i \in (colon + 1)..Len(line) : line[i] \notin Control

-----------------------------------------------------------------------------
(* One turn of the loop of ck_http_chunked_feed().  A turn either ends the *)
(* call with a result or goes on at a later position of the source.        *)
Refuse(s, result) == [s EXCEPT !.result = result, !.consumed = 0]
Stop(s) == [s EXCEPT !.result = "INCOMPLETE", !.consumed = s.at]

(* A byte of a line that is not its end. *)
LineByte(s, byte) ==
    IF byte = "LF" THEN Refuse(s, "BAD_REQUEST")
    ELSE IF Len(s.d.line) >= MaxLine THEN Refuse(s, "TOO_LARGE")
    ELSE [s EXCEPT !.d.line = Append(@, byte), !.at = @ + 1]

(* The end of a chunk-size line.  A CR that is the last byte there is stays *)
(* unconsumed: the next call sees it again, with its LF.                    *)
SizeTurn(s, source) ==
    LET size == ParseChunkSize(s.d.line)
    IN  IF source[s.at + 1] # "CR" THEN LineByte(s, source[s.at + 1])
        ELSE IF s.at + 2 > Len(source) THEN Stop(s)
        ELSE IF source[s.at + 2] # "LF" \/ size < 0 THEN Refuse(s, "BAD_REQUEST")
        ELSE [s EXCEPT !.at = @ + 2,
                       !.d = [@ EXCEPT !.remaining = size, !.line = <<>>,
                                       !.state = IF size = 0 THEN "TRAILERS"
                                                 ELSE "DATA"]]

(* What there is of the chunk is handed out as one span. *)
DataTurn(s, source) ==
    LET available == Len(source) - s.at
        take      == IF s.d.remaining < available THEN s.d.remaining
                     ELSE available
    IN  IF take > MaxBody - s.d.total THEN Refuse(s, "TOO_LARGE")
        ELSE [s EXCEPT !.result = "DATA", !.bodyAt = s.at, !.bodyLength = take,
                       !.at = @ + take, !.consumed = s.at + take,
                       !.d = [@ EXCEPT !.remaining = @ - take,
                                       !.total = @ + take,
                                       !.state = IF s.d.remaining = take
                                                 THEN "DATA_CRLF" ELSE @]]

DataCrlfTurn(s, source) ==
    IF Len(source) - s.at < 2 THEN Stop(s)
    ELSE IF source[s.at + 1] # "CR" \/ source[s.at + 2] # "LF"
    THEN Refuse(s, "BAD_REQUEST")
    ELSE [s EXCEPT !.at = @ + 2, !.d.state = "SIZE"]

(* A byte of the trailer section; the CR that is not yet followed by *)
(* anything is counted out again.                                     *)
TrailerTurn(s, source) ==
    LET byte    == source[s.at + 1]
        counted == [s EXCEPT !.d.trailerBytes = @ + 1]
        ended   == [s EXCEPT !.at = @ + 2, !.d.trailerBytes = @ + 2]
    IN  IF s.d.trailerBytes >= MaxTrailerBytes THEN Refuse(s, "TOO_LARGE")
        ELSE IF byte # "CR" THEN LineByte(counted, byte)
        ELSE IF s.at + 2 > Len(source) THEN Stop(s)
        ELSE IF source[s.at + 2] # "LF" THEN Refuse(counted, "BAD_REQUEST")
        ELSE IF s.d.line = <<>>
        THEN [ended EXCEPT !.d.state = "DONE", !.result = "COMPLETE",
                           !.consumed = s.at + 2]
        ELSE IF s.d.trailers >= MaxTrailers \/ ~ValidTrailerField(s.d.line)
        THEN Refuse(ended, "BAD_REQUEST")
        ELSE [ended EXCEPT !.d.trailers = @ + 1, !.d.line = <<>>]

RECURSIVE Decode(_, _)
Decode(s, source) ==
    IF s.result # "" THEN s
    ELSE IF s.at >= Len(source) THEN Stop(s)
    ELSE Decode(CASE s.d.state = "SIZE"      -> SizeTurn(s, source)
                  [] s.d.state = "DATA"      -> DataTurn(s, source)
                  [] s.d.state = "DATA_CRLF" -> DataCrlfTurn(s, source)
                  [] s.d.state = "TRAILERS"  -> TrailerTurn(s, source), source)

(* ck_http_chunked_feed(): at most one span of body data per call. *)
ChunkedFeed(decoder, source) ==
    Decode([d |-> decoder, at |-> 0, consumed |-> 0,
            bodyAt |-> 0, bodyLength |-> 0,
            result |-> IF decoder.state = "DONE" THEN "COMPLETE" ELSE ""],
           source)

=============================================================================

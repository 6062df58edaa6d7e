----------------------------- MODULE HttpParser -----------------------------
(***************************************************************************)
(* The request header parser, c/http/ck_http_parser.c, as operators.       *)
(*                                                                         *)
(* The parser copies bytes into a bounded buffer until it ends in          *)
(* CR LF CR LF, then parses the block at once and derives from the header  *)
(* fields how the body is framed.                                          *)
(*                                                                         *)
(* A byte is a string.  "CR" and "LF" are themselves; the text of one      *)
(* whole line is a single byte, so that a line can be cut off from its     *)
(* line end but not in its middle.  RequestLine and Field give the parts   *)
(* of the text that the code looks at.                                     *)
(***************************************************************************)
EXTENDS Integers, Sequences, SequencesExt

CONSTANTS
    RequestLine,     \* text -> [method, token, target, visible, version]
    Field,           \* text -> [name, members, fits]: header fields that have
                     \* a colon and a well-formed name; the members are what
                     \* stands before, between and behind the commas, trimmed
    Number,          \* digit string -> its value
    MaxUint,         \* UINT64_MAX
    MaxMethodBytes, MaxTargetBytes, MaxHeaders, MaxHeaderBytes

ASSUME ParserBounds ==
    {MaxUint, MaxMethodBytes, MaxTargetBytes, MaxHeaders, MaxHeaderBytes}
        \subseteq Nat

-----------------------------------------------------------------------------
(* ck_http_request_t, as far as the framing looks at it. *)

NoRequest ==
    [bodyMode |-> "NONE", contentLength |-> 0, closeRequired |-> FALSE]

ParserInit == [buffer |-> <<>>, complete |-> FALSE]

(* parse_uint64(): the value of a digit string that fits 64 bits. *)
NoNumber == -1
ParseUint64(item) ==
    IF item \in DOMAIN Number /\ Number[item] <= MaxUint THEN Number[item] ELSE NoNumber

(* A method of token characters, a target of visible bytes and exactly *)
(* HTTP/1.1, none of them empty, the first two bounded.                 *)
ParseRequestLine(line) ==
    /\ Len(line) = 1
    /\ line[1] \in DOMAIN RequestLine
    /\ LET text == RequestLine[line[1]]
       IN  /\ text.method \in 1..MaxMethodBytes
           /\ text.token
           /\ text.target \in 1..MaxTargetBytes
           /\ text.visible
           /\ text.version = "HTTP/1.1"

(* The members the three loops over a comma list visit: a loop ends with    *)
(* the value, so an empty member behind the last comma is not seen, and of  *)
(* a value that is empty there is none.                                     *)
Listed(members) == IF Last(members) = "" THEN Front(members) ELSE members

(* The items of the comma lists of every field of this name, in order. *)
ItemsOf(fields, name) ==
    LET named == SelectSeq(fields, LAMBDA f : f.name = name)
    IN  FlattenSeq([i \in DOMAIN named |-> Listed(named[i].members)])

Named(fields, name) == \E i \in DOMAIN fields : fields[i].name = name

LengthsOf(fields) ==
    LET items == ItemsOf(fields, "Content-Length")
    IN  [i \in DOMAIN items |-> ParseUint64(items[i])]

(* A slip: the last value wins instead of every value having to be equal. *)
ParseContentLengthLast(fields) ==
    LET lengths == LengthsOf(fields)
    IN  [ok      |-> \A i \in DOMAIN lengths : lengths[i] # NoNumber,
         present |-> lengths # <<>>,
         value   |-> IF lengths = <<>> THEN 0 ELSE Last(lengths)]

(* Every item must parse, and to the same value. *)
ParseContentLength(fields) ==
    LET lengths == LengthsOf(fields)
    IN  [ok      |-> \A i \in DOMAIN lengths :
                         lengths[i] # NoNumber /\ lengths[i] = lengths[1],
         present |-> lengths # <<>>,
         value   |-> IF lengths = <<>> THEN 0 ELSE lengths[1]]

(* An empty item or a coding other than chunked is refused. *)
ParseTransferEncoding(fields) ==
    LET codings == ItemsOf(fields, "Transfer-Encoding")
    IN  [ok      |-> \A i \in DOMAIN codings : codings[i] = "chunked",
         present |-> Named(fields, "Transfer-Encoding"),
         chunked |-> codings # <<>>]

(* An empty item is refused; close anywhere in the list asks for a close. *)
ParseConnection(fields) ==
    LET options == ItemsOf(fields, "Connection")
    IN  [ok    |-> \A i \in DOMAIN options : options[i] # "",
         close |-> \E i \in DOMAIN options : options[i] = "close"]

-----------------------------------------------------------------------------
(* The lines of a block that ends in CR LF CR LF, the last empty one left *)
(* out (find_crlf()).                                                     *)
LinesOf(block) ==
    LET ends == SetToSortSeq({i \in 1..(Len(block) - 1) :
                                 block[i] = "CR" /\ block[i + 1] = "LF"}, <)
        start(k) == IF k = 1 THEN 1 ELSE ends[k - 1] + 2
    IN  [k \in 1..(Len(ends) - 1) |-> SubSeq(block, start(k), ends[k] - 1)]

(* What the k-th header line adds: a field or the refusal of the request. *)
HeaderLine(lines, k) ==
    IF k > MaxHeaders THEN "TOO_LARGE"
    ELSE IF ~(Len(lines[k]) = 1 /\ lines[k][1] \in DOMAIN Field)
         THEN "BAD_REQUEST"
    ELSE IF ~Field[lines[k][1]].fits THEN "TOO_LARGE"
    ELSE "FIELD"

(* The body framing that the fields decide, Transfer-Encoding first. *)
BodyFraming(fields) ==
    LET length     == ParseContentLength(fields)
        coding     == ParseTransferEncoding(fields)
        connection == ParseConnection(fields)
    IN  IF \/ ~length.ok \/ ~coding.ok \/ ~connection.ok
           \/ coding.present /\ ~coding.chunked
        THEN [result |-> "BAD_REQUEST", request |-> NoRequest]
        ELSE [result  |-> "COMPLETE",
              request |->
                 [bodyMode      |-> IF coding.present THEN "CHUNKED"
                                    ELSE IF length.present THEN "CONTENT_LENGTH"
                                    ELSE "NONE",
                  contentLength |-> IF coding.present THEN 0 ELSE length.value,
                  closeRequired |-> coding.present \/ connection.close]]

(* parse_header_block(): the first line that is refused decides. *)
ParseHeaderBlock(block) ==
    LET lines   == LinesOf(block)
        headers == Tail(lines)
        refused == {k \in DOMAIN headers : HeaderLine(headers, k) # "FIELD"}
    IN  IF ~ParseRequestLine(lines[1])
        THEN [result |-> "BAD_REQUEST", request |-> NoRequest]
        ELSE IF refused # {}
        THEN [result |-> HeaderLine(headers, Min(refused)), request |-> NoRequest]
        ELSE BodyFraming([k \in DOMAIN headers |-> Field[headers[k][1]]])

(* ck_http_parser_feed(): copy up to the end of the header block, or all   *)
(* there is.  A block that outgrows the buffer is refused with nothing     *)
(* reported as consumed.                                                   *)
ParserFeed(parser, source) ==
    LET grown(n)  == parser.buffer \o SubSeq(source, 1, n)
        blockEnds == {n \in 1..Len(source) :
                        IsSuffix(<<"CR", "LF", "CR", "LF">>, grown(n))}
        taken     == IF blockEnds = {} THEN Len(source) ELSE Min(blockEnds)
        room      == MaxHeaderBytes - Len(parser.buffer)
        block     == ParseHeaderBlock(grown(taken))
        fed(b, c, n, r, q) == [parser   |-> [buffer |-> b, complete |-> c],
                               consumed |-> n, result |-> r, request |-> q]
    IN  IF parser.complete
        THEN fed(parser.buffer, TRUE, 0, "COMPLETE", NoRequest)
        ELSE IF taken > room
        THEN fed(grown(room), FALSE, 0, "TOO_LARGE", NoRequest)
        ELSE IF blockEnds = {}
        THEN fed(grown(taken), FALSE, taken, "INCOMPLETE", NoRequest)
        ELSE fed(grown(taken), block.result = "COMPLETE", taken,
                 block.result, block.request)

=============================================================================

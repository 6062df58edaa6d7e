----------------------------- MODULE MCExchange -----------------------------
EXTENDS Exchange

(* The texts of lines and what the parser sees in them. *)
MCRequestLine ==
    LET text(m, t, g, v, w) ==
            [method |-> m, token |-> t, target |-> g, visible |-> v, version |-> w]
    IN  [GET   |-> text(1, TRUE, 1, TRUE, "HTTP/1.1"),
         none  |-> text(0, TRUE, 1, TRUE, "HTTP/1.1"),
         verb  |-> text(3, TRUE, 1, TRUE, "HTTP/1.1"),
         token |-> text(1, FALSE, 1, TRUE, "HTTP/1.1"),
         path  |-> text(1, TRUE, 3, TRUE, "HTTP/1.1"),
         bytes |-> text(1, TRUE, 1, FALSE, "HTTP/1.1"),
         old   |-> text(1, TRUE, 1, TRUE, "HTTP/1.0")]

(* Header fields; "More" ends in a comma. *)
MCField ==
    LET field(n, m) == [name |-> n, members |-> m, fits |-> TRUE]
    IN  [one         |-> field("Content-Length", <<"1">>),
         two         |-> field("Content-Length", <<"2">>),
         five        |-> field("Content-Length", <<"5">>),
         zero        |-> field("Content-Length", <<"0">>),
         same        |-> field("Content-Length", <<"1", "01">>),
         differ      |-> field("Content-Length", <<"1", "2">>),
         oneMore     |-> field("Content-Length", <<"1", "">>),
         gap         |-> field("Content-Length", <<"1", "", "1">>),
         huge        |-> field("Content-Length", <<"256">>),
         word        |-> field("Content-Length", <<"x">>),
         blank       |-> field("Content-Length", <<"">>),
         chunked     |-> field("Transfer-Encoding", <<"chunked">>),
         chunkedMore |-> field("Transfer-Encoding", <<"chunked", "">>),
         gzip        |-> field("Transfer-Encoding", <<"gzip", "chunked">>),
         noCoding    |-> field("Transfer-Encoding", <<"">>),
         close       |-> field("Connection", <<"keep-alive", "close">>),
         closeMore   |-> field("Connection", <<"close", "">>),
         comma       |-> field("Connection", <<"keep-alive", "", "close">>),
         host        |-> field("Host", <<"a">>),
         long        |-> [field("Host", <<"a">>) EXCEPT !.fits = FALSE]]

MCNumber == [d \in {"0", "1", "01", "2", "5", "256"} |->
               CASE d = "0" -> 0 [] d \in {"1", "01"} -> 1 [] d = "2" -> 2
                 [] d = "5" -> 5 [] d = "256" -> 256]

MCHex == [c \in {"0", "1", "2", "5"} |->
            CASE c = "0" -> 0 [] c = "1" -> 1 [] c = "2" -> 2 [] c = "5" -> 5]
MCToken == {"0", "1", "2", "t"}

-----------------------------------------------------------------------------
(* The framing policy of docs/HTTP_FRAMING_POLICY.md: anything ambiguous is *)
(* refused, Transfer-Encoding decides over Content-Length and ends the      *)
(* connection.  An empty member may end a list, as RFC 9110 has it, but a   *)
(* length and a coding have to be there.                                    *)
FieldsOf(lines, name) ==
    {MCField[lines[i]].members : i \in {j \in DOMAIN lines : MCField[lines[j]].name = name}}
ItemSet(lines, name) == UNION {Range(m) : m \in FieldsOf(lines, name)} \ {""}
Has(lines, name) == FieldsOf(lines, name) # {}

EmptyOnlyLast(m) == \A i \in DOMAIN m : m[i] = "" => i = Len(m)

Accepted(lines) ==
    /\ \A i \in DOMAIN lines :
          LET field == MCField[lines[i]]
          IN  /\ field.fits
              /\ field.name # "Host" => EmptyOnlyLast(field.members)
              /\ field.name \in {"Content-Length", "Transfer-Encoding"} =>
                    field.members # <<"">>
    /\ \E n \in 0..MaxUint : \A d \in ItemSet(lines, "Content-Length") :
          d \in DOMAIN MCNumber /\ MCNumber[d] = n
    /\ ItemSet(lines, "Transfer-Encoding") \subseteq {"chunked"}

(* Messages, with what they mean. *)
CRLF == <<"CR", "LF">>
AB == <<"a", "b">>
ABCDE == <<"a", "b", "c", "d", "e">>

Block(first, lines) ==
    <<first>> \o CRLF \o FlattenSeq([i \in DOMAIN lines |-> <<lines[i]>> \o CRLF])
              \o CRLF

Message(bytes, body, accept, close) ==
    [bytes |-> bytes, body |-> body, accept |-> accept, close |-> close]

Refused(bytes) == Message(bytes, ABCDE, FALSE, FALSE)

WithHeaders(lines, name) ==
    LET block == Block("GET", lines)
        body  == CASE "5" \in ItemSet(lines, "Content-Length") -> ABCDE
                   [] "2" \in ItemSet(lines, "Content-Length") -> <<name, "b">>
                   [] "1" \in ItemSet(lines, "Content-Length") -> <<name>>
                   [] OTHER -> <<>>
    IN  IF ~Accepted(lines) THEN Refused(block \o <<"a", "b">>)
        ELSE IF Has(lines, "Transfer-Encoding")
        THEN Message(block \o <<"1">> \o CRLF \o <<name>> \o CRLF \o <<"0">> \o CRLF \o CRLF,
                     <<name>>, TRUE, TRUE)
        ELSE Message(block \o body, body, TRUE,
                     "close" \in ItemSet(lines, "Connection"))

ChunkedMessage(chunks, body) ==
    Message(Block("GET", <<"chunked">>) \o chunks, body, TRUE, TRUE)
RefusedChunks(chunks) == Refused(Block("GET", <<"chunked">>) \o chunks)

Get == WithHeaders(<<>>, "a")

(* One header line, or two, and what comes of them. *)
Headers1 == {<<l>> : l \in {"zero", "oneMore", "gap", "differ", "huge", "word",
                            "gzip", "noCoding", "comma", "long"}}
Headers2 == {<<"one", "same">>, <<"one", "two">>,
             <<"two", "chunkedMore">>, <<"chunked", "gzip">>,
             <<"one", "close">>, <<"host", "closeMore">>}
HeaderWires == {<<WithHeaders(h, "a")>> : h \in Headers1 \cup Headers2}

LineWires ==
    {<<Refused(Block(l, <<>>))>> : l \in (DOMAIN MCRequestLine \cup {"host"}) \ {"GET"}}
    \cup {<<Refused(Block("GET", <<"host", "GET">>))>>,
          <<Refused(Block("GET", <<"host", "host", "host">>))>>,
          <<Refused(Block("GET", <<"host", "host", "host", "host">>))>>}

(* The last of these has a line end every third byte, so that a processing *)
(* budget of four can end between CR and LF in call after call.            *)
ChunkWires ==
    {<<ChunkedMessage(<<"5", ";", "t">> \o CRLF \o <<"a", "b", "CR", "c", "d">> \o CRLF
                        \o <<"0">> \o CRLF \o CRLF, <<"a", "b", "CR", "c", "d">>)>>,
     <<ChunkedMessage(<<"1">> \o CRLF \o <<"a">> \o CRLF \o <<"0">> \o CRLF
                        \o <<"t", ":", "t">> \o CRLF \o CRLF, <<"a">>)>>,
     <<ChunkedMessage(<<"0">> \o CRLF \o CRLF, <<>>), Get>>,
     <<ChunkedMessage(FlattenSeq([i \in 1..2 |-> <<"1">> \o CRLF \o <<AB[i]>> \o CRLF])
                        \o <<"0">> \o CRLF \o CRLF, AB)>>}

RefusedChunkWires ==
    {<<RefusedChunks(c)>> : c \in
            {<<"t">> \o CRLF, CRLF, <<"1", "LF">>, <<"1", "CR", "1">>,
             <<"2", "0", "0">> \o CRLF, <<"0", "0", "0", "0">>,
             <<"1", ";", "BEL">> \o CRLF,
             <<"1">> \o CRLF \o <<"a", "b", "c">>,
             <<"2", "0">> \o CRLF \o ABCDE \o <<"f">>,
             <<"0">> \o CRLF \o <<"t">> \o CRLF, <<"0">> \o CRLF \o <<"LF">>,
             <<"0">> \o CRLF \o <<"t", ":", "BEL">> \o CRLF,
             <<"0">> \o CRLF \o <<"t", "CR", "t">>,
             <<"0">> \o CRLF \o <<"t", ":">> \o CRLF \o <<"t", ":">> \o CRLF,
             <<"0">> \o CRLF \o <<"t", ":", "t", "t">>}}

(* Several messages on one connection, and a body the queue cannot hold. *)
PipelinedWires ==
    {<<WithHeaders(<<"two">>, "p"), WithHeaders(<<"one">>, "q")>>,
     <<WithHeaders(<<"five">>, "a")>>}

MCWires ==
    HeaderWires \cup LineWires \cup ChunkWires \cup RefusedChunkWires \cup PipelinedWires

(* A Content-Length without a number. *)
MCBlankWires == {<<WithHeaders(<<"blank">>, "a")>>}

=============================================================================

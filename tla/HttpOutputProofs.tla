-------------------------- MODULE HttpOutputProofs --------------------------
(***************************************************************************)
(* The output side for every size of the staging buffer, the writer's      *)
(* buffer and the budget, and every split of the bytes into queue calls    *)
(* and partial sends.                                                      *)
(***************************************************************************)
EXTENDS HttpOutput, SequenceTheorems, TLAPS

Responses ==
    [state : {"NEW", "COMMITTED", "FINISHED", "FAILED"}, status : Nat,
     lengthSet : BOOLEAN, length : Nat, close : BOOLEAN, body : Nat]

Headers == [status : Nat, length : Nat, close : BOOLEAN]
Bytes == (Nat \X {0} \X Headers) \cup (Nat \X Nat)

OutputTypeOK ==
    /\ response \in Responses
    /\ staged \in Nat /\ served \in Nat
    /\ buffer \in Seq(Bytes) /\ begin \in 0 .. Len(buffer)
    /\ output \in Seq(Bytes) /\ earlier \in Seq(Bytes)

(* Only of a finished response bytes are queued, no more than it has. *)
StagedOK ==
    /\ response.state # "FINISHED" => staged = 0
    /\ response.state = "FINISHED" => staged <= Len(Serialised(response, served))

Inv == OutputTypeOK /\ StagedOK /\ OutputInOrder

-----------------------------------------------------------------------------
(* A serialised response is a sequence of bytes. *)
LEMMA SerialisedType ==
    ASSUME NEW r \in Responses, NEW k \in Nat
    PROVE  Serialised(r, k) \in Seq(Bytes)
<1> DEFINE h == [status |-> r.status,
                 length |-> IF r.lengthSet THEN r.length ELSE r.body,
                 close  |-> r.close]
<1>1. h \in Headers BY DEF Responses, Headers
<1>2. <<k, 0, h>> \in Nat \X {0} \X Headers
  <2> HIDE DEF h
  <2> QED BY <1>1
<1>3. <<k, 0, h>> \in Bytes BY <1>2 DEF Bytes
<1>4. HeaderOf(r, k) \in Seq(Bytes)
  <2>1. HeaderOf(r, k) = << <<k, 0, h>> >> BY DEF HeaderOf
  <2> HIDE DEF h
  <2> QED BY <1>3, <2>1
<1>5. BodyOf(r, k) \in Seq(Bytes)
  <2>1. r.body \in Nat BY DEF Responses
  <2>2. \A i \in 1 .. r.body : <<k, i>> \in Bytes BY <2>1 DEF Bytes
  <2>3. [i \in 1 .. r.body |-> <<k, i>>] \in [1 .. r.body -> Bytes] BY <2>2
  <2>4. [1 .. r.body -> Bytes] \subseteq Seq(Bytes) BY <2>1, SeqDef
  <2> QED BY <2>3, <2>4 DEF BodyOf
<1> QED BY <1>4, <1>5, ConcatProperties DEF Serialised

(* What begins behind the first n bytes of the rest of a sequence. *)
LEMMA RestOfRest ==
    ASSUME NEW S, NEW s \in Seq(S), NEW b \in 0 .. Len(s), NEW n \in 0 .. Len(s) - b
    PROVE  LET rest == SubSeq(s, b + 1, Len(s))
           IN  /\ rest \in Seq(S) /\ Len(rest) = Len(s) - b
               /\ SubSeq(rest, 1, n) = SubSeq(s, b + 1, b + n)
               /\ SubSeq(rest, 1, n) \o SubSeq(s, b + n + 1, Len(s)) = rest
<1> DEFINE rest == SubSeq(s, b + 1, Len(s))
<1>0. Len(s) \in Nat /\ b \in Nat /\ n \in Nat BY LenProperties
<1>1. \A i \in b + 1 .. Len(s) : s[i] \in S BY <1>0, ElementOfSeq
<1>2. /\ rest \in Seq(S) /\ Len(rest) = Len(s) - b
      /\ \A i \in 1 .. Len(s) - b : rest[i] = s[b + i]
  BY <1>0, <1>1, SubSeqProperties
<1>3. /\ SubSeq(s, b + 1, b + n) \in Seq(S) /\ Len(SubSeq(s, b + 1, b + n)) = n
      /\ \A i \in 1 .. n : SubSeq(s, b + 1, b + n)[i] = s[b + i]
  BY <1>0, <1>1, SubSeqProperties
<1>4. /\ SubSeq(rest, 1, n) \in Seq(S) /\ Len(SubSeq(rest, 1, n)) = n
      /\ \A i \in 1 .. n : SubSeq(rest, 1, n)[i] = rest[i]
  <2> HIDE DEF rest
  <2>1. \A i \in 1 .. n : rest[i] \in S BY <1>0, <1>2, ElementOfSeq
  <2> QED BY <1>0, <2>1, SubSeqProperties
<1>5. SubSeq(rest, 1, n) = SubSeq(s, b + 1, b + n)
  <2>1. \A i \in 1 .. n : SubSeq(rest, 1, n)[i] = SubSeq(s, b + 1, b + n)[i]
    BY <1>0, <1>2, <1>3, <1>4
  <2> QED BY <1>3, <1>4, <2>1, SeqEqual
<1>6. SubSeq(s, b + 1, b + n) \o SubSeq(s, b + n + 1, Len(s)) = rest
  <2>1. b + 1 \in 1 .. Len(s) + 1 /\ b + n \in b .. Len(s) /\ Len(s) \in b + n .. Len(s)
    BY <1>0
  <2>2. b + n \in (b + 1) - 1 .. Len(s) BY <1>0, <2>1
  <2>3. SubSeq(s, b + 1, b + n) \o SubSeq(s, (b + n) + 1, Len(s)) = SubSeq(s, b + 1, Len(s))
    BY <2>1, <2>2, ConcatAdjacentSubSeq
  <2> QED BY <2>3
<1> QED BY <1>2, <1>5, <1>6

(* What is appended to a sequence comes behind any rest of it. *)
LEMMA RestOfConcat ==
    ASSUME NEW S, NEW s \in Seq(S), NEW t \in Seq(S), NEW b \in 0 .. Len(s)
    PROVE  SubSeq(s \o t, b + 1, Len(s \o t)) = SubSeq(s, b + 1, Len(s)) \o t
<1> DEFINE st == s \o t
           rest == SubSeq(s, b + 1, Len(s))
<1>0. Len(s) \in Nat /\ Len(t) \in Nat /\ b \in Nat BY LenProperties
<1>1. /\ st \in Seq(S) /\ Len(st) = Len(s) + Len(t)
      /\ \A i \in 1 .. Len(s) + Len(t) :
            st[i] = IF i <= Len(s) THEN s[i] ELSE t[i - Len(s)]
  BY ConcatProperties
<1>2. /\ rest \in Seq(S) /\ Len(rest) = Len(s) - b
      /\ \A i \in 1 .. Len(s) - b : rest[i] = s[b + i]
  <2>1. \A i \in b + 1 .. Len(s) : s[i] \in S BY <1>0, ElementOfSeq
  <2> QED BY <1>0, <2>1, SubSeqProperties
<1>3. /\ SubSeq(st, b + 1, Len(st)) \in Seq(S)
      /\ Len(SubSeq(st, b + 1, Len(st))) = Len(s) + Len(t) - b
      /\ \A i \in 1 .. Len(s) + Len(t) - b : SubSeq(st, b + 1, Len(st))[i] = st[b + i]
  <2> HIDE DEF st
  <2>1. \A i \in b + 1 .. Len(st) : st[i] \in S BY <1>0, <1>1, ElementOfSeq
  <2> QED BY <1>0, <1>1, <2>1, SubSeqProperties
<1>4. /\ rest \o t \in Seq(S) /\ Len(rest \o t) = Len(s) - b + Len(t)
      /\ \A i \in 1 .. Len(s) - b + Len(t) :
            (rest \o t)[i] = IF i <= Len(s) - b THEN rest[i] ELSE t[i - (Len(s) - b)]
  <2> HIDE DEF rest
  <2>1. /\ rest \o t \in Seq(S) /\ Len(rest \o t) = Len(rest) + Len(t)
        /\ \A i \in 1 .. Len(rest) + Len(t) :
              (rest \o t)[i] = IF i <= Len(rest) THEN rest[i] ELSE t[i - Len(rest)]
    BY <1>2, ConcatProperties
  <2> QED BY <1>2, <2>1
<1>5. \A i \in 1 .. Len(s) + Len(t) - b : SubSeq(st, b + 1, Len(st))[i] = (rest \o t)[i]
  <2> HIDE DEF st, rest
  <2> TAKE i \in 1 .. Len(s) + Len(t) - b
  <2>1. SubSeq(st, b + 1, Len(st))[i] = IF b + i <= Len(s) THEN s[b + i] ELSE t[b + i - Len(s)]
    BY <1>0, <1>1, <1>3
  <2>2. (rest \o t)[i] = IF i <= Len(s) - b THEN s[b + i] ELSE t[i - (Len(s) - b)]
    BY <1>0, <1>2, <1>4
  <2>3. i - (Len(s) - b) = b + i - Len(s) /\ (i <= Len(s) - b <=> b + i <= Len(s))
    BY <1>0
  <2>4. CASE b + i <= Len(s) BY <2>1, <2>2, <2>3, <2>4
  <2>5. CASE ~(b + i <= Len(s)) BY <2>1, <2>2, <2>3, <2>5
  <2> QED BY <2>4, <2>5
<1> HIDE DEF st, rest
<1>6. SubSeq(st, b + 1, Len(st)) = rest \o t
  <2>1. Len(SubSeq(st, b + 1, Len(st))) = Len(rest \o t) BY <1>0, <1>3, <1>4
  <2>2. \A i \in 1 .. Len(SubSeq(st, b + 1, Len(st))) :
           SubSeq(st, b + 1, Len(st))[i] = (rest \o t)[i]
    BY <1>3, <1>5
  <2>3. SubSeq(st, b + 1, Len(st)) \in Seq(S) /\ rest \o t \in Seq(S) BY <1>3, <1>4
  <2> QED BY <2>1, <2>2, <2>3, SeqEqual
<1> QED BY <1>6 DEF st, rest

-----------------------------------------------------------------------------
(* Sending is associative: concatenation of byte sequences. *)
LEMMA Assoc == \A s, t, u \in Seq(Bytes) : (s \o t) \o u = s \o (t \o u)
BY ConcatAssociative

(* Nothing is queued of a response while staged is 0. *)
LEMMA NothingQueued == staged = 0 => QueuedPart = <<>>
BY SubSeqEmpty DEF QueuedPart

(* The initial state has nothing to send. *)
LEMMA InvInit == OutputInit => Inv
<1> SUFFICES ASSUME OutputInit PROVE Inv OBVIOUS
<1>1. OutputTypeOK /\ StagedOK
  BY EmptySeq DEF OutputInit, ResponseInit, OutputTypeOK, StagedOK, Responses
<1>2. Buffered = <<>> /\ QueuedPart = <<>>
  BY EmptySeq, SubSeqEmpty, NothingQueued DEF OutputInit, Buffered
<1> QED BY <1>1, <1>2 DEF Inv, OutputInOrder, OutputInit

(* The calls on a response that is not finished yet leave the writer alone. *)
LEMMA UnfinishedInv ==
    ASSUME Inv, response' \in Responses,
           response.state # "FINISHED", UNCHANGED writerVars
    PROVE  Inv'
<1>1. staged = 0 /\ staged' = 0 BY DEF Inv, StagedOK, writerVars
<1>2. OutputTypeOK' BY DEF Inv, OutputTypeOK, writerVars
<1>3. StagedOK'
  <2>1. Serialised(response', served') \in Seq(Bytes)
    BY <1>2, SerialisedType DEF OutputTypeOK
  <2>2. 0 <= Len(Serialised(response', served')) BY <2>1, LenProperties
  <2> QED BY <1>1, <2>2 DEF StagedOK
<1>4. QueuedPart = <<>> /\ QueuedPart' = <<>>
  <2>1. QueuedPart' = SubSeq(Serialised(response', served'), 1, 0)
    BY <1>1 DEF QueuedPart
  <2> QED BY <1>1, <2>1, NothingQueued, SubSeqEmpty
<1>5. Buffered' = Buffered BY DEF Buffered, writerVars
<1> QED BY <1>2, <1>3, <1>4, <1>5 DEF Inv, OutputInOrder, writerVars

(* Queueing moves bytes from the response into the writer, reclaiming the   *)
(* writer's front or not, or refuses them and moves none.                   *)
LEMMA QueueInv == ASSUME Inv, NEW n \in Nat, QueueNext(n) PROVE Inv'
<1> DEFINE all  == Serialised(response, served)
           data == SubSeq(all, staged + 1, staged + n)
           kept == IF Compacts THEN Buffered ELSE buffer
           at   == IF Compacts THEN 0 ELSE begin
<1>1. /\ response.state = "FINISHED" /\ n >= 1 /\ staged + n <= Len(all)
      /\ Queue(data)
      /\ UNCHANGED <<response, served, output, earlier>>
  BY DEF QueueNext
<1>2. all \in Seq(Bytes) /\ Len(all) \in Nat
  BY SerialisedType, LenProperties DEF Inv, OutputTypeOK
<1>3. /\ staged \in 0 .. Len(all) /\ staged \in Nat /\ n \in 0 .. Len(all) - staged
      /\ staged + n \in 0 .. Len(all)
  BY <1>1, <1>2 DEF Inv, OutputTypeOK, StagedOK
<1>4. /\ data \in Seq(Bytes) /\ Len(data) = n
      /\ SubSeq(all, 1, staged) \o data = SubSeq(all, 1, staged + n)
      /\ SubSeq(all, 1, staged) \in Seq(Bytes)
  <2> HIDE DEF all
  <2>1. SubSeq(all, 1, staged) \o data = SubSeq(all, 1, staged + n)
    <3>1. /\ 1 \in 1 .. Len(all) + 1 /\ staged \in 1 - 1 .. Len(all)
          /\ staged + n \in staged .. Len(all)
      BY <1>2, <1>3
    <3> QED BY <1>2, <3>1, ConcatAdjacentSubSeq
  <2>2. \A i \in staged + 1 .. staged + n : all[i] \in Bytes
    BY <1>2, <1>3, ElementOfSeq
  <2>3. data \in Seq(Bytes) /\ Len(data) = n
    <3>1. staged + 1 \in Int /\ staged + n \in Int BY <1>3
    <3>2. /\ data \in Seq(Bytes)
          /\ Len(data) = IF staged + 1 <= staged + n
                         THEN (staged + n) - (staged + 1) + 1 ELSE 0
      BY <2>2, <3>1, SubSeqProperties
    <3> QED BY <1>1, <1>3, <3>2
  <2>4. SubSeq(all, 1, staged) \in Seq(Bytes)
    <3>1. \A i \in 1 .. staged : all[i] \in Bytes BY <1>2, <1>3, ElementOfSeq
    <3> QED BY <1>3, <3>1, SubSeqProperties
  <2> QED BY <2>1, <2>3, <2>4
<1>5. buffer \in Seq(Bytes) /\ begin \in 0 .. Len(buffer) /\ Len(buffer) \in Nat
  BY LenProperties DEF Inv, OutputTypeOK
<1>6. Buffered \in Seq(Bytes) BY <1>5, RestOfRest DEF Buffered
<1>7. /\ kept \in Seq(Bytes) /\ at \in 0 .. Len(kept)
      /\ SubSeq(kept, at + 1, Len(kept)) = Buffered
  <2>1. CASE Compacts
    <3>1. kept = Buffered /\ at = 0 BY <2>1
    <3>2. Len(Buffered) \in Nat BY <1>6, LenProperties
    <3>3. SubSeq(Buffered, 1, Len(Buffered)) = Buffered BY <1>6, SubSeqFull
    <3> QED BY <1>6, <3>1, <3>2, <3>3
  <2>2. CASE ~Compacts
    <3>1. kept = buffer /\ at = begin BY <2>2
    <3> QED BY <1>5, <3>1 DEF Buffered
  <2> QED BY <2>1, <2>2
<1>8. /\ begin' = at
      /\ \/ buffer' = kept /\ staged' = staged
         \/ buffer' = kept \o data /\ staged' = staged + Len(data)
  BY <1>1 DEF Queue
<1> HIDE DEF data, kept, at
<1>9. QueuedPart = SubSeq(all, 1, staged) BY DEF QueuedPart
<1>10. QueuedPart' = SubSeq(all, 1, staged') BY <1>1 DEF QueuedPart
<1> HIDE DEF all
<1>11. CASE buffer' = kept /\ staged' = staged
  <2>1. Buffered' = Buffered BY <1>7, <1>8, <1>11 DEF Buffered
  <2>2. QueuedPart' = QueuedPart BY <1>9, <1>10, <1>11
  <2>3. OutputInOrder' BY <1>1, <2>1, <2>2 DEF OutputInOrder, Inv
  <2>4. OutputTypeOK' BY <1>1, <1>7, <1>8, <1>11 DEF Inv, OutputTypeOK
  <2>5. StagedOK' BY <1>1, <1>11 DEF Inv, StagedOK
  <2> QED BY <2>3, <2>4, <2>5 DEF Inv
<1>12. CASE buffer' = kept \o data /\ staged' = staged + Len(data)
  <2>1. /\ buffer' \in Seq(Bytes) /\ Len(kept) \in Nat /\ Len(kept) <= Len(buffer')
    BY <1>4, <1>7, <1>12, ConcatProperties, LenProperties
  <2>2. Len(buffer') \in Nat BY <2>1, LenProperties
  <2>3. Buffered' = Buffered \o data
    <3>1. SubSeq(kept \o data, at + 1, Len(kept \o data))
            = SubSeq(kept, at + 1, Len(kept)) \o data
      BY <1>4, <1>7, RestOfConcat
    <3>2. Buffered' = SubSeq(buffer', begin' + 1, Len(buffer')) BY DEF Buffered
    <3>3. Buffered' = SubSeq(kept \o data, at + 1, Len(kept \o data))
      BY <1>8, <1>12, <3>2
    <3> QED BY <1>7, <3>1, <3>3
  <2>4. QueuedPart' = SubSeq(all, 1, staged + n) BY <1>4, <1>10, <1>12
  <2>5. QueuedPart' = QueuedPart \o data /\ QueuedPart \in Seq(Bytes) BY <1>4, <1>9, <2>4
  <2>6. output \in Seq(Bytes) /\ output \o Buffered \in Seq(Bytes)
    BY <1>6, ConcatProperties DEF Inv, OutputTypeOK
  <2>7. OutputInOrder'
    <3>1. output' \o Buffered' = (output \o Buffered) \o data
      <4>1. output' = output BY <1>1
      <4>2. data \in Seq(Bytes) BY <1>4
      <4> QED BY <1>6, <2>3, <2>6, <4>1, <4>2, Assoc, SMTT(40)
    <3>2. (earlier \o QueuedPart) \o data = earlier \o (QueuedPart \o data)
      <4>1. data \in Seq(Bytes) /\ earlier \in Seq(Bytes)
        BY <1>4 DEF Inv, OutputTypeOK
      <4> QED BY <2>5, <4>1, Assoc
    <3>3. output \o Buffered = earlier \o QueuedPart BY DEF Inv, OutputInOrder
    <3> QED BY <1>1, <2>5, <3>1, <3>2, <3>3 DEF OutputInOrder
  <2>8. OutputTypeOK'
    <3>1. begin' \in 0 .. Len(buffer') BY <1>7, <1>8, <2>1, <2>2
    <3>2. staged' \in Nat BY <1>3, <1>4, <1>12
    <3> QED BY <1>1, <2>1, <3>1, <3>2 DEF Inv, OutputTypeOK
  <2>9. StagedOK'
    <3>1. staged' <= Len(all) BY <1>1, <1>4, <1>12
    <3> QED BY <1>1, <3>1 DEF Inv, StagedOK, all
  <2> QED BY <2>7, <2>8, <2>9 DEF Inv
<1> QED BY <1>8, <1>11, <1>12

(* A send moves bytes from the writer to the socket. *)
LEMMA DriveInv == ASSUME Inv, NEW n \in Nat, DriveWriter(n) PROVE Inv'
<1> DEFINE sent == SubSeq(Buffered, 1, n)
<1>1. /\ n <= Len(Buffered)
      /\ output' = output \o sent
      /\ UNCHANGED <<response, staged, served, earlier>>
      /\ \/ n = Len(Buffered) /\ buffer' = <<>> /\ begin' = 0
         \/ n # Len(Buffered) /\ begin' = begin + n /\ buffer' = buffer
  BY DEF DriveWriter
<1>2. buffer \in Seq(Bytes) /\ begin \in 0 .. Len(buffer) /\ Len(buffer) \in Nat
  BY LenProperties DEF Inv, OutputTypeOK
<1>3. Buffered \in Seq(Bytes) /\ Len(Buffered) = Len(buffer) - begin
  <2>1. 0 \in 0 .. Len(buffer) - begin BY <1>2
  <2> QED BY <1>2, <2>1, RestOfRest DEF Buffered
<1>4. n \in 0 .. Len(buffer) - begin BY <1>1, <1>2, <1>3
<1>5. sent \o SubSeq(buffer, begin + n + 1, Len(buffer)) = Buffered
  BY <1>2, <1>4, RestOfRest DEF Buffered
<1>6. sent \in Seq(Bytes)
  <2>1. \A i \in 1 .. n : Buffered[i] \in Bytes BY <1>1, <1>3, <1>4, ElementOfSeq
  <2> QED BY <2>1, SubSeqProperties
<1>7. sent \o Buffered' = Buffered /\ Buffered' \in Seq(Bytes)
  <2>1. CASE n = Len(Buffered) /\ buffer' = <<>> /\ begin' = 0
    <3>1. sent = Buffered BY <1>3, <2>1, SubSeqFull
    <3>2. Buffered' = <<>> BY <2>1, SubSeqEmpty, EmptySeq DEF Buffered
    <3> QED BY <1>3, <3>1, <3>2, ConcatEmptySeq, EmptySeq
  <2>2. CASE begin' = begin + n /\ buffer' = buffer
    <3>1. Buffered' = SubSeq(buffer, begin + n + 1, Len(buffer)) BY <2>2 DEF Buffered
    <3>2. begin + n \in 0 .. Len(buffer) BY <1>2, <1>4
    <3>3. SubSeq(buffer, (begin + n) + 1, Len(buffer)) \in Seq(Bytes)
      <4>1. 0 \in 0 .. Len(buffer) - (begin + n) BY <1>2, <3>2
      <4> QED BY <1>2, <3>2, <4>1, RestOfRest
    <3> QED BY <1>5, <3>1, <3>3
  <2> QED BY <1>1, <2>1, <2>2
<1> HIDE DEF sent
<1>8. QueuedPart' = QueuedPart BY <1>1 DEF QueuedPart
<1>9. output \in Seq(Bytes) /\ output' \in Seq(Bytes)
  BY <1>1, <1>6, ConcatProperties DEF Inv, OutputTypeOK
<1>10. OutputInOrder'
  <2>1. output' \o Buffered' = output \o Buffered
    <3>1. output' = output \o sent BY <1>1
    <3>2. (output \o sent) \o Buffered' = output \o (sent \o Buffered')
      BY <1>6, <1>7, <1>9, Assoc
    <3> QED BY <1>7, <3>1, <3>2
  <2> QED BY <1>1, <1>8, <2>1 DEF Inv, OutputInOrder
<1>11. OutputTypeOK'
  <2>1. buffer' \in Seq(Bytes) /\ begin' \in 0 .. Len(buffer')
    <3>1. CASE buffer' = <<>> /\ begin' = 0 BY <3>1, EmptySeq
    <3>2. CASE begin' = begin + n /\ buffer' = buffer BY <1>2, <1>4, <3>2
    <3> QED BY <1>1, <3>1, <3>2
  <2> QED BY <1>1, <1>9, <2>1 DEF Inv, OutputTypeOK
<1>12. StagedOK' BY <1>1 DEF Inv, StagedOK
<1> QED BY <1>10, <1>11, <1>12 DEF Inv

(* The next response starts behind what was queued of the last one. *)
LEMMA NextResponseInv == ASSUME Inv, NextResponse PROVE Inv'
<1>1. /\ response.state = "FINISHED" /\ Len(buffer) = begin
      /\ response' = ResponseInit /\ staged' = 0 /\ served' = served + 1
      /\ earlier' = earlier \o QueuedPart
      /\ UNCHANGED <<buffer, begin, output>>
  BY DEF NextResponse
<1>2. Len(buffer) \in Nat BY LenProperties DEF Inv, OutputTypeOK
<1>3. Buffered = <<>> /\ Buffered' = <<>> BY <1>1, <1>2, SubSeqEmpty DEF Buffered
<1>4. QueuedPart' = <<>>
  <2>1. QueuedPart' = SubSeq(Serialised(response', served'), 1, 0) BY <1>1 DEF QueuedPart
  <2> QED BY <2>1, SubSeqEmpty
<1>5. output \in Seq(Bytes) /\ output = earlier'
  <2>1. output \in Seq(Bytes) BY DEF Inv, OutputTypeOK
  <2>2. output \o <<>> = earlier \o QueuedPart BY <1>3 DEF Inv, OutputInOrder
  <2> QED BY <1>1, <2>1, <2>2, ConcatEmptySeq
<1>6. OutputInOrder' BY <1>1, <1>3, <1>4, <1>5 DEF OutputInOrder
<1>7. OutputTypeOK' /\ StagedOK'
  BY <1>1, <1>5 DEF Inv, OutputTypeOK, StagedOK, ResponseInit, Responses
<1> QED BY <1>6, <1>7 DEF Inv

(* The handler's calls. *)
LEMMA HandlerInv == ASSUME Inv, Handler PROVE Inv'
<1> USE DEF Inv, OutputTypeOK, Responses
<1>1. ASSUME NEW status \in Statuses, SetStatus(status) PROVE Inv'
  <2>1. /\ response' \in Responses
        /\ response.state # "FINISHED"
        /\ UNCHANGED writerVars
    BY <1>1, OutputBounds DEF SetStatus
  <2> QED BY <2>1, UnfinishedInv
<1>2. ASSUME NEW n \in Lengths, SetContentLength(n) PROVE Inv'
  <2>1. /\ response' \in Responses
        /\ response.state # "FINISHED"
        /\ UNCHANGED writerVars
    BY <1>2, OutputBounds DEF SetContentLength
  <2> QED BY <2>1, UnfinishedInv
<1>3. ASSUME NEW n \in Lengths, WriteBody(n) PROVE Inv'
  <2>1. n \in Nat BY OutputBounds
  <2>2. CASE n > StagingBytes - response.body
    <3>1. response' = [response EXCEPT !.state = "FAILED"] BY <1>3, <2>2 DEF WriteBody
    <3>2. /\ response' \in Responses
          /\ response.state # "FINISHED"
          /\ UNCHANGED writerVars
      BY <1>3, <3>1, SMTT(40) DEF WriteBody
    <3> QED BY <3>2, UnfinishedInv
  <2>3. CASE ~(n > StagingBytes - response.body)
    <3>1. response' = [response EXCEPT !.state = "COMMITTED", !.body = @ + n]
      BY <1>3, <2>3 DEF WriteBody
    <3>2. response.body + n \in Nat BY <2>1
    <3>3. response' \in Responses BY <3>1, <3>2
    <3>4. response.state # "FINISHED" /\ UNCHANGED writerVars
      BY <1>3 DEF WriteBody
    <3> QED BY <3>3, <3>4, UnfinishedInv
  <2> QED BY <2>2, <2>3
<1>4. ASSUME NEW enabled \in BOOLEAN, SetConnectionClose(enabled) PROVE Inv'
  <2>1. /\ response' \in Responses
        /\ response.state # "FINISHED"
        /\ UNCHANGED writerVars
    BY <1>4, SMTT(40) DEF SetConnectionClose
  <2> QED BY <2>1, UnfinishedInv
<1>5. ASSUME Reset PROVE Inv'
  <2>1. /\ response' \in Responses
        /\ response.state # "FINISHED"
        /\ UNCHANGED writerVars
    BY <1>5 DEF Reset, ResponseInit
  <2> QED BY <2>1, UnfinishedInv
<1>6. ASSUME Commit PROVE Inv'
  <2>1. /\ response' \in Responses
        /\ response.state # "FINISHED"
        /\ UNCHANGED writerVars
    BY <1>6 DEF Commit
  <2> QED BY <2>1, UnfinishedInv
<1>7. ASSUME Finish PROVE Inv'
  <2>1. /\ response' \in Responses
        /\ response.state # "FINISHED"
        /\ UNCHANGED writerVars
    BY <1>7 DEF Finish
  <2> QED BY <2>1, UnfinishedInv
<1> QED BY <1>1, <1>2, <1>3, <1>4, <1>5, <1>6, <1>7 DEF Handler

(* Every step of the output side preserves the invariant. *)
LEMMA InvStep == Inv /\ [OutputNext]_outputVars => Inv'
<1> SUFFICES ASSUME Inv, [OutputNext]_outputVars PROVE Inv' OBVIOUS
<1>1. CASE Handler BY <1>1, HandlerInv
<1>2. ASSUME NEW n \in Nat, QueueNext(n) PROVE Inv' BY <1>2, QueueInv
<1>3. ASSUME NEW n \in Nat, DriveWriter(n) PROVE Inv' BY <1>3, DriveInv
<1>4. CASE NextResponse BY <1>4, NextResponseInv
<1>5. CASE UNCHANGED outputVars
  BY <1>5 DEF outputVars, Inv, OutputTypeOK, StagedOK, OutputInOrder, QueuedPart, Serialised, HeaderOf, BodyOf,
         Buffered
<1> QED BY <1>1, <1>2, <1>3, <1>4, <1>5 DEF OutputNext

LEMMA InvAlways == OutputSpec => []Inv
BY InvInit, InvStep, PTL DEF OutputSpec

-----------------------------------------------------------------------------
(* What the socket took and what the writer holds are always exactly what   *)
(* was queued of one response after the other, for every buffer size and    *)
(* every pattern of partial sends, refused queue calls, moves of the        *)
(* writer's bytes and turnovers (ck_http_output_writer_queue(), _drive(),   *)
(* ck_connection_http_recycle()).                                           *)
THEOREM ResponsesInOrder == OutputSpec => []OutputInOrder
<1>1. Inv => OutputInOrder BY DEF Inv
<1> QED BY <1>1, InvAlways, PTL

=============================================================================

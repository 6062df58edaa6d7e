----------------------------- MODULE RequestProofs -----------------------------
(***************************************************************************)
(* A request and its body.                                                 *)
(*                                                                         *)
(* First the lifecycle of a request (Request), for any set of threads.     *)
(* Then the body queue (RequestBody), for a ring of any size and spans and *)
(* reads of any length: the queue is a FIFO, the two copies never meet,    *)
(* and a read started after the end reports the end only to a consumer     *)
(* that has every byte.                                                    *)
(***************************************************************************)
EXTENDS Request, RequestBody, TLAPS

Failed(t) == [thread |-> t, outcome |-> "FAILED"]

\* The thread between FailClaim and FailPublish owns the error record, and the
\* record is its own once it stands at the publishing store.
Publishers ==
    \A t \in Threads :
        /\ pc[t] \in {"failWrite", "failWritten", "failPublish"} =>
              state = "FAILING" /\ Failed(t) \in winner
        /\ pc[t] = "failPublish" => requestError = t
        /\ pc[t] = "cancelSwap" => current[t] \in Open
        /\ pc[t] = "read" => state = "FAILED"

\* The inductive invariant: a request is undecided exactly while no call has
\* won, and a visible failure has the winner's record.
RequestInv ==
    /\ RequestTypeOK
    /\ OneWinner
    /\ BegunOnce
    /\ ErrorWhole
    /\ Publishers
    /\ state \in Open => winner = {}
    /\ state = "PENDING" => began = {}
    /\ state = "FAILED" => Failed(requestError) \in winner

\* The initial state of ck_request_init satisfies the invariant.
LEMMA RequestInvInit == RequestInit => RequestInv
BY DEF RequestInit, RequestInv, RequestTypeOK, OneWinner, BegunOnce, ErrorWhole,
   Publishers, States, Open

\* Every step of every thread keeps the invariant.
LEMMA RequestInvStep == RequestInv /\ [RequestNext]_requestVars => RequestInv'
<1> SUFFICES ASSUME RequestInv, [RequestNext]_requestVars PROVE RequestInv'
    OBVIOUS
<1> USE DEF RequestInv
<1>1. CASE UNCHANGED requestVars
    BY <1>1 DEF RequestTypeOK, OneWinner, BegunOnce, ErrorWhole, Publishers, requestVars
<1>2. ASSUME NEW t \in Threads, Begin(t) PROVE RequestInv'
    BY <1>2 DEF Begin, RequestTypeOK, OneWinner, BegunOnce, ErrorWhole, Publishers, Failed,
                States, Open, Settled
<1>3. ASSUME NEW t \in Threads, Finish(t) PROVE RequestInv'
    BY <1>3 DEF Finish, Win, RequestTypeOK, OneWinner, BegunOnce, ErrorWhole, Publishers,
       Failed,
                States, Open, Settled
<1>4. ASSUME NEW t \in Threads, CancelLoad(t) PROVE RequestInv'
    BY <1>4 DEF CancelLoad, Go, RequestTypeOK, OneWinner, BegunOnce, ErrorWhole, Publishers,
                Failed, States, Open, Settled
<1>5. ASSUME NEW t \in Threads, CancelSwap(t) PROVE RequestInv'
  <2> USE <1>5 DEF CancelSwap, Go, Win
  <2>0. winner = {} /\ winner' = {[thread |-> t, outcome |-> "CANCELLING"]}
      BY DEF Publishers
  <2>1. RequestTypeOK'
      BY DEF RequestTypeOK, OneWinner, BegunOnce, ErrorWhole, Publishers, Failed, States,
         Open, Settled
  <2>2. OneWinner'
      BY <2>0 DEF RequestTypeOK, OneWinner, BegunOnce, ErrorWhole, Publishers, Failed,
         States, Open, Settled
  <2>3. BegunOnce'
      BY DEF RequestTypeOK, OneWinner, BegunOnce, ErrorWhole, Publishers, Failed, States,
         Open, Settled
  <2>4. ErrorWhole'
      BY DEF RequestTypeOK, OneWinner, BegunOnce, ErrorWhole, Publishers, Failed, States,
         Open, Settled
  <2>5. Publishers'
      BY DEF RequestTypeOK, OneWinner, BegunOnce, ErrorWhole, Publishers, Failed, States,
         Open, Settled
  <2>6. (state \in Open => winner = {})' /\ (state = "PENDING" => began = {})'
      BY DEF Open, RequestTypeOK, States, Publishers
  <2>7. (state = "FAILED" => Failed(requestError) \in winner)'
      BY DEF Publishers, Failed
  <2> QED BY <2>1, <2>2, <2>3, <2>4, <2>5, <2>6, <2>7
<1>6. ASSUME NEW t \in Threads, CancelRetry(t) PROVE RequestInv'
    BY <1>6 DEF CancelRetry, Go, RequestTypeOK, OneWinner, BegunOnce, ErrorWhole,
       Publishers,
                Failed, States, Open, Settled
<1>7. ASSUME NEW t \in Threads, FailClaim(t) PROVE RequestInv'
    BY <1>7 DEF FailClaim, Go, Win, RequestTypeOK, OneWinner, BegunOnce, ErrorWhole,
       Publishers,
                Failed, States, Open, Settled
<1>8. ASSUME NEW t \in Threads, FailWrite(t) PROVE RequestInv'
  <2> USE <1>8 DEF FailWrite, Go
  <2>0. \A u \in Threads : pc[u] \in {"failWrite", "failWritten", "failPublish"} => u = t
    <3> SUFFICES ASSUME NEW u \in Threads, pc[u] \in {"failWrite", "failWritten", "failPublish"}
                 PROVE  u = t
        OBVIOUS
    <3>1. Failed(u) \in winner /\ Failed(t) \in winner
        BY DEF Publishers
    <3>2. Failed(u) = Failed(t)
        BY <3>1 DEF OneWinner
    <3>3. Failed(u).thread = u /\ Failed(t).thread = t
        BY DEF Failed
    <3> QED BY <3>2, <3>3
  <2>1. RequestTypeOK'
      BY DEF RequestTypeOK, OneWinner, BegunOnce, ErrorWhole, Publishers, Failed, States,
         Open, Settled
  <2>2. OneWinner'
      BY DEF RequestTypeOK, OneWinner, BegunOnce, ErrorWhole, Publishers, Failed, States,
         Open, Settled
  <2>3. BegunOnce'
      BY DEF RequestTypeOK, OneWinner, BegunOnce, ErrorWhole, Publishers, Failed, States,
         Open, Settled
  <2>4. ErrorWhole'
      BY DEF RequestTypeOK, OneWinner, BegunOnce, ErrorWhole, Publishers, Failed, States,
         Open, Settled
  <2>5. Publishers'
      BY <2>0 DEF RequestTypeOK, OneWinner, BegunOnce, ErrorWhole, Publishers, Failed,
         States, Open, Settled
  <2>6. (state \in Open => winner = {})' /\ (state = "PENDING" => began = {})'
      BY DEF Open, RequestTypeOK, States, Publishers
  <2>7. (state = "FAILED" => Failed(requestError) \in winner)'
      BY DEF Publishers, Failed
  <2> QED BY <2>1, <2>2, <2>3, <2>4, <2>5, <2>6, <2>7
<1>9. ASSUME NEW t \in Threads, FailWritten(t) PROVE RequestInv'
    BY <1>9 DEF FailWritten, Go, RequestTypeOK, OneWinner, BegunOnce, ErrorWhole,
       Publishers,
                Failed, States, Open, Settled
<1>10. ASSUME NEW t \in Threads, FailPublish(t) PROVE RequestInv'
  <2> USE <1>10 DEF FailPublish, Go
  <2>0. \A u \in Threads : pc[u] \in {"failWrite", "failWritten", "failPublish"} => u = t
    <3> SUFFICES ASSUME NEW u \in Threads, pc[u] \in {"failWrite", "failWritten", "failPublish"}
                 PROVE  u = t
        OBVIOUS
    <3>1. Failed(u) \in winner /\ Failed(t) \in winner
        BY DEF Publishers
    <3>2. Failed(u) = Failed(t)
        BY <3>1 DEF OneWinner
    <3>3. Failed(u).thread = u /\ Failed(t).thread = t
        BY DEF Failed
    <3> QED BY <3>2, <3>3
  <2>1. RequestTypeOK'
      BY DEF RequestTypeOK, OneWinner, BegunOnce, ErrorWhole, Publishers, Failed, States,
         Open, Settled
  <2>2. OneWinner'
      BY DEF RequestTypeOK, OneWinner, BegunOnce, ErrorWhole, Publishers, Failed, States,
         Open, Settled
  <2>3. BegunOnce'
      BY DEF RequestTypeOK, OneWinner, BegunOnce, ErrorWhole, Publishers, Failed, States,
         Open, Settled
  <2>4. ErrorWhole'
      BY DEF RequestTypeOK, OneWinner, BegunOnce, ErrorWhole, Publishers, Failed, States,
         Open, Settled
  <2>5. Publishers'
      BY <2>0, ZenonT(60) DEF RequestTypeOK, OneWinner, BegunOnce, ErrorWhole,
         Publishers, Failed, States, Open, Settled
  <2>6. (state \in Open => winner = {})' /\ (state = "PENDING" => began = {})'
      BY DEF Open, RequestTypeOK, States, Publishers
  <2>7. (state = "FAILED" => Failed(requestError) \in winner)'
      BY DEF Publishers, Failed
  <2> QED BY <2>1, <2>2, <2>3, <2>4, <2>5, <2>6, <2>7
<1>11. ASSUME NEW t \in Threads, ErrorLoad(t) PROVE RequestInv'
    BY <1>11 DEF ErrorLoad, Go, RequestTypeOK, OneWinner, BegunOnce, ErrorWhole, Publishers,
                 Failed, States, Open, Settled
<1>12. ASSUME NEW t \in Threads, ErrorRead(t) PROVE RequestInv'
    BY <1>12 DEF ErrorRead, Go, RequestTypeOK, OneWinner, BegunOnce, ErrorWhole, Publishers,
                 Failed, States, Open, Settled
<1> QED
    BY <1>1, <1>2, <1>3, <1>4, <1>5, <1>6, <1>7, <1>8, <1>9, <1>10, <1>11, <1>12
    DEF RequestNext, Publication

\* The invariant holds in every reachable state.
LEMMA RequestInvAlways == RequestSpec => []RequestInv
BY RequestInvInit, RequestInvStep, PTL DEF RequestSpec

\* ck_request.c keeps its state word, error record and callers well formed.
THEOREM RequestTypeCorrect == RequestSpec => []RequestTypeOK
<1>1. RequestInv => RequestTypeOK
    BY DEF RequestInv
<1> QED BY <1>1, RequestInvAlways, PTL

\* One of finish, fail and cancel at most decides a request, and everybody sees
\* its outcome; one thread at most begins it.
THEOREM WinnerUnique == RequestSpec => [](OneWinner /\ BegunOnce)
<1>1. RequestInv => OneWinner /\ BegunOnce
    BY DEF RequestInv
<1> QED BY <1>1, RequestInvAlways, PTL

\* ck_request_error never hands out a cleared or half written record.
THEOREM ErrorsWhole == RequestSpec => []ErrorWhole
<1>1. RequestInv => ErrorWhole
    BY DEF RequestInv
<1> QED BY <1>1, RequestInvAlways, PTL

\* A cancelled, completed or failed request stays what it is.
THEOREM OutcomeFinal == RequestSpec => SettledForGood
<1>1. RequestInv /\ [RequestNext]_requestVars => [(state \in Settled) => (state' = state)]_requestVars
    BY DEF RequestInv, Publishers, RequestNext, requestVars, Begin, Finish, CancelLoad,
       CancelSwap, CancelRetry,
           FailClaim, Publication, FailWrite, FailWritten, FailPublish, ErrorLoad, ErrorRead,
           Settled, Open
<1> QED BY <1>1, RequestInvAlways, PTL DEF RequestSpec, SettledForGood

--------------------------------------------------------------------------------
\* Positions less than a ring apart have different cells.
LEMMA CellsDiffer ==
    ASSUME NEW i \in Nat, NEW j \in Nat, i < j, j - i < Size
    PROVE  i % Size # j % Size
<1> DEFINE n == Size
<1>1. n \in Nat /\ n > 0
  BY RequestBodyAssumption
<1> HIDE DEF n
<1>2. i = n * (i \div n) + (i % n) /\ j = n * (j \div n) + (j % n)
      /\ i \div n \in Int /\ j \div n \in Int
  BY <1>1
<1> SUFFICES ASSUME i % n = j % n PROVE FALSE
    BY DEF n
<1> DEFINE k == (j \div n) - (i \div n)
<1>3. k \in Int /\ j - i = n * k
  BY <1>1, <1>2
<1> HIDE DEF k
<1>4. n * k > 0 /\ n * k < n
  BY <1>1, <1>3 DEF n
<1>5. CASE k <= 0
  <2>1. n * k <= 0
    BY <1>1, <1>3, <1>5
  <2> QED BY <1>1, <1>3, <1>4, <2>1
<1>6. CASE k >= 1
  <2>1. n * k >= n
    BY <1>1, <1>3, <1>6
  <2> QED BY <1>1, <1>3, <1>4, <2>1
<1> QED BY <1>3, <1>5, <1>6

\* A byte's position modulo the ring size names a cell of the ring.
LEMMA CellInRing == ASSUME NEW i \in Nat PROVE i % Size \in 0 .. Size - 1
BY RequestBodyAssumption

-------------------------------------------------------------------------------
\* The counters, and the span being written, never use more than the ring.
Bounded ==
    /\ tail <= head /\ head <= tail + Size
    /\ producer.pc \in {"idle", "copy"}
    /\ producer.pc = "copy" => /\ head <= producer.at /\ producer.at <= producer.to
                               /\ producer.to <= tail + Size

\* What the consumer loaded is behind what the producer published.
ConsumerBehind ==
    /\ consumer.pc \in {"tail", "error", "eof"} =>
          tail <= consumer.head /\ consumer.head <= head
    /\ consumer.pc \in {"error", "eof"} => consumer.head = tail
    /\ consumer.pc = "copy" => /\ tail <= consumer.at /\ consumer.at <= consumer.to
                               /\ consumer.to <= head

\* Every cell from tail to the last byte copied holds the byte of its position.
Written == IF producer.pc = "copy" THEN producer.at ELSE head
Stored == \A i \in Nat : tail <= i /\ i < Written => buffer[i % Size] = Byte(i)

\* The consumer was given exactly the bytes before its own position.
Taken == IF consumer.pc = "copy" THEN consumer.at ELSE tail
GotTaken == Len(got) = Taken

\* Once a flag is up the producer is done and head stays.
Settling ==
    /\ eof \/ error => producer.pc = "idle"
    /\ settled => eof \/ error
    /\ settled /\ consumer.pc \in {"tail", "error", "eof"} => consumer.head = head
    /\ ended # "no" => consumer.pc = "idle"

Inv ==
    /\ BodyTypeOK
    /\ Bounded
    /\ ConsumerBehind
    /\ Stored
    /\ GotTaken
    /\ InOrder
    /\ Settling
    /\ SettledEndIsWhole

\* An initialised queue satisfies the inductive invariant.
LEMMA InvInit == BodyInit => Inv
<1> SUFFICES ASSUME BodyInit PROVE Inv
    OBVIOUS
<1> USE RequestBodyAssumption DEF BodyInit, IdleProducer, IdleConsumer
<1>1. BodyTypeOK
  <2>1. buffer \in [0 .. Size - 1 -> Bytes]
    BY DEF Bytes
  <2>2. got \in Seq(Bytes)
    OBVIOUS
  <2> QED BY <2>1, <2>2 DEF BodyTypeOK
<1>2. Bounded /\ ConsumerBehind /\ Settling /\ SettledEndIsWhole
  BY DEF Bounded, ConsumerBehind, Settling, SettledEndIsWhole
<1>3. Stored
  <2>1. tail = 0 /\ Written = 0
    BY DEF Written
  <2>2. \A i \in Nat : ~(0 <= i /\ i < 0)
    OBVIOUS
  <2> QED BY <2>1, <2>2 DEF Stored
<1>4. Len(got) = 0 /\ GotTaken
  BY DEF GotTaken, Taken
<1>5. InOrder
  BY <1>4 DEF InOrder
<1> QED BY <1>1, <1>2, <1>3, <1>4, <1>5 DEF Inv

\* The steps of the producer.
LEMMA ProducerInv ==
    ASSUME Inv,
           (\E length \in Spans : WriteBegin(length)) \/ MarkEof \/ MarkError \/ ProducerStep
    PROVE  Inv'
<1> USE RequestBodyAssumption DEF Inv
<1>0. UNCHANGED <<tail, consumer, got, ended, settled>>
  BY DEF WriteBegin, MarkEof, MarkError, ProducerStep, WriteCopy, WritePublish
<1>1. GotTaken' /\ InOrder'
  BY <1>0 DEF GotTaken, Taken, InOrder, Byte
<1>2. ASSUME NEW length \in Spans, WriteBegin(length) PROVE Inv'
  <2>1. /\ UNCHANGED <<head, eof, error, buffer>> /\ ~eof /\ ~error
        /\ producer' = [pc |-> "copy", at |-> head, to |-> head + length]
        /\ head + length <= tail + Size /\ producer.pc = "idle" /\ length \in Nat
    BY <1>2 DEF WriteBegin, BodyTypeOK
  <2>2. BodyTypeOK'
    BY <1>0, <2>1 DEF BodyTypeOK
  <2>3. (Bounded /\ ConsumerBehind /\ Settling /\ SettledEndIsWhole)'
    BY <1>0, <2>1 DEF BodyTypeOK, Bounded, ConsumerBehind, Settling, SettledEndIsWhole
  <2>4. Stored'
    BY <1>0, <2>1 DEF Stored, Written, Byte
  <2> QED BY <1>1, <2>2, <2>3, <2>4
<1>3. CASE MarkEof \/ MarkError
  <2>1. /\ UNCHANGED <<head, buffer, producer>> /\ producer.pc = "idle"
        /\ eof' \in BOOLEAN /\ error' \in BOOLEAN /\ (eof \/ error => eof' \/ error')
        /\ ~eof /\ ~error
    BY <1>3 DEF MarkEof, MarkError, BodyTypeOK
  <2>2. BodyTypeOK'
    BY <1>0, <2>1 DEF BodyTypeOK
  <2>3. (Bounded /\ ConsumerBehind /\ Settling /\ SettledEndIsWhole)'
    BY <1>0, <2>1 DEF BodyTypeOK, Bounded, ConsumerBehind, Settling, SettledEndIsWhole
  <2>4. Stored'
    BY <1>0, <2>1 DEF Stored, Written, Byte
  <2> QED BY <1>1, <2>2, <2>3, <2>4
<1>4. CASE WriteCopy
  <2> DEFINE a == producer.at
  <2>1. /\ UNCHANGED <<head, eof, error>> /\ producer.pc = "copy" /\ a < producer.to
        /\ buffer' = [buffer EXCEPT ![a % Size] = Byte(a)]
        /\ producer' = [pc |-> "copy", at |-> a + 1, to |-> producer.to]
        /\ a \in Nat /\ producer.to \in Nat /\ a % Size \in 0 .. Size - 1
    BY <1>4, CellInRing, SMTT(40) DEF WriteCopy, BodyTypeOK
  <2>2. BodyTypeOK'
    <3>1. Byte(a) \in Bytes
      BY <2>1, SMTT(40) DEF BodyTypeOK, Byte, Bytes
    <3>2. buffer' \in [0 .. Size - 1 -> Bytes]
      BY <2>1, <3>1 DEF BodyTypeOK
    <3>3. producer' \in [pc : {"idle", "copy"}, at : Nat, to : Nat]
      BY <2>1
    <3> QED BY <1>0, <2>1, <3>2, <3>3 DEF BodyTypeOK
  <2>3. (Bounded /\ ConsumerBehind /\ Settling /\ SettledEndIsWhole)'
    <3>1. Bounded'
      BY <1>0, <2>1, SMTT(40) DEF BodyTypeOK, Bounded
    <3>2. (ConsumerBehind /\ Settling /\ SettledEndIsWhole)'
      BY <1>0, <2>1 DEF BodyTypeOK, ConsumerBehind, Settling, SettledEndIsWhole
    <3> QED BY <3>1, <3>2
  <2>4. Stored'
    <3> SUFFICES ASSUME NEW i \in Nat, tail <= i, i < a + 1
                 PROVE  buffer'[i % Size] = Byte(i)
        BY <1>0, <2>1 DEF Stored, Written, Byte, BodyTypeOK
    <3>1. CASE i = a
      BY <2>1, <3>1 DEF BodyTypeOK
    <3>2. CASE i < a
      <4>1. a - i < Size
        BY <2>1, SMTT(40) DEF Bounded, BodyTypeOK
      <4>2. i % Size # a % Size /\ i % Size \in 0 .. Size - 1
        BY <2>1, <3>2, <4>1, CellsDiffer, CellInRing
      <4>3. buffer[i % Size] = Byte(i)
        BY <2>1, <3>2 DEF Stored, Written
      <4> QED BY <2>1, <4>2, <4>3 DEF BodyTypeOK
    <3> QED BY <2>1, <3>1, <3>2
  <2> QED BY <1>1, <2>2, <2>3, <2>4
<1>5. CASE WritePublish
  <2>1. /\ UNCHANGED <<eof, error, buffer>> /\ producer.pc = "copy"
        /\ producer.at = producer.to /\ head' = producer.to
        /\ producer' = [pc |-> "idle", at |-> 0, to |-> 0]
    BY <1>5 DEF WritePublish, IdleProducer
  <2>2. BodyTypeOK'
    BY <1>0, <2>1 DEF BodyTypeOK
  <2>3. (Bounded /\ ConsumerBehind)'
    BY <1>0, <2>1 DEF BodyTypeOK, Bounded, ConsumerBehind
  <2>4. (Settling /\ SettledEndIsWhole)'
    BY <1>0, <2>1 DEF BodyTypeOK, Settling, SettledEndIsWhole
  <2>5. Stored'
    BY <1>0, <2>1 DEF Stored, Written, Byte
  <2> QED BY <1>1, <2>2, <2>3, <2>4, <2>5
<1> QED BY <1>2, <1>3, <1>4, <1>5 DEF ProducerStep

\* The steps of the consumer.
LEMMA ConsumerInv ==
    ASSUME Inv, (\E capacity \in Capacities : ReadHead(capacity)) \/ ConsumerStep
    PROVE  Inv'
<1> USE RequestBodyAssumption DEF Inv
<1>0. UNCHANGED <<head, eof, error, buffer, producer>>
  BY DEF ReadHead, ConsumerStep, ReadTail, ReadError, ReadEof, ReadCopy, ReadPublish
<1>1. ASSUME NEW capacity \in Capacities, ReadHead(capacity) PROVE Inv'
  <2>1. /\ UNCHANGED <<tail, got, ended>> /\ ended = "no" /\ consumer.pc = "idle"
        /\ consumer' = [pc |-> "tail", head |-> head, at |-> 0, to |-> 0,
                        capacity |-> capacity]
        /\ settled' = (eof \/ error) /\ capacity \in Nat
    BY <1>1 DEF ReadHead, IdleConsumer
  <2>2. BodyTypeOK'
    <3>1. settled' \in BOOLEAN
      BY <2>1
    <3> QED BY <1>0, <2>1, <3>1 DEF BodyTypeOK
  <2>3. (Bounded /\ ConsumerBehind /\ Stored)'
    BY <1>0, <2>1 DEF BodyTypeOK, Bounded, ConsumerBehind, Stored, Written, Byte
  <2>4. (GotTaken /\ InOrder)'
    BY <1>0, <2>1 DEF GotTaken, Taken, InOrder, Byte
  <2>5. (Settling /\ SettledEndIsWhole)'
    BY <1>0, <2>1 DEF Settling, SettledEndIsWhole
  <2> QED BY <2>2, <2>3, <2>4, <2>5
<1>2. CASE ReadTail
  <2>1. UNCHANGED <<tail, got, ended, settled>> /\ consumer.pc = "tail"
    BY <1>2 DEF ReadTail
  <2>2. (Bounded /\ Stored /\ InOrder)'
    BY <1>0, <2>1 DEF Bounded, Stored, Written, Byte, InOrder
  <2> DEFINE available == consumer.head - tail
             length == IF available > consumer.capacity THEN consumer.capacity ELSE available
  <2>3. /\ available \in Nat /\ available <= Size /\ consumer.capacity \in Nat
        /\ length \in Nat /\ length <= available
    BY <2>1 DEF BodyTypeOK, Bounded, ConsumerBehind
  <2>4. CASE consumer' = IdleConsumer
    BY <1>0, <2>1, <2>2, <2>4 DEF IdleConsumer, BodyTypeOK, ConsumerBehind, GotTaken, Taken,
       Settling, SettledEndIsWhole
  <2>5. CASE consumer' = [consumer EXCEPT !.pc = "error"] /\ available = 0
    <3>1. consumer.head = tail
      BY <2>5 DEF BodyTypeOK
    <3> QED BY <1>0, <2>1, <2>2, <2>5, <3>1, SMTT(40) DEF BodyTypeOK, ConsumerBehind,
       GotTaken, Taken,
            Settling, SettledEndIsWhole
  <2>6. CASE consumer' = [consumer EXCEPT !.pc = "copy", !.at = tail, !.to = tail + length]
    <3>1. tail + length \in Nat /\ tail <= tail + length /\ tail + length <= head
      <4>1. /\ tail \in Nat /\ head \in Nat /\ consumer.head \in Nat
            /\ tail <= consumer.head /\ consumer.head <= head
        BY <2>1 DEF BodyTypeOK, ConsumerBehind
      <4> HIDE DEF length
      <4> QED BY <2>3, <4>1
    <3> HIDE DEF length
    <3>2. /\ consumer'.pc = "copy" /\ consumer'.at = tail /\ consumer'.to = tail + length
          /\ consumer' \in [pc : {"idle", "tail", "error", "eof", "copy"}, head : Nat,
                            at : Nat, to : Nat, capacity : Nat]
      <4>1. /\ tail \in Nat
            /\ consumer \in [pc : {"idle", "tail", "error", "eof", "copy"}, head : Nat,
                             at : Nat, to : Nat, capacity : Nat]
        BY DEF BodyTypeOK
      <4> QED BY <2>6, <3>1, <4>1
    <3>3. BodyTypeOK'
      BY <1>0, <2>1, <3>2 DEF BodyTypeOK
    <3>4. ConsumerBehind' /\ Settling'
      BY <1>0, <2>1, <3>1, <3>2 DEF ConsumerBehind, BodyTypeOK, Settling
    <3>5. GotTaken' /\ SettledEndIsWhole'
      BY <1>0, <2>1, <3>2 DEF GotTaken, Taken, SettledEndIsWhole
    <3> QED BY <2>2, <3>3, <3>4, <3>5
  <2> HIDE DEF length
  <2>7. \/ consumer' = IdleConsumer
        \/ consumer' = [consumer EXCEPT !.pc = "error"] /\ available = 0
        \/ consumer' = [consumer EXCEPT !.pc = "copy", !.at = tail, !.to = tail + length]
    BY <1>2 DEF ReadTail, length
  <2> QED BY <2>4, <2>5, <2>6, <2>7
<1>3. CASE ReadError
  <2>1. /\ UNCHANGED <<tail, got, settled>> /\ consumer.pc = "error"
        /\ \/ error /\ ended' = "error" /\ consumer' = IdleConsumer
           \/ ended' = ended /\ consumer' = [consumer EXCEPT !.pc = "eof"]
    BY <1>3 DEF ReadError
  <2>2. (Bounded /\ Stored /\ InOrder)'
    BY <1>0, <2>1 DEF Bounded, Stored, Written, Byte, InOrder
  <2>3. (BodyTypeOK /\ ConsumerBehind /\ GotTaken)'
    BY <1>0, <2>1 DEF IdleConsumer, BodyTypeOK, ConsumerBehind, GotTaken, Taken
  <2>4. (Settling /\ SettledEndIsWhole)'
    BY <1>0, <2>1 DEF IdleConsumer, BodyTypeOK, ConsumerBehind, GotTaken, Taken, Settling,
       SettledEndIsWhole
  <2> QED BY <2>2, <2>3, <2>4
<1>4. CASE ReadEof
  <2>1. /\ UNCHANGED <<tail, got, settled>> /\ consumer.pc = "eof"
        /\ ended' \in {"eof", ended} /\ consumer' = IdleConsumer
    BY <1>4 DEF ReadEof
  <2>2. (Bounded /\ Stored /\ InOrder)'
    BY <1>0, <2>1 DEF Bounded, Stored, Written, Byte, InOrder
  <2>3. (BodyTypeOK /\ ConsumerBehind /\ GotTaken)'
    BY <1>0, <2>1 DEF IdleConsumer, BodyTypeOK, ConsumerBehind, GotTaken, Taken
  <2>4. (Settling /\ SettledEndIsWhole)'
    BY <1>0, <2>1 DEF IdleConsumer, BodyTypeOK, ConsumerBehind, GotTaken, Taken, Settling,
       SettledEndIsWhole
  <2> QED BY <2>2, <2>3, <2>4
<1>5. CASE ReadCopy
  <2> DEFINE a == consumer.at
  <2>1. /\ UNCHANGED <<tail, ended, settled>> /\ consumer.pc = "copy"
        /\ a < consumer.to /\ a \in Nat
        /\ got' = Append(got, buffer[a % Size])
        /\ consumer' = [consumer EXCEPT !.at = a + 1]
    BY <1>5 DEF ReadCopy, BodyTypeOK
  <2>2. (Bounded /\ Stored)'
    BY <1>0, <2>1 DEF Bounded, Stored, Written, Byte
  <2>3. buffer[a % Size] = Byte(a) /\ buffer[a % Size] \in Bytes
    <3>1. tail <= a /\ a < Written
      BY <2>1, SMTT(40) DEF BodyTypeOK, Bounded, ConsumerBehind, Written
    <3> QED BY <2>1, <3>1, CellInRing DEF Stored, BodyTypeOK
  <2>4. Len(got) = a /\ Len(got') = a + 1 /\ got' \in Seq(Bytes)
    BY <2>1, <2>3, SMTT(40) DEF GotTaken, Taken, BodyTypeOK
  <2>5. InOrder'
    <3> SUFFICES ASSUME NEW i \in 1 .. a + 1 PROVE got'[i] = Byte(i - 1)
        BY <1>0, <2>4 DEF InOrder, Byte
    <3>0. a \in Nat
      BY <2>1
    <3> HIDE DEF a
    <3>1. CASE i <= a
      BY <2>1, <2>4, <3>0, <3>1, SMTT(40) DEF InOrder, BodyTypeOK
    <3>2. CASE i = a + 1
      BY <2>1, <2>3, <2>4, <3>2, SMTT(40) DEF BodyTypeOK
    <3> QED BY <3>0, <3>1, <3>2
  <2>6. (BodyTypeOK /\ ConsumerBehind /\ GotTaken)'
    <3>1. /\ consumer'.pc = "copy" /\ consumer'.at = a + 1 /\ consumer'.to = consumer.to
          /\ consumer' \in [pc : {"idle", "tail", "error", "eof", "copy"}, head : Nat,
                            at : Nat, to : Nat, capacity : Nat]
      <4>1. consumer \in [pc : {"idle", "tail", "error", "eof", "copy"}, head : Nat,
                          at : Nat, to : Nat, capacity : Nat]
        BY DEF BodyTypeOK
      <4>2. /\ a + 1 \in Nat /\ consumer.pc = "copy"
            /\ consumer' = [consumer EXCEPT !.at = a + 1]
        BY <2>1
      <4> HIDE DEF a
      <4> QED BY <4>1, <4>2
    <3>2. BodyTypeOK'
      BY <1>0, <2>1, <2>4, <3>1 DEF BodyTypeOK
    <3>3. a \in Nat /\ a < consumer.to /\ tail <= a /\ consumer.to <= head
          /\ consumer.to \in Nat /\ tail \in Nat /\ UNCHANGED <<tail, head>>
      BY <1>0, <2>1 DEF BodyTypeOK, ConsumerBehind
    <3> HIDE DEF a
    <3>4. ConsumerBehind'
      BY <3>1, <3>3 DEF ConsumerBehind
    <3>5. GotTaken'
      BY <2>4, <3>1 DEF GotTaken, Taken
    <3> QED BY <3>2, <3>4, <3>5
  <2>7. (Settling /\ SettledEndIsWhole)'
    BY <1>0, <2>1, SMTT(40) DEF BodyTypeOK, Settling, SettledEndIsWhole
  <2> QED BY <2>2, <2>5, <2>6, <2>7
<1>6. CASE ReadPublish
  <2>1. /\ UNCHANGED <<got, ended, settled>> /\ consumer.pc = "copy"
        /\ consumer.at = consumer.to /\ tail' = consumer.to
        /\ consumer' = [pc |-> "idle", head |-> 0, at |-> 0, to |-> 0, capacity |-> 0]
    BY <1>6 DEF ReadPublish, IdleConsumer
  <2>2. BodyTypeOK' /\ Bounded' /\ ConsumerBehind'
    BY <1>0, <2>1 DEF BodyTypeOK, Bounded, ConsumerBehind
  <2>3. Stored'
    BY <1>0, <2>1 DEF Stored, Written, Byte, BodyTypeOK, ConsumerBehind
  <2>4. (GotTaken /\ InOrder)'
    BY <1>0, <2>1 DEF GotTaken, Taken, InOrder, Byte
  <2>5. (Settling /\ SettledEndIsWhole)'
    BY <1>0, <2>1 DEF Settling, SettledEndIsWhole
  <2> QED BY <2>2, <2>3, <2>4, <2>5
<1> QED BY <1>1, <1>2, <1>3, <1>4, <1>5, <1>6 DEF ConsumerStep

\* Every step of either side preserves the inductive invariant.
LEMMA InvStep == Inv /\ [BodyNext]_bodyVars => Inv'
<1> SUFFICES ASSUME Inv, [BodyNext]_bodyVars PROVE Inv'
    OBVIOUS
<1>1. CASE BodyNext
  BY <1>1, ProducerInv, ConsumerInv DEF BodyNext
<1>2. CASE UNCHANGED bodyVars
  BY <1>2 DEF bodyVars, Inv, BodyTypeOK, Bounded, ConsumerBehind, Stored, Written, GotTaken, Taken,
     InOrder, Settling, SettledEndIsWhole, Byte
<1> QED BY <1>1, <1>2

\* The inductive invariant holds in every reachable state.
LEMMA InvAlways == BodySpec => []Inv
BY InvInit, InvStep, PTL DEF BodySpec

-------------------------------------------------------------------------------
\* Every variable of the ring, and each side's call in progress, keeps its type.
THEOREM TypeCorrect == BodySpec => []BodyTypeOK
<1>1. Inv => BodyTypeOK
  BY DEF Inv
<1> QED BY <1>1, InvAlways, PTL

\* ck_http_request_body_read gives the bytes written by
\* ck_http_request_body_write in order, each once and none torn.
THEOREM BodyInOrder == BodySpec => []InOrder
<1>1. Inv => InOrder
  BY DEF Inv
<1> QED BY <1>1, InvAlways, PTL

\* The memcpy of a write and the memcpy of a read never touch the same cell.
THEOREM CopiesNeverMeet == BodySpec => []CopiesDisjoint
<1>1. Inv => CopiesDisjoint
  <2> SUFFICES ASSUME Inv, producer.pc = "copy", consumer.pc = "copy",
                      NEW i \in producer.at .. producer.to - 1,
                      NEW j \in consumer.at .. consumer.to - 1
               PROVE  i % Size # j % Size
      BY DEF CopiesDisjoint
  <2>1. i \in Nat /\ j \in Nat /\ j < i /\ i - j < Size
    BY RequestBodyAssumption, SMTT(40) DEF Inv, BodyTypeOK, Bounded, ConsumerBehind
  <2> QED BY <2>1, CellsDiffer
<1> QED BY <1>1, InvAlways, PTL

\* A read begun after mark_eof or mark_error reports the end only to a consumer
\* that has every byte of the body.
THEOREM SettledEnd == BodySpec => []SettledEndIsWhole
<1>1. Inv => SettledEndIsWhole
  BY DEF Inv
<1> QED BY <1>1, InvAlways, PTL
================================================================================

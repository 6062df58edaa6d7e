------------------------ MODULE CompletionQueueProofs -------------------------
(***************************************************************************)
(* Proofs, for any capacity and any number of producers, that the ring of  *)
(* the completion queue is a bounded first-in first-out queue, that no     *)
(* published completion is lost, and that the event loop never misses the  *)
(* wakeup for one.                                                         *)
(***************************************************************************)
EXTENDS CompletionQueue, SequenceTheorems, FiniteSetTheorems, TLAPS

\* Positions less than a ring apart have different cells.
LEMMA CellsDiffer ==
    ASSUME NEW i \in Nat, NEW j \in Nat, i < j, j - i < Capacity
    PROVE  i % Capacity # j % Capacity
<1> DEFINE n == Capacity
<1>1. n \in Nat /\ n > 0
  BY CompletionQueueAssumption
<1> HIDE DEF n
<1>2. i = n * (i \div n) + (i % n) /\ j = n * (j \div n) + (j % n)
      /\ i \div n \in Int /\ j \div n \in Int
  BY <1>1
<1> SUFFICES ASSUME i % n = j % n PROVE FALSE
    BY DEF n
<1> DEFINE k == (j \div n) - (i \div n)
<1>3. k \in Int /\ j - i = n * k
  BY <1>1, <1>2
<1> HIDE DEF k
<1>4. n * k > 0 /\ n * k < n
  BY <1>1, <1>3 DEF n
<1>5. CASE k <= 0
  <2>1. n * k <= 0
    BY <1>1, <1>3, <1>5
  <2> QED BY <1>1, <1>3, <1>4, <2>1
<1>6. CASE k >= 1
  <2>1. n * k >= n
    BY <1>1, <1>3, <1>6
  <2> QED BY <1>1, <1>3, <1>4, <2>1
<1> QED BY <1>3, <1>5, <1>6

\* Wrapping an index that starts inside the ring.
LEMMA WrapOnce ==
    ASSUME NEW i \in Nat, i < 2 * Capacity
    PROVE  i % Capacity = IF i < Capacity THEN i ELSE i - Capacity
<1> DEFINE n == Capacity
<1>1. n \in Nat /\ n > 0
  BY CompletionQueueAssumption
<1> HIDE DEF n
<1>2. CASE i < n
  BY <1>1, <1>2 DEF n
<1>3. CASE i >= n
  <2> DEFINE j == i - n
  <2>1. j \in Nat /\ j < n /\ i = j + n
    BY <1>1, <1>3 DEF n
  <2>2. (j + n) % n = j
    BY <1>1, <2>1
  <2> QED BY <1>1, <1>3, <2>1, <2>2 DEF n
<1> QED BY <1>1, <1>2, <1>3 DEF n

\* A cell index is a position of the ring.
LEMMA CellInRing == ASSUME NEW i \in Nat PROVE i % Capacity \in 0 .. Capacity - 1
BY CompletionQueueAssumption

-------------------------------------------------------------------------------
\* The counters agree, and the queued cells hold records.
RingOK ==
    /\ tail = (head + count) % Capacity
    /\ \A i \in 1 .. count : entries[(head + i - 1) % Capacity] \in Records

\* A producer inside push_wait still has its record to publish.
Publishing == \A p \in Producers : pc[p] # "idle" => sent[p] < MaxRecords

Inv == TypeOK /\ RingOK /\ Publishing /\ NothingLost /\ NoLostWakeup

\* Contents is a sequence of count records.
LEMMA ContentsSeq ==
    ASSUME TypeOK, RingOK
    PROVE  /\ Contents \in Seq(Records)
           /\ Len(Contents) = count
           /\ \A i \in 1 .. count : Contents[i] = entries[(head + i - 1) % Capacity]
<1>1. count \in Nat
  BY CompletionQueueAssumption DEF TypeOK
<1>2. Contents \in [1 .. count -> Records]
  BY DEF RingOK, Contents
<1> QED BY <1>1, <1>2, SeqDef DEF Contents

\* The cell at tail is none of the queued ones while there is room.
LEMMA CellFree ==
    ASSUME TypeOK, RingOK, count < Capacity, NEW i \in 1 .. count
    PROVE  (head + i - 1) % Capacity # tail /\ (head + i - 1) % Capacity \in 0 .. Capacity - 1
<1> DEFINE a == head + i - 1
           b == head + count
<1>1. a \in Nat /\ b \in Nat /\ a < b /\ b - a < Capacity
  BY CompletionQueueAssumption DEF TypeOK
<1> HIDE DEF a, b
<1>2. a % Capacity # b % Capacity
  BY <1>1, CellsDiffer
<1>3. a % Capacity \in 0 .. Capacity - 1
  BY <1>1, CellInRing
<1> QED BY <1>2, <1>3 DEF a, b, RingOK

\* A stored record is appended to the contents and disturbs none of them.
LEMMA StoreContents ==
    ASSUME TypeOK, RingOK, count < Capacity, NEW record \in Records,
           entries' = [entries EXCEPT ![tail] = record],
           tail' = (tail + 1) % Capacity, count' = count + 1, head' = head
    PROVE  RingOK' /\ Contents' = Append(Contents, record) /\ Contents' \in Seq(Records)
<1> USE CompletionQueueAssumption
<1>0. head \in Nat /\ count \in Nat /\ Capacity \in Nat /\ head < Capacity /\ tail \in Nat
      /\ tail < Capacity /\ count' \in Nat
  BY DEF TypeOK
<1>1. \A i \in 1 .. count : entries'[(head + i - 1) % Capacity]
                              = entries[(head + i - 1) % Capacity]
  <2> TAKE i \in 1 .. count
  <2>1. (head + i - 1) % Capacity # tail /\ (head + i - 1) % Capacity \in 0 .. Capacity - 1
    BY CellFree
  <2> QED BY <2>1 DEF TypeOK
<1>2. entries'[(head + count) % Capacity] = record
  BY <1>0 DEF TypeOK, RingOK
<1>3. tail' = (head' + count') % Capacity
  <2>1. head + count < 2 * Capacity /\ head + count + 1 < 2 * Capacity
    BY <1>0
  <2>2. tail = IF head + count < Capacity THEN head + count ELSE head + count - Capacity
    BY <1>0, <2>1, WrapOnce DEF RingOK
  <2>3. (head + count + 1) % Capacity = IF head + count + 1 < Capacity THEN head + count + 1
                                        ELSE head + count + 1 - Capacity
    BY <1>0, <2>1, WrapOnce
  <2>4. (tail + 1) % Capacity = IF tail + 1 < Capacity THEN tail + 1 ELSE tail + 1 - Capacity
    BY <1>0, WrapOnce
  <2> QED BY <1>0, <2>2, <2>3, <2>4
<1>4. \A i \in 1 .. count' : entries'[(head' + i - 1) % Capacity]
                              = IF i <= count THEN Contents[i] ELSE record
  <2> TAKE i \in 1 .. count'
  <2>1. CASE i <= count
    <3>1. i \in 1 .. count
      BY <1>0, <2>1
    <3>2. Contents[i] = entries[(head + i - 1) % Capacity]
      BY <3>1, ContentsSeq
    <3> HIDE DEF Contents
    <3> QED BY <1>1, <2>1, <3>1, <3>2
  <2>2. CASE i = count + 1
    <3>1. head' + i - 1 = head + count
      BY <1>0, <2>2
    <3> QED BY <1>0, <1>2, <2>2, <3>1
  <2> QED BY <1>0, <2>1, <2>2
<1>5. RingOK'
  <2>1. \A i \in 1 .. count' : (IF i <= count THEN Contents[i] ELSE record) \in Records
    BY <1>0, ContentsSeq, ElementOfSeq
  <2> QED BY <1>3, <1>4, <2>1 DEF RingOK
<1>6. Contents' \in [1 .. count' -> Records]
  BY <1>5 DEF RingOK, Contents
<1>7. Contents' \in Seq(Records) /\ Len(Contents') = count'
  BY <1>0, <1>6, SeqDef
<1>8. \A i \in 1 .. count' : Contents'[i] = IF i <= count THEN Contents[i] ELSE record
  BY <1>4 DEF Contents
<1>9. Append(Contents, record) \in Seq(Records) /\ Len(Append(Contents, record)) = count'
      /\ \A i \in 1 .. count' : Append(Contents, record)[i]
                                  = IF i <= count THEN Contents[i] ELSE record
  <2>1. Contents \in Seq(Records) /\ Len(Contents) = count
    BY ContentsSeq
  <2> HIDE DEF Contents
  <2> QED BY <1>0, <2>1, AppendProperties
<1> HIDE DEF Contents
<1>10. Contents' = Append(Contents, record)
  <2> DEFINE s == Contents'
             t == Append(Contents, record)
  <2>1. s \in Seq(Records) /\ t \in Seq(Records) /\ Len(s) = Len(t)
        /\ \A i \in 1 .. Len(s) : s[i] = t[i]
    BY <1>7, <1>8, <1>9
  <2> HIDE DEF s, t
  <2>2. s = t
    BY <2>1, SeqEqual
  <2> QED BY <2>2 DEF s, t
<1> QED BY <1>5, <1>7, <1>10

\* A popped record is the first of the contents, and the others move up.
LEMMA PopContents ==
    ASSUME TypeOK, RingOK, count > 0, entries' = entries, tail' = tail,
           head' = (head + 1) % Capacity, count' = count - 1
    PROVE  /\ RingOK' /\ Contents # <<>> /\ Contents' = Tail(Contents)
           /\ entries[head] = Head(Contents) /\ Contents' \in Seq(Records)
           /\ entries[head] \in Records
<1> USE CompletionQueueAssumption
<1>0. head \in Nat /\ count \in Nat /\ Capacity \in Nat /\ head < Capacity /\ count' \in Nat
      /\ count <= Capacity /\ head' \in Nat /\ head' < Capacity
  BY DEF TypeOK
<1>1. head' = IF head + 1 < Capacity THEN head + 1 ELSE head + 1 - Capacity
  BY <1>0, WrapOnce
<1>2. \A k \in 0 .. Capacity : head' + k - 1 \in Nat =>
          (head' + k - 1) % Capacity = (head + k) % Capacity
  <2> TAKE k \in 0 .. Capacity
  <2> HAVE head' + k - 1 \in Nat
  <2> DEFINE a == head + k
             b == head' + k - 1
  <2>1. /\ a \in Nat /\ a < 2 * Capacity /\ b \in Nat /\ b < 2 * Capacity
        /\ b = IF head + 1 < Capacity THEN a ELSE a - Capacity
        /\ head + 1 >= Capacity => a >= Capacity
    BY <1>0, <1>1
  <2> HIDE DEF a, b
  <2>2. /\ a % Capacity = IF a < Capacity THEN a ELSE a - Capacity
        /\ b % Capacity = IF b < Capacity THEN b ELSE b - Capacity
    BY <2>1, WrapOnce
  <2>3. a % Capacity = b % Capacity
    BY <1>0, <2>1, <2>2
  <2> QED BY <2>3 DEF a, b
<1>3. tail' = (head' + count') % Capacity
  <2>1. count \in 0 .. Capacity /\ head' + count - 1 \in Nat /\ head' + count' = head' + count - 1
    BY <1>0
  <2> QED BY <1>2, <2>1 DEF RingOK
<1>4. \A i \in 1 .. count' : /\ i + 1 \in 1 .. count
                             /\ entries'[(head' + i - 1) % Capacity]
                                  = entries[(head + (i + 1) - 1) % Capacity]
  <2> TAKE i \in 1 .. count'
  <2>1. i \in 0 .. Capacity /\ head' + i - 1 \in Nat /\ head + (i + 1) - 1 = head + i
        /\ i + 1 \in 1 .. count
    BY <1>0
  <2> QED BY <1>2, <2>1
<1>5. RingOK'
  BY <1>3, <1>4 DEF RingOK
<1>6. /\ Contents \in Seq(Records) /\ Len(Contents) = count
      /\ \A i \in 1 .. count : Contents[i] = entries[(head + i - 1) % Capacity]
  BY ContentsSeq
<1>7. Contents' \in [1 .. count' -> Records]
  BY <1>5 DEF RingOK, Contents
<1>8. Contents' \in Seq(Records) /\ Len(Contents') = count'
  BY <1>0, <1>7, SeqDef
<1>9. \A i \in 1 .. count' : Contents'[i] = entries'[(head' + i - 1) % Capacity]
  BY DEF Contents
<1> HIDE DEF Contents
<1>10. \A i \in 1 .. count' : Contents'[i] = Contents[i + 1]
  BY <1>4, <1>6, <1>9
<1>11. Contents # <<>>
  BY <1>0, <1>6, EmptySeq
<1>12. Contents' = Tail(Contents)
  <2> DEFINE s == Contents'
             t == Tail(Contents)
  <2>1. t \in Seq(Records) /\ Len(t) = count' /\ \A i \in 1 .. count' : t[i] = Contents[i + 1]
    BY <1>0, <1>6, <1>11, HeadTailProperties
  <2>2. s \in Seq(Records) /\ Len(s) = Len(t) /\ \A i \in 1 .. Len(s) : s[i] = t[i]
    BY <1>8, <1>10, <2>1
  <2> HIDE DEF s, t
  <2>3. s = t
    BY <2>1, <2>2, SeqEqual
  <2> QED BY <2>3 DEF s, t
<1>13. entries[head] = Head(Contents) /\ entries[head] \in Records
  <2>1. 1 \in 1 .. count /\ (head + 1 - 1) % Capacity = head
    BY <1>0, WrapOnce
  <2>2. Contents[1] = entries[head]
    BY <1>6, <2>1
  <2>3. Head(Contents) = Contents[1]
    BY <1>6, <1>11
  <2> QED BY <2>1, <2>2, <2>3 DEF RingOK
<1> QED BY <1>5, <1>8, <1>11, <1>12, <1>13

\* Moving the first element from one sequence to the end of the other one.
LEMMA MoveHead ==
    ASSUME NEW S, NEW s \in Seq(S), NEW t \in Seq(S), t # <<>>
    PROVE  Append(s, Head(t)) \o Tail(t) = s \o t
<1> DEFINE u == Append(s, Head(t)) \o Tail(t)
           v == s \o t
<1>1. Head(t) \in S /\ Tail(t) \in Seq(S) /\ Len(Tail(t)) = Len(t) - 1
      /\ \A i \in 1 .. Len(t) - 1 : Tail(t)[i] = t[i + 1]
  BY HeadTailProperties
<1>2. Append(s, Head(t)) \in Seq(S) /\ Len(Append(s, Head(t))) = Len(s) + 1
      /\ \A i \in 1 .. Len(s) : Append(s, Head(t))[i] = s[i]
      /\ Append(s, Head(t))[Len(s) + 1] = Head(t)
  BY <1>1, AppendProperties
<1>3. u \in Seq(S) /\ Len(u) = Len(s) + Len(t)
      /\ \A i \in 1 .. Len(u) : u[i] = IF i <= Len(s) + 1 THEN Append(s, Head(t))[i]
                                       ELSE Tail(t)[i - (Len(s) + 1)]
  BY <1>1, <1>2, ConcatProperties
<1>4. v \in Seq(S) /\ Len(v) = Len(s) + Len(t)
      /\ \A i \in 1 .. Len(v) : v[i] = IF i <= Len(s) THEN s[i] ELSE t[i - Len(s)]
  BY ConcatProperties
<1>5. Head(t) = t[1] /\ Len(s) \in Nat /\ Len(t) \in Nat
  OBVIOUS
<1> HIDE DEF u, v
<1>6. ASSUME NEW i \in 1 .. Len(u) PROVE u[i] = v[i]
  <2>1. CASE i <= Len(s)
    BY <1>2, <1>3, <1>4, <1>5, <2>1, SMTT(40)
  <2>2. CASE i = Len(s) + 1
    BY <1>2, <1>3, <1>4, <1>5, <2>2
  <2>3. CASE i > Len(s) + 1
    <3>1. i - (Len(s) + 1) \in 1 .. Len(t) - 1
      BY <1>3, <1>5, <2>3
    <3>2. Tail(t)[i - (Len(s) + 1)] = t[i - (Len(s) + 1) + 1]
      BY <1>1, <3>1
    <3>3. i - (Len(s) + 1) + 1 = i - Len(s)
      BY <1>5
    <3> QED BY <1>3, <1>4, <1>5, <2>3, <3>2, <3>3
  <2> QED BY <1>3, <1>5, <2>1, <2>2, <2>3
<1>7. u = v
  BY <1>3, <1>4, <1>6, SeqEqual
<1> QED BY <1>7 DEF u, v

\* Appending to the second of two sequences appends to both together.
LEMMA AppendConcat ==
    \A s, t \in Seq(Records) : \A e \in Records : Append(s \o t, e) = s \o Append(t, e)
<1> SUFFICES ASSUME NEW s \in Seq(Records), NEW t \in Seq(Records), NEW e \in Records
             PROVE  Append(s \o t, e) = s \o Append(t, e)
    OBVIOUS
<1>1. s \o t \in Seq(Records) /\ <<e>> \in Seq(Records)
  BY ConcatProperties
<1>2. Append(s \o t, e) = (s \o t) \o <<e>> /\ Append(t, e) = t \o <<e>>
  BY <1>1, AppendIsConcat
<1> QED BY <1>1, <1>2, ConcatAssociative

-------------------------------------------------------------------------------
\* The invariant holds of the queue ck_completion_queue_init leaves.
LEMMA InvInit == Init => Inv /\ Contents = <<>>
<1> SUFFICES ASSUME Init PROVE Inv /\ Contents = <<>>
    OBVIOUS
<1> USE CompletionQueueAssumption DEF Init
<1>1. TypeOK
  <2>1. entries \in [0 .. Capacity - 1 -> Records \cup {NoRecord}]
    OBVIOUS
  <2>2. accepted \in Seq(Records) /\ delivered \in Seq(Records)
    BY EmptySeq
  <2>3. pc \in [Producers -> {"idle", "asleep", "woken"}] /\ sent \in [Producers -> 0 .. MaxRecords]
    OBVIOUS
  <2> QED BY <2>1, <2>2, <2>3 DEF TypeOK
<1>2. RingOK
  BY DEF RingOK
<1>3. Publishing /\ NoLostWakeup
  BY DEF Publishing, NoLostWakeup
<1>4. Contents = <<>>
  <2>1. Len(Contents) = 0 /\ Contents \in Seq(Records)
    BY <1>1, <1>2, ContentsSeq
  <2> QED BY <2>1, EmptySeq
<1>5. NothingLost
  BY <1>4, EmptySeq, ConcatEmptySeq DEF NothingLost
<1> QED BY <1>1, <1>2, <1>3, <1>4, <1>5 DEF Inv

\* A step that leaves the ring, the histories and the capacity alone.
LEMMA SameContents ==
    ASSUME Inv, UNCHANGED <<ring, accepted, delivered>>
    PROVE  RingOK' /\ NothingLost' /\ Contents' = Contents
BY DEF Inv, RingOK, NothingLost, Contents, ring

\* Store: the record is published, or the failed signal takes it back.
LEMMA StoreInv ==
    ASSUME Inv, NEW p \in Producers, sent[p] < MaxRecords, ~closed, count # Capacity,
           Store(p), UNCHANGED <<closed, loop, delivered>>
    PROVE  Inv' /\ (\/ \E record \in Records : /\ Len(Contents) < Capacity
                                               /\ Contents' = Append(Contents, record)
                    \/ Contents' = Contents)
<1> USE CompletionQueueAssumption
<1> DEFINE record == [producer |-> p, number |-> sent[p]]
<1>0. TypeOK /\ RingOK /\ Publishing /\ NothingLost /\ NoLostWakeup
  BY DEF Inv
<1>1. record \in Records /\ count < Capacity /\ sent[p] \in Nat /\ sent[p] < MaxRecords
  BY <1>0 DEF TypeOK, Records
<1>2. /\ entries' = [entries EXCEPT ![tail] = record]
      /\ pc' = [pc EXCEPT ![p] = "idle"]
      /\ sent' = [sent EXCEPT ![p] = sent[p] + 1]
      /\ head' = head
  BY DEF Store, Return
<1> HIDE DEF record
<1>3. /\ entries' \in [0 .. Capacity - 1 -> Records \cup {NoRecord}]
      /\ pc' \in [Producers -> {"idle", "asleep", "woken"}]
      /\ sent' \in [Producers -> 0 .. MaxRecords]
  <2>1. sent[p] + 1 \in 0 .. MaxRecords
    BY <1>1
  <2> QED BY <1>0, <1>1, <1>2, <2>1 DEF TypeOK
<1>4. Publishing'
  BY <1>0, <1>2 DEF Publishing, TypeOK
<1>5. CASE /\ tail' = (tail + 1) % Capacity /\ count' = count + 1
           /\ accepted' = Append(accepted, record) /\ Signal /\ UNCHANGED failed
  <2>1. RingOK' /\ Contents' = Append(Contents, record) /\ Contents' \in Seq(Records)
    BY <1>0, <1>1, <1>2, <1>5, StoreContents
  <2>2. Contents \in Seq(Records) /\ Len(Contents) = count
    BY <1>0, ContentsSeq
  <2>3. accepted' \in Seq(Records) /\ NothingLost'
    <3>1. accepted \in Seq(Records) /\ delivered \in Seq(Records)
      BY <1>0 DEF TypeOK
    <3>2. accepted' \in Seq(Records)
      BY <1>1, <1>5, <3>1, AppendProperties
    <3>3. Append(delivered \o Contents, record) = delivered \o Append(Contents, record)
      <4>1. record \in Records /\ Contents \in Seq(Records) /\ delivered \in Seq(Records)
        BY <1>1, <2>2, <3>1
      <4> QED BY <4>1, AppendConcat, Zenon
    <3> QED BY <1>0, <1>5, <2>1, <3>2, <3>3 DEF NothingLost
  <2>4. notify' \in 0 .. NotifyMax /\ notify' > 0
    BY <1>0, <1>5 DEF Signal, TypeOK
  <2>5. tail' \in 0 .. Capacity - 1 /\ count' \in 0 .. Capacity
    <3>1. tail + 1 \in Nat /\ count + 1 \in 0 .. Capacity
      BY <1>0, <1>1 DEF TypeOK
    <3> QED BY <1>5, <3>1, CellInRing
  <2>6. TypeOK'
    BY <1>0, <1>2, <1>3, <1>5, <2>3, <2>4, <2>5 DEF TypeOK
  <2>7. NoLostWakeup'
    BY <2>4 DEF NoLostWakeup
  <2> QED BY <1>1, <1>4, <2>1, <2>2, <2>3, <2>6, <2>7 DEF Inv
<1>6. CASE SignalMayFail /\ failed' = TRUE /\ UNCHANGED <<tail, count, accepted, notify>>
  <2>1. \A i \in 1 .. count : entries'[(head + i - 1) % Capacity]
                               = entries[(head + i - 1) % Capacity]
    <3> TAKE i \in 1 .. count
    <3>1. (head + i - 1) % Capacity # tail /\ (head + i - 1) % Capacity \in 0 .. Capacity - 1
      BY <1>0, <1>1, CellFree
    <3> QED BY <1>0, <1>2, <3>1 DEF TypeOK
  <2>2. Contents' = Contents /\ RingOK'
    BY <1>0, <1>2, <1>6, <2>1 DEF Contents, RingOK
  <2>3. NothingLost' /\ NoLostWakeup'
    BY <1>0, <1>6, <2>2 DEF NothingLost, NoLostWakeup
  <2>4. TypeOK'
    BY <1>0, <1>2, <1>3, <1>6 DEF TypeOK
  <2> QED BY <1>4, <2>2, <2>3, <2>4 DEF Inv
<1> QED BY <1>5, <1>6 DEF Store, record

\* A call that is refused, or that goes to sleep or wakes up.
LEMMA QuietInv ==
    ASSUME Inv, UNCHANGED <<ring, notify, loop, accepted, delivered>>, TypeOK', Publishing'
    PROVE  Inv' /\ Contents' = Contents
<1>1. RingOK' /\ NothingLost' /\ Contents' = Contents
  BY SameContents
<1>2. NoLostWakeup'
  BY DEF Inv, NoLostWakeup, ring
<1> QED BY <1>1, <1>2 DEF Inv

\* Refuse returns to the producer with its record counted.
LEMMA RefuseInv ==
    ASSUME Inv, NEW p \in Producers, sent[p] < MaxRecords, Refuse(p),
           UNCHANGED <<closed, loop, delivered>>
    PROVE  Inv' /\ Contents' = Contents
<1>1. sent[p] + 1 \in 0 .. MaxRecords
  BY CompletionQueueAssumption DEF Inv, TypeOK
<1>2. /\ pc' = [pc EXCEPT ![p] = "idle"]
      /\ sent' = [sent EXCEPT ![p] = sent[p] + 1]
      /\ UNCHANGED <<ring, notify, accepted, failed>>
  BY DEF Refuse, Return
<1>3. TypeOK' /\ Publishing'
  BY <1>1, <1>2 DEF Inv, TypeOK, Publishing, ring
<1> QED BY <1>2, <1>3, QuietInv

\* The steps of the producers.
LEMMA ProducerInv ==
    ASSUME Inv, NEW p \in Producers,
           Push(p) \/ PushWait(p) \/ Resume(p) \/ SpuriousWakeup(p)
    PROVE  /\ Inv'
           /\ closed' = closed
           /\ \/ \E record \in Records : /\ ~closed /\ Len(Contents) < Capacity
                                         /\ Contents' = Append(Contents, record)
              \/ Contents' = Contents
<1>1. closed' = closed /\ UNCHANGED <<loop, delivered>>
  BY DEF Push, PushWait, Resume, WaitOrStore, SpuriousWakeup
<1>2. CASE SpuriousWakeup(p)
  <2>1. TypeOK' /\ Publishing'
    BY <1>2 DEF SpuriousWakeup, Inv, TypeOK, Publishing, ring
  <2> QED BY <1>1, <1>2, <2>1, QuietInv DEF SpuriousWakeup
<1>3. CASE Push(p) \/ PushWait(p) \/ Resume(p)
  <2>1. sent[p] < MaxRecords
    BY <1>3 DEF Push, PushWait, Resume, Inv, Publishing
  <2>2. CASE Refuse(p)
    BY <1>1, <2>1, <2>2, RefuseInv
  <2>3. CASE ~closed /\ count # Capacity /\ Store(p)
    <3> HIDE DEF Contents
    <3> QED BY <1>1, <2>1, <2>3, StoreInv
  <2>4. CASE pc' = [pc EXCEPT ![p] = "asleep"]
             /\ UNCHANGED <<ring, notify, sent, accepted, failed>>
    <3>1. TypeOK' /\ Publishing'
      BY <1>1, <2>1, <2>4 DEF Inv, TypeOK, Publishing, ring
    <3> QED BY <1>1, <2>4, <3>1, QuietInv
  <2> QED BY <1>3, <2>2, <2>3, <2>4 DEF Push, PushWait, Resume, WaitOrStore
<1> QED BY <1>2, <1>3

\* The steps of the event loop, the one that leaves it included.
LEMMA LoopInv ==
    ASSUME Inv, LoopStep \/ Leave
    PROVE  Inv' /\ closed' = closed
           /\ (Contents' = Contents \/ (Contents # <<>> /\ Contents' = Tail(Contents)))
<1> USE CompletionQueueAssumption
<1>0. TypeOK /\ RingOK /\ Publishing /\ NothingLost /\ NoLostWakeup
  BY DEF Inv
<1>1. CASE Pop
  <2>1. /\ count > 0 /\ entries' = entries /\ tail' = tail /\ head' = (head + 1) % Capacity
        /\ count' = count - 1 /\ delivered' = Append(delivered, entries[head])
        /\ UNCHANGED <<closed, notify, sent, loop, accepted, failed>> /\ loop = "poll"
    BY <1>1 DEF Pop
  <2>2. /\ RingOK' /\ Contents # <<>> /\ Contents' = Tail(Contents)
        /\ entries[head] = Head(Contents) /\ Contents' \in Seq(Records)
        /\ entries[head] \in Records
    BY <1>0, <2>1, PopContents
  <2>3. Contents \in Seq(Records) /\ accepted \in Seq(Records) /\ delivered \in Seq(Records)
    BY <1>0, ContentsSeq DEF TypeOK
  <2>4. NothingLost'
    <3>1. Append(delivered, Head(Contents)) \o Tail(Contents) = delivered \o Contents
      <4>1. \A s, t \in Seq(Records) : t # <<>> => Append(s, Head(t)) \o Tail(t) = s \o t
        BY MoveHead
      <4> QED BY <2>2, <2>3, <4>1, Zenon
    <3> QED BY <1>0, <2>1, <2>2, <3>1, SMTT(40) DEF NothingLost
  <2>5. pc' \in [Producers -> {"idle", "asleep", "woken"}] /\ Publishing'
    BY <1>0, <1>1, <2>1 DEF Pop, TypeOK, Publishing, Asleep
  <2>6. head' \in 0 .. Capacity - 1 /\ count' \in 0 .. Capacity
    <3>1. head + 1 \in Nat /\ count - 1 \in 0 .. Capacity
      BY <1>0, <2>1 DEF TypeOK
    <3> QED BY <2>1, <3>1, CellInRing
  <2>7. delivered' \in Seq(Records)
    BY <2>1, <2>2, <2>3, AppendProperties
  <2>8. TypeOK'
    BY <1>0, <2>1, <2>5, <2>6, <2>7 DEF TypeOK
  <2>9. NoLostWakeup'
    BY <2>1 DEF NoLostWakeup
  <2> QED BY <2>1, <2>2, <2>4, <2>5, <2>8, <2>9 DEF Inv
<1>2. CASE PopEmpty \/ Wake \/ DrainRead \/ DrainDone \/ Leave
  <2>1. UNCHANGED <<ring, closed, pc, sent, accepted, delivered, failed>>
    BY <1>2 DEF PopEmpty, Wake, DrainRead, DrainDone, Leave
  <2>2. RingOK' /\ NothingLost' /\ Contents' = Contents
    BY <2>1, SameContents
  <2>3. TypeOK' /\ Publishing'
    BY <1>0, <1>2, <2>1 DEF PopEmpty, Wake, DrainRead, DrainDone, Leave, TypeOK, Publishing, ring
  <2>4. NoLostWakeup'
    BY <1>0, <1>2, <2>1 DEF PopEmpty, Wake, DrainRead, DrainDone, Leave, NoLostWakeup, TypeOK, ring
  <2> QED BY <2>1, <2>2, <2>3, <2>4 DEF Inv
<1> QED BY <1>1, <1>2 DEF LoopStep

\* Close changes no record and no counter.
LEMMA CloseInv ==
    ASSUME Inv, Close
    PROVE  Inv' /\ ~closed /\ closed' = TRUE /\ Contents' = Contents
<1>1. UNCHANGED <<ring, sent, loop, accepted, delivered>> /\ ~closed /\ closed' = TRUE
      /\ pc' = [p \in Producers |-> IF pc[p] = "asleep" THEN "woken" ELSE pc[p]]
  BY DEF Close
<1>2. RingOK' /\ NothingLost' /\ Contents' = Contents
  BY <1>1, SameContents
<1>3. notify' \in 0 .. NotifyMax /\ failed' \in BOOLEAN /\ notify' >= notify
  <2>1. notify \in 0 .. NotifyMax /\ failed \in BOOLEAN /\ NotifyMax \in Nat
    BY CompletionQueueAssumption DEF Inv, TypeOK
  <2>2. notify' \in {notify, IF notify < NotifyMax THEN notify + 1 ELSE notify}
    BY DEF Close, Signal
  <2>3. failed' \in {failed, TRUE}
    BY DEF Close
  <2>4. failed' \in BOOLEAN
    BY <2>1, <2>3
  <2> QED BY <2>1, <2>2, <2>4
<1>4. TypeOK' /\ Publishing'
  BY <1>1, <1>3 DEF Inv, TypeOK, Publishing, ring
<1>5. NoLostWakeup'
  BY <1>1, <1>3 DEF Inv, NoLostWakeup, TypeOK, ring
<1> QED BY <1>1, <1>2, <1>4, <1>5 DEF Inv

\* Every step keeps the invariant and is a step of the abstract queue.
LEMMA InvStep == Inv /\ [Next]_vars => Inv' /\ [Fifo!Next]_Fifo!vars
<1> SUFFICES ASSUME Inv, [Next]_vars PROVE Inv' /\ [Fifo!Next]_Fifo!vars
    OBVIOUS
<1>1. ASSUME NEW p \in Producers, Push(p) \/ PushWait(p) \/ Resume(p) \/ SpuriousWakeup(p)
      PROVE  Inv' /\ [Fifo!Next]_Fifo!vars
  BY <1>1, ProducerInv DEF Fifo!Next, Fifo!Put, Fifo!vars
<1>2. CASE LoopStep \/ Leave
  BY <1>2, LoopInv DEF Fifo!Next, Fifo!Take, Fifo!vars
<1>3. CASE Close
  BY <1>3, CloseInv DEF Fifo!Next, Fifo!Close, Fifo!vars
<1>4. CASE UNCHANGED vars
  <2>1. RingOK' /\ NothingLost' /\ Contents' = Contents
    BY <1>4, SameContents DEF vars, ring
  <2> QED BY <1>4, <2>1 DEF vars, Inv, TypeOK, Publishing, NoLostWakeup, Fifo!vars
<1> QED BY <1>1, <1>2, <1>3, <1>4 DEF Next

\* The inductive invariant holds in every reachable state.
LEMMA InvAlways == Spec => []Inv
BY InvInit, InvStep, PTL DEF Spec

-------------------------------------------------------------------------------
\* Every variable of the queue, the producers and the event loop keeps its type.
THEOREM TypeCorrect == Spec => []TypeOK
<1>1. Inv => TypeOK
  BY DEF Inv
<1> QED BY <1>1, InvAlways, PTL

\* Every record for which push or push_wait returned 0 is delivered or still
\* queued, in the order of publication.
THEOREM RecordsKept == Spec => []NothingLost
<1>1. Inv => NothingLost
  BY DEF Inv
<1> QED BY <1>1, InvAlways, PTL

\* The event loop never waits on a drained eventfd while a completion is queued.
THEOREM WakeupKept == Spec => []NoLostWakeup
<1>1. Inv => NoLostWakeup
  BY DEF Inv
<1> QED BY <1>1, InvAlways, PTL

\* The ring of ck_completion_queue.c implements the bounded FIFO that closes once.
THEOREM FifoImplemented == Spec => ImplementsFifo
<1>1. Init => Fifo!Init
  BY InvInit DEF Init, Fifo!Init
<1>2. Inv /\ [Next]_vars => [Fifo!Next]_Fifo!vars
  BY InvStep
<1> QED BY <1>1, <1>2, InvAlways, PTL DEF Spec, ImplementsFifo, Fifo!Spec

-------------------------------------------------------------------------------
\* How many producers have been woken is a number, and one more or one less when
\* one of them is.
LEMMA WokenCount ==
    ASSUME TypeOK
    PROVE  /\ Cardinality(Woken) \in Nat
           /\ \A p \in Producers :
                 /\ Cardinality(Woken \cup {p})
                      = IF p \in Woken THEN Cardinality(Woken) ELSE Cardinality(Woken) + 1
                 /\ Cardinality(Woken \ {p}) \in Nat
                 /\ Cardinality(Woken \ {p})
                      = IF p \in Woken THEN Cardinality(Woken) - 1 ELSE Cardinality(Woken)
<1>1. Woken \in SUBSET Producers
  BY DEF Woken
<1>2. IsFiniteSet(Woken)
  BY <1>1, FiniteProducers, FS_Subset
<1> HIDE DEF Woken
<1>3. \A p : IsFiniteSet(Woken \ {p})
  BY <1>2, FS_RemoveElement
<1> QED BY <1>2, <1>3, FS_CardinalityType, FS_AddElement, FS_RemoveElement

\* What becomes of the sleepers and the woken when one producer changes places.
LEMMA PlaceChange ==
    ASSUME TypeOK, NEW p \in Producers, NEW to \in {"idle", "asleep", "woken"},
           pc' = [pc EXCEPT ![p] = to]
    PROVE  /\ Asleep' = IF to = "asleep" THEN Asleep \cup {p} ELSE Asleep \ {p}
           /\ Woken' = IF to = "woken" THEN Woken \cup {p} ELSE Woken \ {p}
BY DEF TypeOK, Asleep, Woken

\* push, push_wait and the way back from cond_wait: a record takes the room it
\* finds, by one that was woken or by one that barges in while others are woken;
\* who goes to sleep finds none.
LEMMA StrandedProducer ==
    ASSUME TypeOK, NoStrandedWaiter, NEW p \in Producers,
           Push(p) \/ PushWait(p) \/ Resume(p) \/ SpuriousWakeup(p)
    PROVE  NoStrandedWaiter'
<1> USE CompletionQueueAssumption
<1>0. Capacity \in Nat /\ count \in Nat /\ count <= Capacity
      /\ pc[p] \in {"idle", "asleep", "woken"}
  BY DEF TypeOK
<1>1. /\ Cardinality(Woken) \in Nat
      /\ Cardinality(Woken \cup {p})
           = IF p \in Woken THEN Cardinality(Woken) ELSE Cardinality(Woken) + 1
      /\ Cardinality(Woken \ {p}) \in Nat
      /\ Cardinality(Woken \ {p})
           = IF p \in Woken THEN Cardinality(Woken) - 1 ELSE Cardinality(Woken)
  BY WokenCount
<1>2. (p \in Asleep <=> pc[p] = "asleep") /\ (p \in Woken <=> pc[p] = "woken")
  BY DEF Asleep, Woken
<1>3. /\ closed => Asleep = {}
      /\ ~failed /\ Asleep # {} => Capacity - count <= Cardinality(Woken)
  BY DEF NoStrandedWaiter
<1>4. CASE SpuriousWakeup(p)
  <2>1. /\ pc[p] = "asleep" /\ pc' = [pc EXCEPT ![p] = "woken"]
        /\ UNCHANGED <<count, closed, failed>>
    BY <1>4 DEF SpuriousWakeup, ring
  <2>2. Asleep' = Asleep \ {p} /\ Woken' = Woken \cup {p}
    BY <2>1, PlaceChange
  <2> QED BY <1>0, <1>1, <1>2, <1>3, <2>1, <2>2 DEF NoStrandedWaiter
<1>5. CASE Push(p) \/ PushWait(p) \/ Resume(p)
  <2>1. closed' = closed /\ pc[p] \in {"idle", "woken"}
    BY <1>5 DEF Push, PushWait, Resume, WaitOrStore
  <2>2. CASE Refuse(p) /\ (closed \/ (count = Capacity /\ pc[p] = "idle"))
    <3>1. pc' = [pc EXCEPT ![p] = "idle"] /\ UNCHANGED <<count, failed>>
      BY <2>2 DEF Refuse, Return, ring
    <3>2. Asleep' = Asleep \ {p} /\ Woken' = Woken \ {p}
      BY <3>1, PlaceChange
    <3> QED BY <1>0, <1>1, <1>2, <1>3, <2>1, <2>2, <3>1, <3>2 DEF NoStrandedWaiter
  <2>3. CASE ~closed /\ count # Capacity /\ Store(p)
    <3>1. /\ pc' = [pc EXCEPT ![p] = "idle"]
          /\ (count' = count + 1 /\ failed' = failed) \/ failed' = TRUE
      BY <2>3 DEF Store, Return
    <3>2. Asleep' = Asleep \ {p} /\ Woken' = Woken \ {p}
      BY <3>1, PlaceChange
    <3> QED BY <1>0, <1>1, <1>2, <1>3, <2>1, <2>3, <3>1, <3>2 DEF NoStrandedWaiter
  <2>4. CASE /\ ~closed /\ count = Capacity /\ pc' = [pc EXCEPT ![p] = "asleep"]
             /\ UNCHANGED <<ring, failed>>
    <3>1. Woken' = Woken \ {p} /\ count' = count
      BY <2>4, PlaceChange DEF ring
    <3> QED BY <1>0, <1>1, <2>1, <2>4, <3>1 DEF NoStrandedWaiter
  <2> QED BY <1>5, <2>2, <2>3, <2>4 DEF Push, PushWait, Resume, WaitOrStore
<1> QED BY <1>4, <1>5

\* The event loop and close: pop hands the room it makes to a sleeper, and the
\* broadcast leaves no sleeper.
LEMMA StrandedLoop ==
    ASSUME TypeOK, NoStrandedWaiter, LoopStep \/ Leave \/ Close
    PROVE  NoStrandedWaiter'
<1> USE CompletionQueueAssumption
<1>0. Capacity \in Nat /\ count \in Nat /\ count <= Capacity
  BY DEF TypeOK
<1>1. CASE Pop
  <2>1. count' = count - 1 /\ UNCHANGED <<closed, failed>>
    BY <1>1 DEF Pop
  <2>2. CASE Asleep = {} /\ UNCHANGED pc
    <3>1. Asleep' = {}
      BY <2>2 DEF Asleep
    <3> QED BY <3>1 DEF NoStrandedWaiter
  <2>3. ASSUME NEW p \in Asleep, pc' = [pc EXCEPT ![p] = "woken"] PROVE NoStrandedWaiter'
    <3>1. p \in Producers /\ p \notin Woken
      BY <2>3 DEF Asleep, Woken
    <3>2. Asleep' = Asleep \ {p} /\ Woken' = Woken \cup {p}
      BY <2>3, <3>1, PlaceChange
    <3>3. Cardinality(Woken) \in Nat /\ Cardinality(Woken \cup {p}) = Cardinality(Woken) + 1
      BY <3>1, WokenCount
    <3> QED BY <1>0, <2>1, <2>3, <3>2, <3>3 DEF NoStrandedWaiter
  <2> QED BY <1>1, <2>2, <2>3 DEF Pop
<1>2. CASE PopEmpty \/ Wake \/ DrainRead \/ DrainDone \/ Leave
  <2>1. UNCHANGED <<count, closed, pc, failed>>
    BY <1>2 DEF PopEmpty, Wake, DrainRead, DrainDone, Leave, ring
  <2> QED BY <2>1 DEF NoStrandedWaiter, Asleep, Woken
<1>3. CASE Close
  <2>1. Asleep' = {}
    BY <1>3 DEF Close, Asleep, TypeOK
  <2> QED BY <2>1 DEF NoStrandedWaiter
<1> QED BY <1>1, <1>2, <1>3 DEF LoopStep

\* A producer sleeps in ck_completion_queue_push_wait only while the queue is full
\* or as many producers as there are free cells have been woken and not run yet,
\* and none on a closed queue: a signal per pop and a broadcast at close are
\* enough, whoever barges in and however often cond_wait returns by itself.
THEOREM NobodyStranded == Spec => []NoStrandedWaiter
<1>1. Init => NoStrandedWaiter
  <2> SUFFICES ASSUME Init PROVE Asleep = {}
      BY DEF NoStrandedWaiter
  <2> QED BY DEF Init, Asleep
<1>2. ASSUME TypeOK, NoStrandedWaiter, [Next]_vars PROVE NoStrandedWaiter'
  <2>1. CASE UNCHANGED vars
    BY <1>2, <2>1 DEF vars, NoStrandedWaiter, Asleep, Woken
  <2> QED BY <1>2, <2>1, StrandedProducer, StrandedLoop DEF Next
<1> QED BY <1>1, <1>2, TypeCorrect, PTL DEF Spec
===============================================================================

--------------------------- MODULE CompletionQueue ----------------------------
(***************************************************************************)
(* The bounded completion queue (ck_completion_queue.c) with its eventfd   *)
(* (ck_completion_notification.c), between the Java threads that publish   *)
(* completions and the event loop of main.c that takes them, until main    *)
(* leaves the loop and closes the queue.                                   *)
(*                                                                         *)
(* A call runs under the queue's mutex, so it is one step, except that     *)
(* push_wait gives the mutex up while it sleeps on not_full.  The eventfd  *)
(* is drained without the mutex: every read of it is a step.               *)
(***************************************************************************)
EXTENDS Integers, Sequences, FiniteSets

CONSTANTS
    Capacity,       \* CK_COMPLETION_QUEUE_CAPACITY
    Producers,      \* threads that publish completions
    MaxRecords,     \* bound: how many completions one producer publishes
    NotifyMax,      \* the largest value the eventfd counts to
    SignalMayFail,  \* may write(2) on the eventfd fail with another errno than EAGAIN
    Expected,       \* how many completions main's loop counts before it leaves
    LoopMayFail     \* may main's wait, its drain or its handling of a completion fail

ASSUME CompletionQueueAssumption ==
    /\ Capacity \in Nat \ {0}
    /\ MaxRecords \in Nat
    /\ NotifyMax \in Nat \ {0}
    /\ SignalMayFail \in BOOLEAN
    /\ Expected \in Nat
    /\ LoopMayFail \in BOOLEAN

ASSUME FiniteProducers == IsFiniteSet(Producers)

VARIABLES
    entries,        \* the ring
    head, tail, count,
    closed,
    notify,         \* the eventfd's counter
    pc,             \* per producer: "idle", "asleep" in cond_wait, "woken"
    sent,           \* per producer: how many completions it has tried to publish
    loop,           \* the event loop: "wait", "drain", "poll", "left"
    accepted,       \* history: the records push and push_wait returned 0 for
    delivered,      \* history: the records pop returned
    failed          \* history: has a write on the eventfd failed

vars == <<entries, head, tail, count, closed, notify, pc, sent, loop, accepted,
          delivered, failed>>
ring == <<entries, head, tail, count>>

Records == [producer : Producers, number : 0 .. MaxRecords]
NoRecord == [producer |-> "none", number |-> 0]

\* ck_completion_queue_init
Init ==
    /\ entries = [i \in 0 .. Capacity - 1 |-> NoRecord]
    /\ head = 0 /\ tail = 0 /\ count = 0
    /\ closed = FALSE
    /\ notify = 0
    /\ pc = [p \in Producers |-> "idle"]
    /\ sent = [p \in Producers |-> 0]
    /\ loop = "wait"
    /\ accepted = <<>>
    /\ delivered = <<>>
    /\ failed = FALSE

-------------------------------------------------------------------------------
\* ck_completion_notification_signal returns 0: EAGAIN means the counter is at
\* its limit, and the descriptor is readable already.
Signal == notify' = IF notify < NotifyMax THEN notify + 1 ELSE notify

\* The call of p returns.
Return(p) ==
    /\ pc' = [pc EXCEPT ![p] = "idle"]
    /\ sent' = [sent EXCEPT ![p] = @ + 1]

\* A slip: a failed signal takes back the count and not the tail.
StoreTailKept(p) ==
    LET record == [producer |-> p, number |-> sent[p]]
    IN  /\ entries' = [entries EXCEPT ![tail] = record]
        /\ tail' = (tail + 1) % Capacity
        /\ \/ /\ count' = count + 1
              /\ accepted' = Append(accepted, record)
              /\ Signal
              /\ UNCHANGED failed
           \/ /\ SignalMayFail
              /\ failed' = TRUE
              /\ UNCHANGED <<count, accepted, notify>>
        /\ Return(p)
        /\ UNCHANGED head

\* The record goes in and the event loop is signalled; when the signal fails
\* the record is taken back.
Store(p) ==
    LET record == [producer |-> p, number |-> sent[p]]
    IN  /\ entries' = [entries EXCEPT ![tail] = record]
        /\ \/ /\ tail' = (tail + 1) % Capacity
              /\ count' = count + 1
              /\ accepted' = Append(accepted, record)
              /\ Signal
              /\ UNCHANGED failed
           \/ /\ SignalMayFail
              /\ failed' = TRUE
              /\ UNCHANGED <<tail, count, accepted, notify>>
        /\ Return(p)
        /\ UNCHANGED head

\* A call that returns 1 (full) or 2 (closed) leaves the queue alone.
Refuse(p) ==
    /\ Return(p)
    /\ UNCHANGED <<ring, notify, accepted, failed>>

\* A slip: a closed queue still takes records.
PushClosed(p) ==
    /\ pc[p] = "idle"
    /\ sent[p] < MaxRecords
    /\ \/ count = Capacity /\ Refuse(p)
       \/ count # Capacity /\ Store(p)
    /\ UNCHANGED <<closed, loop, delivered>>

\* ck_completion_queue_push
Push(p) ==
    /\ pc[p] = "idle"
    /\ sent[p] < MaxRecords
    /\ \/ (closed \/ count = Capacity) /\ Refuse(p)
       \/ ~closed /\ count # Capacity /\ Store(p)
    /\ UNCHANGED <<closed, loop, delivered>>

\* The body of ck_completion_queue_push_wait, from the test of its loop.
WaitOrStore(p) ==
    /\ \/ closed /\ Refuse(p)
       \/ /\ ~closed /\ count = Capacity
          /\ pc' = [pc EXCEPT ![p] = "asleep"]
          /\ UNCHANGED <<ring, notify, sent, accepted, failed>>
       \/ ~closed /\ count # Capacity /\ Store(p)
    /\ UNCHANGED <<closed, loop, delivered>>

\* ck_completion_queue_push_wait, called by ck_native_publish_completion ...
PushWait(p) ==
    /\ pc[p] = "idle"
    /\ sent[p] < MaxRecords
    /\ WaitOrStore(p)

\* ... and its return from pthread_cond_wait with the mutex.
Resume(p) ==
    /\ pc[p] = "woken"
    /\ WaitOrStore(p)

\* pthread_cond_wait may return without a signal.
SpuriousWakeup(p) ==
    /\ pc[p] = "asleep"
    /\ pc' = [pc EXCEPT ![p] = "woken"]
    /\ UNCHANGED <<ring, closed, notify, sent, loop, accepted, delivered, failed>>

Asleep == {p \in Producers : pc[p] = "asleep"}
Woken == {p \in Producers : pc[p] = "woken"}

\* A slip: nobody is told that there is room.
PopSilent ==
    /\ loop = "poll"
    /\ count > 0
    /\ delivered' = Append(delivered, entries[head])
    /\ head' = (head + 1) % Capacity
    /\ count' = count - 1
    /\ UNCHANGED <<entries, tail, closed, notify, pc, sent, loop, accepted, failed>>

\* A slip: the loop takes one record per wakeup.
PopOne ==
    /\ loop = "poll"
    /\ count > 0
    /\ delivered' = Append(delivered, entries[head])
    /\ head' = (head + 1) % Capacity
    /\ count' = count - 1
    /\ \/ Asleep = {} /\ UNCHANGED pc
       \/ \E p \in Asleep : pc' = [pc EXCEPT ![p] = "woken"]
    /\ loop' = "wait"
    /\ UNCHANGED <<entries, tail, closed, notify, sent, accepted, failed>>

\* ck_completion_queue_pop with a record, in the loop of main: take it and
\* signal not_full, which wakes one sleeper if there is one.
Pop ==
    /\ loop = "poll"
    /\ count > 0
    /\ delivered' = Append(delivered, entries[head])
    /\ head' = (head + 1) % Capacity
    /\ count' = count - 1
    /\ \/ Asleep = {} /\ UNCHANGED pc
       \/ \E p \in Asleep : pc' = [pc EXCEPT ![p] = "woken"]
    /\ UNCHANGED <<entries, tail, closed, notify, sent, loop, accepted, failed>>

\* ck_completion_queue_pop of an empty queue ends the round.
PopEmpty ==
    /\ loop = "poll"
    /\ count = 0
    /\ loop' = "wait"
    /\ UNCHANGED <<ring, closed, notify, pc, sent, accepted, delivered, failed>>

\* ck_event_loop_wait returns: the eventfd is readable.
Wake ==
    /\ loop = "wait"
    /\ notify > 0
    /\ loop' = "drain"
    /\ UNCHANGED <<ring, closed, notify, pc, sent, accepted, delivered, failed>>

\* ck_completion_notification_drain reads until EAGAIN.
DrainRead ==
    /\ loop = "drain"
    /\ notify > 0
    /\ notify' = 0
    /\ UNCHANGED <<ring, closed, pc, sent, loop, accepted, delivered, failed>>

\* A slip: the eventfd is drained after the queue and not before it.
DrainDoneLast ==
    /\ loop = "drain"
    /\ notify = 0
    /\ loop' = "wait"
    /\ UNCHANGED <<ring, closed, notify, pc, sent, accepted, delivered, failed>>

DrainDone ==
    /\ loop = "drain"
    /\ notify = 0
    /\ loop' = "poll"
    /\ UNCHANGED <<ring, closed, notify, pc, sent, accepted, delivered, failed>>

\* main leaves its loop for good: at the loop's test, having counted the
\* completions it waits for (each was delivered, though one that settles no
\* request is not counted), or where a call of the loop fails.
Leave ==
    /\ \/ loop = "wait" /\ Len(delivered) >= Expected
       \/ loop \in {"wait", "drain", "poll"} /\ LoopMayFail
    /\ loop' = "left"
    /\ UNCHANGED <<ring, closed, notify, pc, sent, accepted, delivered, failed>>

\* ck_completion_queue_close, in the ck_runtime_shutdown that follows main's
\* loop: the broadcast wakes every sleeper.
Close ==
    /\ loop = "left"
    /\ ~closed
    /\ closed' = TRUE
    /\ pc' = [p \in Producers |-> IF pc[p] = "asleep" THEN "woken" ELSE pc[p]]
    /\ \/ Signal /\ UNCHANGED failed
       \/ SignalMayFail /\ failed' = TRUE /\ UNCHANGED notify
    /\ UNCHANGED <<ring, sent, loop, accepted, delivered>>

LoopStep == Pop \/ PopEmpty \/ Wake \/ DrainRead \/ DrainDone

Next ==
    \/ \E p \in Producers : Push(p) \/ PushWait(p) \/ Resume(p) \/ SpuriousWakeup(p)
    \/ LoopStep
    \/ Leave
    \/ Close

Spec == Init /\ [][Next]_vars

\* The event loop runs on until it leaves and a woken producer gets the mutex;
\* nobody is obliged to publish, to leave or to close.
Fairness == WF_vars(LoopStep) /\ \A p \in Producers : WF_vars(Resume(p))

FairSpec == Spec /\ Fairness

-------------------------------------------------------------------------------
TypeOK ==
    /\ entries \in [0 .. Capacity - 1 -> Records \cup {NoRecord}]
    /\ head \in 0 .. Capacity - 1
    /\ tail \in 0 .. Capacity - 1
    /\ count \in 0 .. Capacity
    /\ closed \in BOOLEAN
    /\ notify \in 0 .. NotifyMax
    /\ pc \in [Producers -> {"idle", "asleep", "woken"}]
    /\ sent \in [Producers -> 0 .. MaxRecords]
    /\ loop \in {"wait", "drain", "poll", "left"}
    /\ accepted \in Seq(Records)
    /\ delivered \in Seq(Records)
    /\ failed \in BOOLEAN

\* What the queue holds, oldest first.
Contents == [i \in 1 .. count |-> entries[(head + i - 1) % Capacity]]

Fifo == INSTANCE BoundedFifo WITH queue <- Contents

\* The ring and its counters, wrapped around and rolled back, are a bounded
\* first-in first-out queue that takes nothing once closed.
ImplementsFifo == Fifo!Spec

\* Every record a producer was told is published is delivered or still held, in
\* the order of publication: none is dropped, repeated or overtaken, also when
\* a failed signal took another one back.
NothingLost == accepted = delivered \o Contents

\* The event loop never goes to sleep on an eventfd that will not wake it while
\* a completion is queued, although it drains the eventfd without the mutex.
NoLostWakeup == loop = "wait" /\ count > 0 => notify > 0

\* A producer sleeps only while the queue is full or the room there is has been
\* promised to another one already woken; none sleeps on a closed queue.  (A
\* failed eventfd write is the exception: the producer that takes its record
\* back passes nobody the room.)
NoStrandedWaiter ==
    /\ closed => Asleep = {}
    /\ ~failed /\ Asleep # {} => Capacity - count <= Cardinality(Woken)

\* Every published completion reaches the event loop while main stays in it,
\* although notifications coalesce and several records wait for one of them.
CompletionsArrive ==
    \A n \in 1 .. MaxRecords * Cardinality(Producers) :
        (Len(accepted) >= n) ~> (Len(delivered) >= n \/ loop = "left")
===============================================================================

--------------------------- MODULE ConnectionProofs ---------------------------
(***************************************************************************)
(* Proofs, for any number of threads and any width of the cycle field,     *)
(* that the compare-and-swap protocol of Connection has one terminal       *)
(* owner, cleans up once and implements TerminalOutcome.                   *)
(***************************************************************************)
EXTENDS Connection, TLAPS

\* A remainder below the divisor is the number itself.
LEMMA SmallMod == ASSUME NEW m \in Nat \ {0}, NEW c \in 0 .. m - 1 PROVE c % m = c
OBVIOUS

\* A remainder lies below its modulus.
LEMMA ModRange == ASSUME NEW m \in Nat \ {0}, NEW c \in Nat PROVE c % m \in 0 .. m - 1
OBVIOUS

\* The three fields do not overlap: what ck_connection_pack stores, the unpack
\* functions return.
LEMMA PackUnpack ==
    ASSUME NEW state \in 0 .. 3, NEW event \in Events \cup {NoEvent},
           NEW cycle \in 0 .. CycleModulus - 1
    PROVE  /\ Pack(state, event, cycle) \in Nat
           /\ UnpackState(Pack(state, event, cycle)) = state
           /\ UnpackEvent(Pack(state, event, cycle)) = event
           /\ UnpackCycle(Pack(state, event, cycle)) = cycle
<1> DEFINE bits == EventBits(event)
           word == cycle * 65536 + bits * 256 + state
<1>1. bits \in 0 .. 255 /\ (bits = 255 <=> event = NoEvent) /\ (event # NoEvent => bits = event)
  BY DEF EventBits, Events, NoEvent, COMPLETE, SHUTDOWN
<1>2. CycleModulus \in Nat \ {0} /\ cycle \in Nat
  BY ConnectionAssumption
<1>3. Pack(state, event, cycle) = word
  <2>1. cycle % CycleModulus = cycle
    BY <1>2, SmallMod
  <2>2. state % 256 = state
    OBVIOUS
  <2> QED BY <2>1, <2>2 DEF Pack
<1> HIDE DEF bits
<1>4. word \in Nat /\ word % 256 = state /\ (word \div 256) % 256 = bits
      /\ word \div 65536 = cycle
  <2>1. word \in Nat /\ word % 256 = state
    BY <1>1, <1>2
  <2>2. word \div 256 = cycle * 256 + bits
    BY <1>1, <1>2
  <2>3. (cycle * 256 + bits) % 256 = bits
    BY <1>1, <1>2
  <2>4. word \div 65536 = cycle
    BY <1>1, <1>2
  <2> QED BY <2>1, <2>2, <2>3, <2>4
<1> HIDE DEF word
<1>5. UnpackEvent(word) = event
  BY <1>1, <1>4 DEF UnpackEvent
<1>6. UnpackCycle(word) = cycle
  BY <1>2, <1>4, SmallMod DEF UnpackCycle
<1> QED BY <1>3, <1>4, <1>5, <1>6 DEF UnpackState

\* The cycle id unpacked from the word fits the modulus it was packed with.
LEMMA CycleRange == ASSUME NEW word \in Nat PROVE UnpackCycle(word) \in 0 .. CycleModulus - 1
<1>1. word \div 65536 \in Nat
  OBVIOUS
<1> QED BY <1>1, ModRange, ConnectionAssumption DEF UnpackCycle

-------------------------------------------------------------------------------
\* The word carries an event exactly when it is terminal.
WordOK ==
    /\ State \in 0 .. 3
    /\ State \in {OPEN, ASYNC_WAIT} => Event = NoEvent
    /\ State \in {CLOSING, CLOSED} => Event \in Events

\* A loaded word is never ahead of the connection, and once it is terminal the
\* connection has the same event.
LoadedOK ==
    \A t \in Threads : pc[t] = "terminal" =>
        /\ request[t] \in Events
        /\ UnpackState(current[t]) \in {CLOSING, CLOSED} =>
              /\ State \in {CLOSING, CLOSED}
              /\ UnpackEvent(current[t]) = Event

\* The thread in the cleanup section has everything still to release.
CleanupOwner ==
    \A t \in Threads :
        /\ pc[t] \in {"cleanup", "free"} => State = CLOSED /\ frees = 0
        /\ pc[t] = "cleanup" => fdCloses = 0

\* Only a terminal word refuses a caller.
RefusedAfterwards ==
    \A t \in Threads : reply[t] \in {"ALREADY_SAME", "ALREADY_DIFFERENT"} =>
        /\ pc[t] = "idle" => State \in {CLOSING, CLOSED}
        /\ pc[t] # "free"

Inv ==
    /\ TypeOK
    /\ WordOK
    /\ OneTerminalOwner
    /\ LoadedOK
    /\ CleanupOnce
    /\ CleanupOwner
    /\ RefusedAfterwards
    /\ TruthfulReply

\* The three swaps, as the unpacked word sees them.
LEMMA StartWord ==
    ASSUME TypeOK, NEW t \in Threads, NEW cycle \in Cycles, ValidCycle(cycle),
           lifecycle = Pack(OPEN, NoEvent, 0),
           lifecycle' = Pack(ASYNC_WAIT, NoEvent, cycle)
    PROVE  /\ State = OPEN /\ Event = NoEvent /\ UnpackCycle(lifecycle) = 0
           /\ State' = ASYNC_WAIT /\ Event' = NoEvent /\ lifecycle' \in Nat
<1>1. cycle \in 0 .. CycleModulus - 1 /\ 0 \in 0 .. CycleModulus - 1
  BY ConnectionAssumption DEF ValidCycle
<1>2. OPEN \in 0 .. 3 /\ ASYNC_WAIT \in 0 .. 3
  BY DEF OPEN, ASYNC_WAIT
<1> QED BY <1>1, <1>2, PackUnpack DEF State, Event

\* What a successful compare-and-swap of try_terminal makes of the word.
LEMMA ClaimWord ==
    ASSUME TypeOK, WordOK, LoadedOK, NEW t \in Threads, TryTerminalClaim(t)
    PROVE  /\ State \in {OPEN, ASYNC_WAIT} /\ request[t] \in Events
           /\ State' = CLOSING /\ Event' = request[t] /\ lifecycle' \in Nat
           /\ UnpackCycle(lifecycle') = UnpackCycle(lifecycle)
<1>1. UnpackCycle(lifecycle) \in 0 .. CycleModulus - 1
  BY CycleRange DEF TypeOK
<1>2. CLOSING \in 0 .. 3 /\ request[t] \in Events
  BY DEF CLOSING, TryTerminalClaim, LoadedOK
<1>3. /\ lifecycle' = Pack(CLOSING, request[t], UnpackCycle(lifecycle))
      /\ State \in {OPEN, ASYNC_WAIT}
  BY DEF TryTerminalClaim, State
<1> QED BY <1>1, <1>2, <1>3, PackUnpack DEF State, Event

\* What a successful compare-and-swap of close makes of the word.
LEMMA CloseWord ==
    ASSUME TypeOK, WordOK, NEW t \in Threads, CloseSwap(t)
    PROVE  /\ State = CLOSING /\ Event \in Events
           /\ State' = CLOSED /\ Event' = Event /\ lifecycle' \in Nat
           /\ UnpackCycle(lifecycle') = UnpackCycle(lifecycle)
<1>1. UnpackCycle(lifecycle) \in 0 .. CycleModulus - 1
  BY CycleRange DEF TypeOK
<1>2. State = CLOSING /\ lifecycle' = Pack(CLOSED, Event, UnpackCycle(lifecycle))
  BY DEF CloseSwap, MayClose, State, Event
<1>3. CLOSED \in 0 .. 3 /\ Event \in Events
  BY <1>2 DEF WordOK, CLOSED
<1> QED BY <1>1, <1>2, <1>3, PackUnpack DEF State, Event

-------------------------------------------------------------------------------
\* A freshly initialised connection satisfies the inductive invariant.
LEMMA InvInit == Init => Inv
<1> SUFFICES ASSUME Init PROVE Inv
    OBVIOUS
<1>1. /\ lifecycle \in Nat /\ State = OPEN /\ Event = NoEvent
  <2>1. OPEN \in 0 .. 3 /\ 0 \in 0 .. CycleModulus - 1
    BY ConnectionAssumption DEF OPEN
  <2> QED BY <2>1, PackUnpack DEF Init, State, Event
<1>2. TypeOK
  BY <1>1 DEF Init, TypeOK, Replies
<1> QED
  BY <1>1, <1>2 DEF Init, Inv, WordOK, OneTerminalOwner, LoadedOK, CleanupOnce,
     CleanupOwner, RefusedAfterwards, TruthfulReply, OPEN, ASYNC_WAIT, CLOSING, CLOSED

\* A step that leaves the word alone leaves its fields alone.
LEMMA SameWord == ASSUME UNCHANGED lifecycle PROVE State' = State /\ Event' = Event
BY DEF State, Event

\* start_async_cycle can only be the first transition.
LEMMA StartStep ==
    ASSUME Inv, NEW t \in Threads, NEW cycle \in Cycles, StartAsyncCycle(t, cycle)
    PROVE  Inv'
<1> USE DEF Inv, StartAsyncCycle, Return, OPEN, ASYNC_WAIT, CLOSING, CLOSED
<1>1. CASE lifecycle = Pack(OPEN, NoEvent, 0) /\ lifecycle' = Pack(ASYNC_WAIT, NoEvent, cycle)
           /\ Return(t, "STARTED")
  <2>1. /\ State = OPEN /\ Event = NoEvent
        /\ State' = ASYNC_WAIT /\ Event' = NoEvent /\ lifecycle' \in Nat
    BY <1>1, StartWord
  <2>2. TypeOK'
    BY <1>1, <2>1 DEF TypeOK, Replies
  <2>3. (WordOK /\ OneTerminalOwner /\ CleanupOnce /\ CleanupOwner)'
    BY <1>1, <2>1 DEF TypeOK, WordOK, OneTerminalOwner, CleanupOnce, CleanupOwner
  <2>4. (LoadedOK /\ RefusedAfterwards /\ TruthfulReply)'
    BY <1>1, <2>1 DEF TypeOK, LoadedOK, RefusedAfterwards, TruthfulReply
  <2> QED BY <2>2, <2>3, <2>4
<1>2. CASE UNCHANGED lifecycle /\ Return(t, "NOT_STARTED")
  <2>1. State' = State /\ Event' = Event
    BY <1>2, SameWord
  <2>2. TypeOK'
    BY <1>2 DEF TypeOK, Replies
  <2>3. (WordOK /\ OneTerminalOwner /\ CleanupOnce /\ CleanupOwner)'
    BY <1>2, <2>1 DEF TypeOK, WordOK, OneTerminalOwner, CleanupOnce, CleanupOwner
  <2>4. (LoadedOK /\ RefusedAfterwards /\ TruthfulReply)'
    BY <1>2, <2>1 DEF TypeOK, LoadedOK, RefusedAfterwards, TruthfulReply
  <2> QED BY <2>2, <2>3, <2>4
<1> QED BY <1>1, <1>2

\* A load, a refusal and a failed swap change only the caller's locals.
LEMMA LocalStep ==
    ASSUME Inv, NEW t \in Threads,
           \/ \E event \in Reported : TryTerminalLoad(t, event)
           \/ TryTerminalLost(t) \/ TryTerminalRetry(t)
           \/ CloseLoad(t) \/ CloseNotOwner(t) \/ CloseRetry(t)
    PROVE  Inv'
<1> USE DEF Inv
<1>1. UNCHANGED <<lifecycle, socketFd, heapLive, claims, fdCloses, frees>>
  BY DEF TryTerminalLoad, TryTerminalLost, TryTerminalRetry, CloseLoad, CloseNotOwner,
     CloseRetry
<1>2. State' = State /\ Event' = Event
  BY <1>1, SameWord
<1>3. WordOK' /\ OneTerminalOwner'
  BY <1>1, <1>2 DEF WordOK, OneTerminalOwner
<1>4. pc'[t] \notin {"cleanup", "free"} /\ \A u \in Threads : u # t => pc'[u] = pc[u]
  BY DEF TryTerminalLoad, TryTerminalLost, TryTerminalRetry, CloseLoad, CloseNotOwner,
     CloseRetry, Return, TypeOK
<1>5. CleanupOnce' /\ CleanupOwner'
  BY <1>1, <1>2, <1>4 DEF CleanupOnce, CleanupOwner
<1>6. ASSUME NEW event \in Reported, TryTerminalLoad(t, event)
      PROVE  (TypeOK /\ LoadedOK /\ RefusedAfterwards /\ TruthfulReply)'
  <2>1. event \in Events
    BY ConnectionAssumption DEF Events, COMPLETE, SHUTDOWN
  <2> QED BY <1>2, <1>6, <2>1 DEF TryTerminalLoad, TypeOK, LoadedOK, RefusedAfterwards,
             TruthfulReply, State, Event
<1>7. CASE TryTerminalLost(t)
  <2>1. State \in {CLOSING, CLOSED} /\ UnpackEvent(current[t]) = Event /\ Event \in Events
    BY <1>7 DEF TryTerminalLost, LoadedOK, WordOK
  <2>2. Event # NoEvent
    BY <2>1 DEF Events, NoEvent, COMPLETE, SHUTDOWN
  <2> DEFINE result == IF Event = request[t] THEN "ALREADY_SAME" ELSE "ALREADY_DIFFERENT"
  <2>3. /\ reply' = [reply EXCEPT ![t] = result] /\ pc' = [pc EXCEPT ![t] = "idle"]
        /\ current' = [current EXCEPT ![t] = 0] /\ request' = request
    BY <1>7, <2>1 DEF TryTerminalLost, Return
  <2>4. TypeOK'
    BY <1>1, <2>3 DEF TypeOK, Replies
  <2>5. LoadedOK' /\ RefusedAfterwards'
    BY <1>2, <2>1, <2>3 DEF TypeOK, LoadedOK, RefusedAfterwards
  <2>6. TruthfulReply'
    BY <1>2, <2>2, <2>3 DEF TypeOK, TruthfulReply
  <2> QED BY <1>3, <1>5, <2>4, <2>5, <2>6
<1>8. CASE TryTerminalRetry(t)
  BY <1>2, <1>3, <1>5, <1>8 DEF TryTerminalRetry, TypeOK, LoadedOK, RefusedAfterwards, TruthfulReply,
     State, Event
<1>9. CASE CloseLoad(t) \/ CloseRetry(t)
  BY <1>2, <1>3, <1>5, <1>9 DEF CloseLoad, CloseRetry, TypeOK, LoadedOK, RefusedAfterwards,
     TruthfulReply
<1>10. CASE CloseNotOwner(t)
  BY <1>2, <1>3, <1>5, <1>10 DEF CloseNotOwner, Return, TypeOK, Replies, LoadedOK, RefusedAfterwards,
     TruthfulReply
<1> QED BY <1>3, <1>5, <1>6, <1>7, <1>8, <1>9, <1>10

\* The winning swap publishes the winner's event; nobody had claimed before.
LEMMA ClaimStep == ASSUME Inv, NEW t \in Threads, TryTerminalClaim(t) PROVE Inv'
<1> USE DEF Inv
<1>1. /\ State \in {OPEN, ASYNC_WAIT} /\ request[t] \in Events
      /\ State' = CLOSING /\ Event' = request[t] /\ lifecycle' \in Nat
  BY ClaimWord
<1>2. /\ UNCHANGED <<socketFd, heapLive, request, fdCloses, frees>>
      /\ claims' = Append(claims, request[t])
      /\ pc' = [pc EXCEPT ![t] = "idle"] /\ current' = [current EXCEPT ![t] = 0]
      /\ reply' = [reply EXCEPT ![t] = "CLAIMED"]
  BY DEF TryTerminalClaim, Return
<1>3. claims' = <<request[t]>>
  <2>1. claims = <<>>
    BY <1>1 DEF OneTerminalOwner
  <2> QED BY <1>2, <2>1
<1> USE DEF OPEN, ASYNC_WAIT, CLOSING, CLOSED
<1>4. TypeOK'
  BY <1>1, <1>2, <1>3 DEF TypeOK, Replies
<1>5. WordOK' /\ OneTerminalOwner'
  BY <1>1, <1>3 DEF WordOK, OneTerminalOwner
<1>6. CleanupOnce' /\ CleanupOwner'
  BY <1>1, <1>2 DEF TypeOK, CleanupOnce, CleanupOwner
<1>7. LoadedOK'
  BY <1>1, <1>2 DEF TypeOK, LoadedOK
<1>8. RefusedAfterwards' /\ TruthfulReply'
  <2>1. \A u \in Threads : pc[u] = "idle" =>
            reply[u] \notin {"ALREADY_SAME", "ALREADY_DIFFERENT"}
    BY <1>1 DEF RefusedAfterwards
  <2>2. \A u \in Threads : u # t => pc'[u] = pc[u] /\ reply'[u] = reply[u]
    BY <1>2 DEF TypeOK
  <2>3. pc'[t] = "idle" /\ reply'[t] = "CLAIMED"
    BY <1>2 DEF TypeOK
  <2> QED BY <1>1, <2>1, <2>2, <2>3 DEF RefusedAfterwards, TruthfulReply
<1> QED BY <1>4, <1>5, <1>6, <1>7, <1>8

\* The swap to CLOSED lets one thread into the cleanup section.
LEMMA CloseStep == ASSUME Inv, NEW t \in Threads, CloseSwap(t) PROVE Inv'
<1> USE DEF Inv
<1>1. /\ State = CLOSING /\ Event \in Events
      /\ State' = CLOSED /\ Event' = Event /\ lifecycle' \in Nat
  BY CloseWord
<1>2. /\ UNCHANGED <<socketFd, heapLive, request, reply, claims, fdCloses, frees>>
      /\ pc' = [pc EXCEPT ![t] = "cleanup"] /\ current' = [current EXCEPT ![t] = 0]
  BY DEF CloseSwap
<1> USE DEF OPEN, ASYNC_WAIT, CLOSING, CLOSED
<1>3. TypeOK' /\ WordOK' /\ OneTerminalOwner'
  BY <1>1, <1>2 DEF TypeOK, WordOK, OneTerminalOwner
<1>4. CleanupOnce' /\ CleanupOwner'
  BY <1>1, <1>2 DEF TypeOK, CleanupOnce, CleanupOwner
<1>5. LoadedOK'
  BY <1>1, <1>2 DEF TypeOK, LoadedOK
<1>6. RefusedAfterwards' /\ TruthfulReply'
  BY <1>1, <1>2 DEF TypeOK, RefusedAfterwards, TruthfulReply
<1> QED BY <1>3, <1>4, <1>5, <1>6

\* The cleanup section releases the descriptor, then the heap.
LEMMA CleanupStep ==
    ASSUME Inv, NEW t \in Threads, CloseDescriptor(t) \/ FreeObjects(t) PROVE Inv'
<1> USE DEF Inv
<1>1. UNCHANGED <<lifecycle, current, request, claims>>
  BY DEF CloseDescriptor, FreeObjects
<1>2. State' = State /\ Event' = Event
  BY <1>1, SameWord
<1>3. WordOK' /\ OneTerminalOwner'
  BY <1>1, <1>2 DEF WordOK, OneTerminalOwner
<1>4. CASE CloseDescriptor(t)
  <2>1. PICK r \in {"CLOSED", "CLOSE_ERROR", "CLOSE_EINTR"} :
            reply' = [reply EXCEPT ![t] = r]
    BY <1>4 DEF CloseDescriptor
  <2>2. /\ pc[t] = "cleanup" /\ pc' = [pc EXCEPT ![t] = "free"] /\ socketFd' = NoFd
        /\ fdCloses' \in {fdCloses, fdCloses + 1} /\ heapLive' = heapLive /\ frees' = frees
    BY <1>4 DEF CloseDescriptor
  <2>3. TypeOK'
    BY <1>1, <2>1, <2>2 DEF TypeOK, Replies
  <2>4. CleanupOnce' /\ CleanupOwner'
    BY <1>2, <2>2 DEF TypeOK, CleanupOnce, CleanupOwner
  <2>5. (LoadedOK /\ RefusedAfterwards /\ TruthfulReply)'
    BY <1>1, <1>2, <2>1, <2>2 DEF TypeOK, LoadedOK, RefusedAfterwards, TruthfulReply
  <2> QED BY <1>3, <2>3, <2>4, <2>5
<1>5. CASE FreeObjects(t)
  <2>1. /\ pc[t] = "free" /\ pc' = [pc EXCEPT ![t] = "idle"]
        /\ heapLive' = FALSE /\ frees' = frees + 1
        /\ UNCHANGED <<socketFd, reply, fdCloses>>
    BY <1>5 DEF FreeObjects
  <2>2. TypeOK'
    <3>1. heapLive' \in BOOLEAN
      BY <2>1
    <3>2. pc' \in [Threads -> {"idle", "terminal", "close", "cleanup", "free"}]
      BY <2>1 DEF TypeOK
    <3> QED BY <1>1, <2>1, <3>1, <3>2 DEF TypeOK
  <2>3. CleanupOnce' /\ CleanupOwner'
    BY <1>2, <2>1 DEF TypeOK, CleanupOnce, CleanupOwner
  <2>4. (LoadedOK /\ RefusedAfterwards /\ TruthfulReply)'
    BY <1>1, <1>2, <2>1 DEF TypeOK, LoadedOK, RefusedAfterwards, TruthfulReply
  <2> QED BY <1>3, <2>2, <2>3, <2>4
<1> QED BY <1>4, <1>5

\* Every step of every thread preserves the inductive invariant.
LEMMA InvStep == Inv /\ [Next]_vars => Inv'
<1> SUFFICES ASSUME Inv, [Next]_vars PROVE Inv'
    OBVIOUS
<1>1. CASE UNCHANGED vars
  <2>1. State' = State /\ Event' = Event
    BY <1>1, SameWord DEF vars
  <2> QED BY <1>1, <2>1 DEF vars, Inv, TypeOK, WordOK, OneTerminalOwner, LoadedOK,
             CleanupOnce, CleanupOwner, RefusedAfterwards, TruthfulReply
<1>2. ASSUME NEW t \in Threads, Call(t) \/ Step(t) PROVE Inv'
  BY <1>2, StartStep, LocalStep, ClaimStep, CloseStep, CleanupStep DEF Call, Step
<1> QED BY <1>1, <1>2 DEF Next

\* The inductive invariant holds in every reachable state.
LEMMA InvAlways == Spec => []Inv
BY InvInit, InvStep, PTL DEF Spec

\* Every variable keeps its type.
THEOREM TypeCorrect == Spec => []TypeOK
BY InvAlways, PTL DEF Inv

\* At most one caller of ck_connection_try_terminal is told CLAIMED, and the
\* word carries its event, for any number of threads.
THEOREM TerminalOwnerUnique == Spec => []OneTerminalOwner
BY InvAlways, PTL DEF Inv

\* The descriptor and the heap objects are released at most once, by the thread
\* that moved the word to CLOSED.
THEOREM CleanupAtMostOnce == Spec => []CleanupOnce
BY InvAlways, PTL DEF Inv

\* ALREADY_SAME and ALREADY_DIFFERENT stay true after they were returned.
THEOREM RepliesTruthful == Spec => []TruthfulReply
BY InvAlways, PTL DEF Inv

-------------------------------------------------------------------------------
\* All that can happen to the word and the heap in one step.
Stays == UNCHANGED <<lifecycle, heapLive>>
Starts == /\ State = OPEN /\ State' = ASYNC_WAIT /\ Event' = Event
          /\ UnpackCycle(lifecycle) = 0 /\ UNCHANGED heapLive
Claims == /\ State \in {OPEN, ASYNC_WAIT} /\ State' = CLOSING /\ Event' \in Events
          /\ UnpackCycle(lifecycle') = UnpackCycle(lifecycle) /\ UNCHANGED heapLive
Closes == /\ State = CLOSING /\ State' = CLOSED /\ Event' = Event
          /\ UnpackCycle(lifecycle') = UnpackCycle(lifecycle) /\ UNCHANGED heapLive
Frees == State = CLOSED /\ UNCHANGED lifecycle /\ heapLive /\ ~heapLive'

\* Every step leaves the word alone or moves it in one of four ways.
LEMMA WordMoves ==
    ASSUME Inv, [Next]_vars PROVE Stays \/ Starts \/ Claims \/ Closes \/ Frees
<1>1. CASE UNCHANGED vars
  BY <1>1 DEF vars, Stays
<1>2. ASSUME NEW t \in Threads, NEW cycle \in Cycles, StartAsyncCycle(t, cycle)
      PROVE Starts \/ Stays
  BY <1>2, StartWord DEF Inv, StartAsyncCycle, Starts, Stays
<1>3. ASSUME NEW t \in Threads, TryTerminalClaim(t) PROVE Claims
  <2>1. UNCHANGED heapLive
    BY <1>3 DEF TryTerminalClaim
  <2> QED BY <1>3, <2>1, ClaimWord DEF Inv, Claims
<1>4. ASSUME NEW t \in Threads, CloseSwap(t) PROVE Closes
  <2>1. UNCHANGED heapLive
    BY <1>4 DEF CloseSwap
  <2> QED BY <1>4, <2>1, CloseWord DEF Inv, Closes
<1>5. ASSUME NEW t \in Threads, FreeObjects(t) PROVE Frees
  <2>1. State = CLOSED /\ frees = 0
    BY <1>5 DEF FreeObjects, Inv, CleanupOwner
  <2> QED BY <1>5, <2>1 DEF FreeObjects, Inv, CleanupOnce, Frees
<1>6. ASSUME NEW t \in Threads,
             \/ \E event \in Reported : TryTerminalLoad(t, event)
             \/ TryTerminalLost(t) \/ TryTerminalRetry(t) \/ CloseLoad(t)
             \/ CloseNotOwner(t) \/ CloseRetry(t) \/ CloseDescriptor(t)
      PROVE Stays
  BY <1>6 DEF TryTerminalLoad, TryTerminalLost, TryTerminalRetry, CloseLoad,
     CloseNotOwner, CloseRetry, CloseDescriptor, Stays
<1> QED BY <1>1, <1>2, <1>3, <1>4, <1>5, <1>6 DEF Next, Call, Step

\* The state never goes back and the cycle id survives the terminal swaps.
THEOREM WordMonotone == Spec => LifecycleMonotone
<1>1. ASSUME Inv, [Next]_vars
      PROVE  [/\ UnpackState(lifecycle') >= UnpackState(lifecycle)
              /\ UnpackCycle(lifecycle) # 0 =>
                    UnpackCycle(lifecycle') = UnpackCycle(lifecycle)]_lifecycle
  BY <1>1, WordMoves DEF Stays, Starts, Claims, Closes, Frees, State, OPEN, ASYNC_WAIT,
     CLOSING, CLOSED
<1> QED BY <1>1, InvAlways, PTL DEF Spec, LifecycleMonotone

\* The word, seen as phase and event, and the heap make the steps of
\* TerminalOutcome and no others.
THEOREM OutcomeImplemented == Spec => ImplementsOutcome
<1> USE DEF OPEN, ASYNC_WAIT, CLOSING, CLOSED
<1>1. Init => Outcome!Init
  <2> SUFFICES ASSUME Init PROVE Outcome!Init
      OBVIOUS
  <2>1. Inv /\ lifecycle = Pack(OPEN, NoEvent, 0) /\ heapLive = TRUE
    BY InvInit DEF Init
  <2>2. OPEN \in 0 .. 3 /\ 0 \in 0 .. CycleModulus - 1
    BY ConnectionAssumption
  <2>3. State = OPEN /\ Event = NoEvent
    BY <2>1, <2>2, PackUnpack, SMTT(40) DEF State, Event
  <2> QED BY <2>1, <2>3 DEF Outcome!Init, Outcome!NoEvent, NoEvent
<1>2. ASSUME Inv, [Next]_vars PROVE [Outcome!Next]_(Outcome!vars)
  <2>1. CASE Stays
    <3>1. State' = State /\ Event' = Event /\ heapLive' = heapLive
      BY <2>1, SameWord DEF Stays
    <3> QED BY <3>1 DEF Outcome!vars
  <2>2. CASE Starts
    BY <2>2 DEF Starts, Outcome!vars
  <2>3. CASE Claims
    <3>1. Outcome!Establish(Event')
      BY <2>3 DEF Claims, Outcome!Establish
    <3> QED BY <2>3, <3>1 DEF Claims, Outcome!Next
  <2>4. CASE Closes
    <3>1. Outcome!Close
      BY <2>4 DEF Closes, Outcome!Close
    <3> QED BY <3>1 DEF Outcome!Next
  <2>5. CASE Frees
    <3>1. State' = State /\ Event' = Event /\ heapLive /\ ~heapLive' /\ State = CLOSED
      BY <2>5, SameWord DEF Frees
    <3>2. Outcome!Reclaim
      BY <3>1 DEF Outcome!Reclaim
    <3> QED BY <3>2 DEF Outcome!Next
  <2> QED BY <1>2, WordMoves, <2>1, <2>2, <2>3, <2>4, <2>5
<1> QED BY <1>1, <1>2, InvAlways, PTL DEF Spec, ImplementsOutcome, Outcome!Spec
===============================================================================

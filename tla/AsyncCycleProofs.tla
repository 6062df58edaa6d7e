-------------------------- MODULE AsyncCycleProofs --------------------------
(***************************************************************************)
(* The asynchronous cycle for any number of Java threads and listeners.    *)
(***************************************************************************)
EXTENDS AsyncCycle, SequenceTheorems, TLAPS

Starting == {"bind", "publish"}
Publishing == {"sink", "fire", "complete"}
Ending == Publishing \cup {"invalidate"}
Terminating == Ending \cup {"gate", "publishState"}

Leaving == {"COMPLETING", "TIMING_OUT", "ERRORED"}
Over == {"COMPLETED", "RECYCLED"}

Pc(t) == thread[t].pc

Pcs == {"idle", "cycle", "bind", "publish", "gate", "publishState", "sink",
        "fire", "complete", "invalidate", "add"}
ThreadType == [Threads -> [pc : Pcs, event : Events \cup {NoEvent},
                           listener : Listeners \cup {NoListener}]]

(* The registry entry has an event once it is being closed. *)
NativeInv == native.event = NoEvent <=> native.state \in {"OPEN", "ASYNC_WAIT"}

(* Who terminates has an event and a context, who adds has a listener. *)
EventInv ==
    \A t \in Threads :
        /\ Pc(t) \in Terminating => thread[t].event \in Events /\ context
        /\ Pc(t) = "add" => thread[t].listener \in Listeners

(* At most one thread is past the second flag of startAsync, once. *)
StartInv ==
    /\ \A t, u \in Threads : Pc(t) \in Starting /\ Pc(u) \in Starting => t = u
    /\ \A t \in Threads : Pc(t) = "bind" => cycleStarted /\ ~context /\ binding = "none"
    /\ \A t \in Threads : Pc(t) = "publish" => cycleStarted /\ ~context /\ binding = "active"
    /\ context => cycleStarted /\ binding # "none"
    /\ binding # "none" => cycleStarted

(* At most one thread is past the state's swap, and what it has done so far. *)
PublisherInv ==
    /\ \A t, u \in Threads : Pc(t) \in Ending /\ Pc(u) \in Ending => t = u
    /\ \A t \in Threads : Pc(t) \in Publishing => state \in Leaving /\ binding = "active"
    /\ \A t \in Threads : Pc(t) = "invalidate" => state \in Over /\ binding = "active"
    /\ \A t \in Threads : Pc(t) = "sink" => sunk = <<>>
    /\ \A t \in Threads : Pc(t) \in {"fire", "complete"} => sunk = <<thread[t].event>>
    /\ \A t \in Threads : Pc(t) \in {"sink", "fire"} => ~listenerFired

(* What the state of the context says of the histories. *)
HistoryInv ==
    /\ state = "ACTIVE" => sunk = <<>> /\ ~listenerFired
    /\ state # "ACTIVE" /\ sunk = <<>> => \E t \in Threads : Pc(t) = "sink"
    /\ binding = "invalid" => state \in Over
    /\ ~listenerFired => \A l \in Listeners : heard[l] = <<>>
    /\ state \in Over => sunk # <<>>

(* asyncStarted is taken back with the outcome. *)
ModeInv ==
    sunk # <<>> => context /\ (asyncStarted => \E t \in Threads : Pc(t) = "cycle")

(* Who is past the gate reports what the registry has taken its event for. *)
GateInv ==
    \A t \in Threads :
        thread[t].pc \in {"publishState", "sink", "fire", "complete"} =>
            native.event = AsNative(thread[t].event)

Inv ==
    /\ TypeOK /\ NativeInv /\ EventInv /\ GateInv
    /\ StartInv /\ PublisherInv /\ HistoryInv /\ OneOutcome /\ ModeInv

-------------------------------------------------------------------------------
\* The five events of CkartaAsyncContext, and what the registry reads them as.
LEMMA EventFacts ==
    ASSUME NEW event \in Events
    PROVE  /\ Ordinal(event) \in DOMAIN JavaEvents
           /\ AsNative(event) \in Events /\ AsNative(event) # NoEvent
           /\ event # NoEvent
           /\ TerminalState(event) \in Leaving
<1>1. DOMAIN JavaEvents = 1 .. 5 /\ DOMAIN NativeEvents = 1 .. 5
  BY DEF JavaEvents, NativeEvents
<1>2. \E i \in DOMAIN JavaEvents : JavaEvents[i] = event
  BY DEF Events
<1>3. Ordinal(event) \in DOMAIN JavaEvents
  BY <1>2 DEF Ordinal
<1>4. \A i \in 1 .. 5 : NativeEvents[i] \in Events /\ NativeEvents[i] # NoEvent /\ JavaEvents[i] # NoEvent
  BY <1>1 DEF Events, NativeEvents, JavaEvents, NoEvent
<1>5. TerminalState(event) \in Leaving
  BY DEF TerminalState, Leaving
<1> QED BY <1>1, <1>2, <1>3, <1>4, <1>5 DEF AsNative

\* A number that means the same event on both sides means it for no other.
LEMMA NumberFacts ==
    ASSUME NEW event \in Events, event \in SameNumber \/ AsNative(event) \in SameNumber
    PROVE  AsNative(event) = event
<1>1. PICK i \in 1 .. 5 : Ordinal(event) = i /\ JavaEvents[i] = event
  <2>1. \E i \in DOMAIN JavaEvents : JavaEvents[i] = event
    BY DEF Events
  <2>2. DOMAIN JavaEvents = 1 .. 5
    BY DEF JavaEvents
  <2> QED BY <2>1, <2>2 DEF Ordinal
<1>2. i \in {1, 2, 3, 4, 5}
  BY <1>1
<1> QED BY <1>1, <1>2 DEF AsNative, JavaEvents, NativeEvents, SameNumber

\* A thread that goes on or returns stays within its type.
LEMMA ThreadMoves ==
    ASSUME TypeOK, NEW t \in Threads
    PROVE  /\ \A pc \in Pcs : Go(t, pc) => thread' \in ThreadType
           /\ Leave(t) => thread' \in ThreadType
<1>1. ASSUME NEW pc \in Pcs, Go(t, pc) PROVE thread' \in ThreadType
  BY <1>1, ZenonT(60) DEF TypeOK, Go, ThreadType, Pcs
<1>2. Idle \in [pc : Pcs, event : Events \cup {NoEvent}, listener : Listeners \cup {NoListener}]
  BY DEF Idle, Pcs
<1>3. ASSUME Leave(t) PROVE thread' \in ThreadType
  BY <1>2, <1>3 DEF TypeOK, Leave, ThreadType, Pcs
<1> QED BY <1>1, <1>3

\* The initial state satisfies the invariant.
LEMMA InvInit == Init => Inv
<1> SUFFICES ASSUME Init PROVE Inv
    OBVIOUS
<1>1. TypeOK
  <2>1. thread \in ThreadType
    BY DEF Init, Idle, ThreadType, Pcs
  <2>2. <<>> \in Seq(Events)
    OBVIOUS
  <2> QED BY <2>1, <2>2 DEF Init, TypeOK, ThreadType, Pcs
<1>2. \A t \in Threads : Pc(t) = "idle"
  BY DEF Init, Idle, Pc
<1>3. NativeInv /\ GateInv /\ EventInv
  BY <1>2 DEF Init, NativeInv, EventInv, GateInv, Terminating, Ending, Publishing, Pc
<1>4. StartInv /\ PublisherInv /\ ModeInv
  BY <1>2 DEF Init, StartInv, PublisherInv, ModeInv, Starting, Ending, Publishing
<1>5. HistoryInv /\ OneOutcome
  BY DEF Init, HistoryInv, OneOutcome, Over
<1> QED BY <1>1, <1>3, <1>4, <1>5 DEF Inv

\* asyncStarted is claimed.
LEMMA StartClaimInv ==
    ASSUME Inv, NEW t \in Threads, StartClaim(t)
    PROVE  Inv'
<1> USE DEF Inv, StartClaim, Pc, At, Go, Leave, Idle, adapter, core,
            Starting, Publishing, Ending, Terminating, Leaving, Over
<1>1. TypeOK'
  <2>1. thread' \in ThreadType
    BY ThreadMoves DEF Pcs
  <2>2. sunk' \in Seq(Events) /\ heard' \in [Listeners -> Seq(Events)]
    BY DEF TypeOK, EventInv
  <2> QED BY <2>1, <2>2, EventFacts DEF TypeOK, EventInv, ThreadType, Pcs
<1>2. NativeInv' /\ EventInv' /\ GateInv'
  BY EventFacts DEF TypeOK, NativeInv, EventInv, GateInv
<1>3. StartInv' /\ ModeInv'
  BY DEF TypeOK, EventInv, StartInv, PublisherInv, ModeInv
<1>4. PublisherInv'
  BY EventFacts DEF TypeOK, EventInv, PublisherInv, HistoryInv
<1>5. HistoryInv' /\ OneOutcome'
  BY EventFacts DEF TypeOK, PublisherInv, HistoryInv, OneOutcome
<1> QED BY <1>1, <1>2, <1>3, <1>4, <1>5

\* The second flag is claimed, or the call throws.
LEMMA StartCycleInv ==
    ASSUME Inv, NEW t \in Threads, StartCycle(t)
    PROVE  Inv'
<1>1. At(t, "cycle") /\ cycleStarted' = TRUE /\ UNCHANGED <<native, context, binding, core>>
  BY DEF StartCycle
<1> USE DEF Inv, Pc, At, Go, Leave, Idle, adapter, core,
            Starting, Publishing, Ending, Terminating, Leaving, Over
<1>2. CASE ~cycleStarted /\ Go(t, "bind") /\ UNCHANGED asyncStarted
  <2>1. TypeOK'
    <3>1. thread' \in ThreadType
      BY <1>1, <1>2, ThreadMoves DEF Pcs
    <3>2. sunk' \in Seq(Events) /\ heard' \in [Listeners -> Seq(Events)]
      BY <1>1 DEF TypeOK, EventInv
    <3> QED BY <1>1, <1>2, <3>1, <3>2, EventFacts DEF TypeOK, EventInv, ThreadType, Pcs
  <2>2. NativeInv' /\ EventInv' /\ GateInv'
    BY <1>1, <1>2, EventFacts DEF TypeOK, NativeInv, EventInv, GateInv
  <2>3. StartInv' /\ ModeInv'
    BY <1>1, <1>2 DEF TypeOK, EventInv, StartInv, PublisherInv, ModeInv
  <2>4. PublisherInv'
    BY <1>1, <1>2, EventFacts DEF TypeOK, EventInv, PublisherInv, HistoryInv
  <2>5. HistoryInv' /\ OneOutcome'
    BY <1>1, <1>2, EventFacts DEF TypeOK, PublisherInv, HistoryInv, OneOutcome
  <2> QED BY <2>1, <2>2, <2>3, <2>4, <2>5
<1>3. CASE cycleStarted /\ Leave(t) /\ asyncStarted' = FALSE
  <2>1. TypeOK'
    <3>1. thread' \in ThreadType
      BY <1>1, <1>3, ThreadMoves DEF Pcs
    <3>2. sunk' \in Seq(Events) /\ heard' \in [Listeners -> Seq(Events)]
      BY <1>1 DEF TypeOK, EventInv
    <3> QED BY <1>1, <1>3, <3>1, <3>2, EventFacts DEF TypeOK, EventInv, ThreadType, Pcs
  <2>2. NativeInv' /\ EventInv' /\ GateInv'
    BY <1>1, <1>3, EventFacts DEF TypeOK, NativeInv, EventInv, GateInv
  <2>3. StartInv' /\ ModeInv'
    BY <1>1, <1>3 DEF TypeOK, EventInv, StartInv, PublisherInv, ModeInv
  <2>4. PublisherInv'
    BY <1>1, <1>3, EventFacts DEF TypeOK, EventInv, PublisherInv, HistoryInv
  <2>5. HistoryInv' /\ OneOutcome'
    BY <1>1, <1>3, EventFacts DEF TypeOK, PublisherInv, HistoryInv, OneOutcome
  <2> QED BY <2>1, <2>2, <2>3, <2>4, <2>5
<1> QED BY <1>2, <1>3 DEF StartCycle

\* The native cycle is started.
LEMMA StartBindInv ==
    ASSUME Inv, NEW t \in Threads, StartBind(t)
    PROVE  Inv'
<1> USE DEF Inv, StartBind, Pc, At, Go, Leave, Idle, adapter, core,
            Starting, Publishing, Ending, Terminating, Leaving, Over
<1>1. TypeOK'
  BY EventFacts, ThreadMoves DEF TypeOK, EventInv, ThreadType, Pcs
<1>2. NativeInv' /\ EventInv' /\ GateInv'
  BY EventFacts DEF TypeOK, NativeInv, EventInv, GateInv
<1>3. StartInv' /\ ModeInv'
  BY DEF TypeOK, EventInv, StartInv, PublisherInv, ModeInv
<1>4. PublisherInv'
  BY EventFacts DEF TypeOK, EventInv, PublisherInv, HistoryInv
<1>5. HistoryInv' /\ OneOutcome'
  BY EventFacts DEF TypeOK, PublisherInv, HistoryInv, OneOutcome
<1> QED BY <1>1, <1>2, <1>3, <1>4, <1>5

\* The native cycle cannot be started.
LEMMA StartBindFailsInv ==
    ASSUME Inv, NEW t \in Threads, StartBindFails(t)
    PROVE  Inv'
<1> USE DEF Inv, StartBindFails, Pc, At, Go, Leave, Idle, adapter, core,
            Starting, Publishing, Ending, Terminating, Leaving, Over
<1>1. TypeOK'
  <2>1. thread' \in ThreadType
    BY ThreadMoves DEF Pcs
  <2>2. sunk' \in Seq(Events) /\ heard' \in [Listeners -> Seq(Events)]
    BY DEF TypeOK, EventInv
  <2> QED BY <2>1, <2>2, EventFacts DEF TypeOK, EventInv, ThreadType, Pcs
<1>2. NativeInv' /\ EventInv' /\ GateInv'
  BY EventFacts DEF TypeOK, NativeInv, EventInv, GateInv
<1>3. StartInv' /\ ModeInv'
  BY DEF TypeOK, EventInv, StartInv, PublisherInv, ModeInv
<1>4. PublisherInv'
  BY EventFacts DEF TypeOK, EventInv, PublisherInv, HistoryInv
<1>5. HistoryInv' /\ OneOutcome'
  BY EventFacts DEF TypeOK, PublisherInv, HistoryInv, OneOutcome
<1> QED BY <1>1, <1>2, <1>3, <1>4, <1>5

\* The context is published.
LEMMA StartPublishInv ==
    ASSUME Inv, NEW t \in Threads, StartPublish(t)
    PROVE  Inv'
<1> USE DEF Inv, StartPublish, Pc, At, Go, Leave, Idle, adapter, core,
            Starting, Publishing, Ending, Terminating, Leaving, Over
<1>1. TypeOK'
  BY EventFacts, ThreadMoves, ZenonT(60) DEF TypeOK, EventInv, ThreadType, Pcs
<1>2. NativeInv' /\ EventInv' /\ GateInv'
  BY EventFacts DEF TypeOK, NativeInv, EventInv, GateInv
<1>3. StartInv' /\ ModeInv'
  BY DEF TypeOK, EventInv, StartInv, PublisherInv, ModeInv
<1>4. PublisherInv'
  BY EventFacts DEF TypeOK, EventInv, PublisherInv, HistoryInv
<1>5. HistoryInv' /\ OneOutcome'
  BY EventFacts DEF TypeOK, PublisherInv, HistoryInv, OneOutcome
<1> QED BY <1>1, <1>2, <1>3, <1>4, <1>5

\* The registry lets this thread decide the outcome.
LEMMA GateClaimedInv ==
    ASSUME Inv, NEW t \in Threads, GateClaimed(t)
    PROVE  Inv'
<1> USE DEF Inv, GateClaimed, Pc, At, Go, Leave, Idle, adapter, core,
            Starting, Publishing, Ending, Terminating, Leaving, Over
<1>1. TypeOK'
  BY EventFacts, ThreadMoves DEF TypeOK, EventInv, ThreadType, Pcs
<1>2. NativeInv' /\ EventInv' /\ GateInv'
  BY EventFacts DEF TypeOK, NativeInv, EventInv, GateInv
<1>3. StartInv' /\ ModeInv'
  BY DEF TypeOK, EventInv, StartInv, PublisherInv, ModeInv
<1>4. PublisherInv'
  BY EventFacts DEF TypeOK, EventInv, PublisherInv, HistoryInv
<1>5. HistoryInv' /\ OneOutcome'
  BY EventFacts DEF TypeOK, PublisherInv, HistoryInv, OneOutcome
<1> QED BY <1>1, <1>2, <1>3, <1>4, <1>5

\* The registry has the same event already.
LEMMA GateAlreadyInv ==
    ASSUME Inv, NEW t \in Threads, GateAlready(t)
    PROVE  Inv'
<1> USE DEF Inv, GateAlready, Pc, At, Go, Leave, Idle, adapter, core,
            Starting, Publishing, Ending, Terminating, Leaving, Over
<1>1. TypeOK'
  <2>1. thread' \in ThreadType
    BY ThreadMoves DEF Pcs
  <2>2. sunk' \in Seq(Events) /\ heard' \in [Listeners -> Seq(Events)]
    BY DEF TypeOK, EventInv
  <2> QED BY <2>1, <2>2, EventFacts DEF TypeOK, EventInv, ThreadType, Pcs
<1>2. NativeInv' /\ EventInv' /\ GateInv'
  BY EventFacts DEF TypeOK, NativeInv, EventInv, GateInv
<1>3. StartInv' /\ ModeInv'
  BY DEF TypeOK, EventInv, StartInv, PublisherInv, ModeInv
<1>4. PublisherInv'
  BY EventFacts DEF TypeOK, EventInv, PublisherInv, HistoryInv
<1>5. HistoryInv' /\ OneOutcome'
  BY EventFacts DEF TypeOK, PublisherInv, HistoryInv, OneOutcome
<1> QED BY <1>1, <1>2, <1>3, <1>4, <1>5

\* The registry has another event.
LEMMA GateLostInv ==
    ASSUME Inv, NEW t \in Threads, GateLost(t)
    PROVE  Inv'
<1> USE DEF Inv, GateLost, Pc, At, Go, Leave, Idle, adapter, core,
            Starting, Publishing, Ending, Terminating, Leaving, Over
<1>1. TypeOK'
  <2>1. thread' \in ThreadType
    BY ThreadMoves DEF Pcs
  <2> QED BY <2>1 DEF TypeOK, ThreadType, Pcs
<1>2. NativeInv' /\ EventInv' /\ GateInv'
  BY EventFacts DEF TypeOK, NativeInv, EventInv, GateInv
<1>3. StartInv' /\ ModeInv'
  BY DEF TypeOK, EventInv, StartInv, PublisherInv, ModeInv
<1>4. PublisherInv'
  BY EventFacts DEF TypeOK, EventInv, PublisherInv, HistoryInv
<1>5. HistoryInv' /\ OneOutcome'
  BY EventFacts DEF TypeOK, PublisherInv, HistoryInv, OneOutcome
<1> QED BY <1>1, <1>2, <1>3, <1>4, <1>5

\* The swap of the context's state.
LEMMA PublishStateInv ==
    ASSUME Inv, NEW t \in Threads, PublishState(t)
    PROVE  Inv'
<1>1. /\ At(t, "publishState")
      /\ UNCHANGED <<native, adapter, binding, listenerFired, listeners, sunk, heard>>
  BY DEF PublishState
<1> USE DEF Inv, Pc, At, Go, Leave, Idle, adapter, core,
            Starting, Publishing, Ending, Terminating, Leaving, Over
<1>2. CASE state = "ACTIVE" /\ state' = TerminalState(thread[t].event) /\ Go(t, "sink")
  <2>1. TypeOK'
    <3>1. thread' \in ThreadType
      BY <1>1, <1>2, ThreadMoves DEF Pcs
    <3>2. sunk' \in Seq(Events) /\ heard' \in [Listeners -> Seq(Events)]
      BY <1>1 DEF TypeOK, EventInv
    <3> QED BY <1>1, <1>2, <3>1, <3>2, EventFacts DEF TypeOK, EventInv, ThreadType, Pcs
  <2>2. NativeInv' /\ EventInv' /\ GateInv'
    BY <1>1, <1>2, EventFacts DEF TypeOK, NativeInv, EventInv, GateInv
  <2>3. StartInv' /\ ModeInv'
    BY <1>1, <1>2 DEF TypeOK, EventInv, StartInv, PublisherInv, ModeInv
  <2>4. /\ state' \in Leaving /\ Pc(t)' = "sink"
        /\ \A u \in Threads \ {t} : Pc(u)' = Pc(u) /\ Pc(u) \notin Ending
    BY <1>1, <1>2, EventFacts DEF TypeOK, EventInv, PublisherInv
  <2>5. sunk' = <<>> /\ ~listenerFired' /\ heard' = heard /\ binding' = "active"
    BY <1>1, <1>2 DEF TypeOK, EventInv, StartInv, HistoryInv
  <2>6. PublisherInv'
    BY <2>4, <2>5 DEF PublisherInv
  <2>7. HistoryInv' /\ OneOutcome'
    BY <1>1, <2>4, <2>5 DEF HistoryInv, OneOutcome
  <2> QED BY <2>1, <2>2, <2>3, <2>6, <2>7
<1>3. CASE state # "ACTIVE" /\ Leave(t) /\ UNCHANGED state
  <2>1. TypeOK'
    <3>1. thread' \in ThreadType
      BY <1>1, <1>3, ThreadMoves DEF Pcs
    <3>2. sunk' \in Seq(Events) /\ heard' \in [Listeners -> Seq(Events)]
      BY <1>1 DEF TypeOK, EventInv
    <3> QED BY <1>1, <1>3, <3>1, <3>2, EventFacts DEF TypeOK, EventInv, ThreadType, Pcs
  <2>2. NativeInv' /\ EventInv' /\ GateInv'
    BY <1>1, <1>3, EventFacts DEF TypeOK, NativeInv, EventInv, GateInv
  <2>3. StartInv' /\ ModeInv'
    BY <1>1, <1>3 DEF TypeOK, EventInv, StartInv, PublisherInv, ModeInv
  <2>4. PublisherInv'
    BY <1>1, <1>3, EventFacts DEF TypeOK, EventInv, PublisherInv, HistoryInv
  <2>5. HistoryInv' /\ OneOutcome'
    BY <1>1, <1>3, EventFacts DEF TypeOK, PublisherInv, HistoryInv, OneOutcome
  <2> QED BY <2>1, <2>2, <2>3, <2>4, <2>5
<1> QED BY <1>2, <1>3 DEF PublishState

\* The sink is told.
LEMMA SinkInv ==
    ASSUME Inv, NEW t \in Threads, Sink(t)
    PROVE  Inv'
<1> USE DEF Inv, Sink, Pc, At, Go, Leave, Idle, adapter, core,
            Starting, Publishing, Ending, Terminating, Leaving, Over
<1>1. TypeOK'
  <2>1. thread' \in ThreadType
    BY ThreadMoves DEF Pcs
  <2>2. sunk' \in Seq(Events) /\ heard' \in [Listeners -> Seq(Events)]
    BY DEF TypeOK, EventInv
  <2> QED BY <2>1, <2>2, EventFacts, ZenonT(60) DEF TypeOK, EventInv, ThreadType, Pcs
<1>2. NativeInv' /\ EventInv' /\ GateInv'
  BY EventFacts DEF TypeOK, NativeInv, EventInv, GateInv
<1>3. StartInv' /\ ModeInv'
  BY DEF TypeOK, EventInv, StartInv, PublisherInv, ModeInv
<1>4. PublisherInv'
  <2>1. sunk = <<>>
    BY DEF PublisherInv
  <2>2. sunk' = Append(<<>>, thread[t].event)
    BY <2>1
  <2>3. sunk' = <<thread[t].event>>
    BY <2>2
  <2> QED BY <2>3 DEF TypeOK, PublisherInv
<1>5. HistoryInv' /\ OneOutcome'
  BY EventFacts DEF TypeOK, PublisherInv, HistoryInv, OneOutcome
<1> QED BY <1>1, <1>2, <1>3, <1>4, <1>5

\* The listeners are told.
LEMMA FireInv ==
    ASSUME Inv, NEW t \in Threads, Fire(t)
    PROVE  Inv'
<1> USE DEF Inv, Fire, Pc, At, Go, Leave, Idle, adapter, core,
            Starting, Publishing, Ending, Terminating, Leaving, Over
<1>1. TypeOK'
  <2>1. thread' \in ThreadType
    BY ThreadMoves DEF Pcs
  <2>2. sunk' \in Seq(Events) /\ heard' \in [Listeners -> Seq(Events)]
    BY DEF TypeOK, EventInv
  <2> QED BY <2>1, <2>2, EventFacts DEF TypeOK, EventInv, ThreadType, Pcs
<1>2. NativeInv' /\ EventInv' /\ GateInv'
  BY EventFacts DEF TypeOK, NativeInv, EventInv, GateInv
<1>3. StartInv' /\ ModeInv'
  BY DEF TypeOK, EventInv, StartInv, PublisherInv, ModeInv
<1>4. PublisherInv'
  BY EventFacts DEF TypeOK, EventInv, PublisherInv, HistoryInv
<1>5. HistoryInv' /\ OneOutcome'
  BY EventFacts DEF TypeOK, PublisherInv, HistoryInv, OneOutcome
<1> QED BY <1>1, <1>2, <1>3, <1>4, <1>5

\* The context is completed.
LEMMA CompleteInv ==
    ASSUME Inv, NEW t \in Threads, Complete(t)
    PROVE  Inv'
<1> USE DEF Inv, Complete, Pc, At, Go, Leave, Idle, adapter, core,
            Starting, Publishing, Ending, Terminating, Leaving, Over
<1>1. TypeOK'
  BY EventFacts, ThreadMoves, ZenonT(60) DEF TypeOK, EventInv, ThreadType, Pcs
<1>2. NativeInv' /\ EventInv' /\ GateInv'
  BY EventFacts DEF TypeOK, NativeInv, EventInv, GateInv
<1>3. StartInv' /\ ModeInv'
  BY DEF TypeOK, EventInv, StartInv, PublisherInv, ModeInv
<1>4. PublisherInv'
  BY EventFacts DEF TypeOK, EventInv, PublisherInv, HistoryInv
<1>5. HistoryInv' /\ OneOutcome'
  BY EventFacts DEF TypeOK, PublisherInv, HistoryInv, OneOutcome
<1> QED BY <1>1, <1>2, <1>3, <1>4, <1>5

\* The binding is dropped.
LEMMA InvalidateInv ==
    ASSUME Inv, NEW t \in Threads, Invalidate(t)
    PROVE  Inv'
<1> USE DEF Inv, Invalidate, Pc, At, Go, Leave, Idle, adapter, core,
            Starting, Publishing, Ending, Terminating, Leaving, Over
<1>1. TypeOK'
  BY EventFacts, ThreadMoves, ZenonT(60) DEF TypeOK, EventInv, ThreadType, Pcs
<1>2. NativeInv' /\ EventInv' /\ GateInv'
  BY EventFacts DEF TypeOK, NativeInv, EventInv, GateInv
<1>3. StartInv' /\ ModeInv'
  BY DEF TypeOK, EventInv, StartInv, PublisherInv, ModeInv
<1>4. PublisherInv'
  BY EventFacts DEF TypeOK, EventInv, PublisherInv, HistoryInv
<1>5. HistoryInv' /\ OneOutcome'
  BY EventFacts DEF TypeOK, PublisherInv, HistoryInv, OneOutcome
<1> QED BY <1>1, <1>2, <1>3, <1>4, <1>5

\* A listener enters the list.
LEMMA AddToListInv ==
    ASSUME Inv, NEW t \in Threads, AddToList(t)
    PROVE  Inv'
<1> USE DEF Inv, AddToList, Pc, At, Go, Leave, Idle, adapter, core,
            Starting, Publishing, Ending, Terminating, Leaving, Over
<1>1. TypeOK'
  <2>1. thread' \in ThreadType
    BY ThreadMoves DEF Pcs
  <2>2. sunk' \in Seq(Events) /\ heard' \in [Listeners -> Seq(Events)]
    BY DEF TypeOK, EventInv
  <2> QED BY <2>1, <2>2, EventFacts DEF TypeOK, EventInv, ThreadType, Pcs
<1>2. NativeInv' /\ EventInv' /\ GateInv'
  BY EventFacts DEF TypeOK, NativeInv, EventInv, GateInv
<1>3. StartInv' /\ ModeInv'
  BY DEF TypeOK, EventInv, StartInv, PublisherInv, ModeInv
<1>4. PublisherInv'
  BY EventFacts DEF TypeOK, EventInv, PublisherInv, HistoryInv
<1>5. HistoryInv' /\ OneOutcome'
  BY EventFacts DEF TypeOK, PublisherInv, HistoryInv, OneOutcome
<1> QED BY <1>1, <1>2, <1>3, <1>4, <1>5

\* The context is recycled.
LEMMA RecycleInv ==
    ASSUME Inv, NEW t \in Threads, Recycle(t)
    PROVE  Inv'
<1> USE DEF Inv, Recycle, Pc, At, Go, Leave, Idle, adapter, core,
            Starting, Publishing, Ending, Terminating, Leaving, Over
<1>1. TypeOK'
  BY EventFacts, ThreadMoves DEF TypeOK, EventInv, ThreadType, Pcs
<1>2. NativeInv' /\ EventInv' /\ GateInv'
  BY EventFacts DEF TypeOK, NativeInv, EventInv, GateInv
<1>3. StartInv' /\ ModeInv'
  BY DEF TypeOK, EventInv, StartInv, PublisherInv, ModeInv
<1>4. PublisherInv'
  BY EventFacts DEF TypeOK, EventInv, PublisherInv, HistoryInv
<1>5. HistoryInv' /\ OneOutcome'
  BY EventFacts DEF TypeOK, PublisherInv, HistoryInv, OneOutcome
<1> QED BY <1>1, <1>2, <1>3, <1>4, <1>5

\* A thread reports an event.
LEMMA TerminateInv ==
    ASSUME Inv, NEW t \in Threads, NEW event \in Events, Terminate(t, event)
    PROVE  Inv'
<1> USE DEF Inv, Terminate, Pc, At, Go, Leave, Idle, adapter, core,
            Starting, Publishing, Ending, Terminating, Leaving, Over
<1>1. TypeOK'
  BY EventFacts, ThreadMoves DEF TypeOK, EventInv, ThreadType, Pcs
<1>2. NativeInv' /\ EventInv' /\ GateInv'
  <2>1. Pc(t)' = "gate" /\ thread'[t].event = event
    BY DEF TypeOK
  <2>2. \A u \in Threads \ {t} : thread'[u] = thread[u]
    BY DEF TypeOK
  <2> QED BY <2>1, <2>2 DEF NativeInv, EventInv, GateInv
<1>3. StartInv' /\ ModeInv'
  BY DEF TypeOK, EventInv, StartInv, PublisherInv, ModeInv
<1>4. PublisherInv'
  BY EventFacts DEF TypeOK, EventInv, PublisherInv, HistoryInv
<1>5. HistoryInv' /\ OneOutcome'
  BY EventFacts DEF TypeOK, PublisherInv, HistoryInv, OneOutcome
<1> QED BY <1>1, <1>2, <1>3, <1>4, <1>5

\* A listener is to be added.
LEMMA AddListenerInv ==
    ASSUME Inv, NEW t \in Threads, NEW listener \in Listeners, AddListener(t, listener)
    PROVE  Inv'
<1> USE DEF Inv, AddListener, Pc, At, Go, Leave, Idle, adapter, core,
            Starting, Publishing, Ending, Terminating, Leaving, Over
<1>1. TypeOK'
  BY EventFacts, ThreadMoves DEF TypeOK, EventInv, ThreadType, Pcs
<1>2. NativeInv' /\ EventInv' /\ GateInv'
  <2>1. Pc(t)' = "add" /\ thread'[t].listener = listener
    BY DEF TypeOK
  <2>2. \A u \in Threads \ {t} : thread'[u] = thread[u]
    BY DEF TypeOK
  <2> QED BY <2>1, <2>2 DEF NativeInv, EventInv, GateInv
<1>3. StartInv' /\ ModeInv'
  BY DEF TypeOK, EventInv, StartInv, PublisherInv, ModeInv
<1>4. PublisherInv'
  BY EventFacts DEF TypeOK, EventInv, PublisherInv, HistoryInv
<1>5. HistoryInv' /\ OneOutcome'
  BY EventFacts DEF TypeOK, PublisherInv, HistoryInv, OneOutcome
<1> QED BY <1>1, <1>2, <1>3, <1>4, <1>5

\* The native owner establishes an event.
LEMMA NativeTerminalInv ==
    ASSUME Inv, NEW event \in Events, NativeTerminal(event)
    PROVE  Inv'
<1> USE DEF Inv, NativeTerminal, Pc, At, Go, Leave, Idle, adapter, core,
            Starting, Publishing, Ending, Terminating, Leaving, Over
<1>1. TypeOK'
  BY EventFacts, ThreadMoves DEF TypeOK, EventInv, ThreadType, Pcs
<1>2. NativeInv' /\ EventInv' /\ GateInv'
  <2>1. native'.state = "CLOSING" /\ native'.event = event /\ event # NoEvent
    BY EventFacts DEF TypeOK
  <2>2. \A u \in Threads : Pc(u) \notin {"publishState", "sink", "fire", "complete"}
    BY EventFacts DEF NativeInv, EventInv, GateInv
  <2> QED BY <2>1, <2>2 DEF NativeInv, EventInv, GateInv
<1>3. StartInv' /\ ModeInv'
  BY DEF TypeOK, EventInv, StartInv, PublisherInv, ModeInv
<1>4. PublisherInv'
  BY EventFacts DEF TypeOK, EventInv, PublisherInv, HistoryInv
<1>5. HistoryInv' /\ OneOutcome'
  BY EventFacts DEF TypeOK, PublisherInv, HistoryInv, OneOutcome
<1> QED BY <1>1, <1>2, <1>3, <1>4, <1>5

\* The native owner closes.
LEMMA NativeCloseInv ==
    ASSUME Inv, NativeClose
    PROVE  Inv'
<1> USE DEF Inv, NativeClose, Pc, At, Go, Leave, Idle, adapter, core,
            Starting, Publishing, Ending, Terminating, Leaving, Over
<1>1. TypeOK'
  BY EventFacts, ThreadMoves, SMTT(40) DEF TypeOK, EventInv, ThreadType, Pcs
<1>2. NativeInv' /\ EventInv' /\ GateInv'
  BY EventFacts DEF TypeOK, NativeInv, EventInv, GateInv
<1>3. StartInv' /\ ModeInv'
  BY DEF TypeOK, EventInv, StartInv, PublisherInv, ModeInv
<1>4. PublisherInv'
  BY EventFacts DEF TypeOK, EventInv, PublisherInv, HistoryInv
<1>5. HistoryInv' /\ OneOutcome'
  BY EventFacts DEF TypeOK, PublisherInv, HistoryInv, OneOutcome
<1> QED BY <1>1, <1>2, <1>3, <1>4, <1>5

\* The native owner retires the entry.
LEMMA NativeRetireInv ==
    ASSUME Inv, NativeRetire
    PROVE  Inv'
<1> USE DEF Inv, NativeRetire, Pc, At, Go, Leave, Idle, adapter, core,
            Starting, Publishing, Ending, Terminating, Leaving, Over
<1>1. TypeOK'
  BY EventFacts, ThreadMoves DEF TypeOK, EventInv, ThreadType, Pcs
<1>2. NativeInv' /\ EventInv' /\ GateInv'
  BY EventFacts DEF TypeOK, NativeInv, EventInv, GateInv
<1>3. StartInv' /\ ModeInv'
  BY DEF TypeOK, EventInv, StartInv, PublisherInv, ModeInv
<1>4. PublisherInv'
  BY EventFacts DEF TypeOK, EventInv, PublisherInv, HistoryInv
<1>5. HistoryInv' /\ OneOutcome'
  BY EventFacts DEF TypeOK, PublisherInv, HistoryInv, OneOutcome
<1> QED BY <1>1, <1>2, <1>3, <1>4, <1>5

-------------------------------------------------------------------------------
\* Every step preserves the invariant.
LEMMA InvStep == Inv /\ [Next]_vars => Inv'
<1> SUFFICES ASSUME Inv, [Next]_vars PROVE Inv'
    OBVIOUS
<1>1. ASSUME NEW t \in Threads, Call(t) PROVE Inv'
  BY <1>1, StartClaimInv, TerminateInv, AddListenerInv, RecycleInv DEF Call
<1>2. ASSUME NEW t \in Threads, Start(t) PROVE Inv'
  BY <1>2, StartCycleInv, StartBindInv, StartBindFailsInv, StartPublishInv DEF Start
<1>3. ASSUME NEW t \in Threads, Gate(t) PROVE Inv'
  BY <1>3, GateClaimedInv, GateAlreadyInv, GateLostInv DEF Gate
<1>4. ASSUME NEW t \in Threads, Publication(t) PROVE Inv'
  BY <1>4, PublishStateInv, SinkInv, FireInv, CompleteInv, InvalidateInv DEF Publication
<1>5. ASSUME Native PROVE Inv'
  BY <1>5, NativeTerminalInv, NativeCloseInv, NativeRetireInv DEF Native
<1>6. CASE UNCHANGED vars
  BY <1>6 DEF vars, Inv, TypeOK, NativeInv, EventInv, GateInv, StartInv, PublisherInv,
              HistoryInv, OneOutcome, ModeInv, Pc
<1> QED BY <1>1, <1>2, <1>3, <1>4, <1>5, <1>6, AddToListInv DEF Next, Step

\* The invariant holds in every reachable state.
LEMMA InvAlways == Spec => []Inv
BY InvInit, InvStep, PTL DEF Spec

\* tryTerminate reaches the container's sink at most once, and a listener hears
\* the event that reached it or nothing, however many threads and listeners.
THEOREM OutcomeUnique == Spec => []OneOutcome
<1>1. Inv => OneOutcome
  BY DEF Inv
<1> QED BY <1>1, InvAlways, PTL

\* What was published is what the registry was given, and it was given first.
Published ==
    /\ state # "ACTIVE" => native.event # NoEvent
    /\ \A i \in DOMAIN sunk : native.event = AsNative(sunk[i])

\* The registry's event, once there, stays.
LEMMA NativeStays ==
    ASSUME Inv, [Next]_vars, native.event # NoEvent
    PROVE  native'.event = native.event
<1> USE DEF Inv, NativeInv
<1>1. native \in [state : {"OPEN", "ASYNC_WAIT", "CLOSING", "CLOSED"},
                  event : Events \cup {NoEvent}, registered : BOOLEAN]
      /\ native.state \notin {"OPEN", "ASYNC_WAIT"}
  BY DEF TypeOK
<1>2. ASSUME NEW t \in Threads, Call(t) \/ AddToList(t) \/ Publication(t) PROVE native' = native
  BY <1>2, Zenon DEF Call, AddToList, Publication, StartClaim, Terminate, AddListener, Recycle,
                     PublishState, Sink, Fire, Complete, Invalidate
<1>3. ASSUME NEW t \in Threads, Start(t) \/ Gate(t) PROVE native'.event = native.event
  BY <1>1, <1>3 DEF Start, Gate, StartCycle, StartBind, StartBindFails, StartPublish,
                    GateClaimed, GateAlready, GateLost
<1>4. ASSUME Native PROVE native'.event = native.event
  BY <1>1, <1>4 DEF Native, NativeTerminal, NativeClose, NativeRetire
<1>5. CASE UNCHANGED vars
  BY <1>5 DEF vars
<1> QED BY <1>2, <1>3, <1>4, <1>5 DEF Next, Step

\* Where the state and the sink's history come from: a thread past the gate.
LEMMA PublishedSteps ==
    ASSUME Inv, [Next]_vars
    PROVE  /\ \/ state' = "ACTIVE" \/ state # "ACTIVE"
              \/ \E t \in Threads : Pc(t) \in {"publishState", "complete"}
           /\ \/ sunk' = sunk
              \/ \E t \in Threads : Pc(t) = "sink" /\ sunk' = Append(sunk, thread[t].event)
<1>1. ASSUME NEW t \in Threads, Call(t) \/ AddToList(t) \/ Start(t) \/ Gate(t)
      PROVE  sunk' = sunk /\ (state' = state \/ state # "ACTIVE")
  BY <1>1 DEF Call, AddToList, Start, Gate, StartClaim, Terminate, AddListener, Recycle,
              StartCycle, StartBind, StartBindFails, StartPublish,
              GateClaimed, GateAlready, GateLost, core
<1>2. ASSUME NEW t \in Threads, Publication(t)
      PROVE  /\ state' = state \/ Pc(t) \in {"publishState", "complete"}
             /\ sunk' = sunk \/ (Pc(t) = "sink" /\ sunk' = Append(sunk, thread[t].event))
  BY <1>2 DEF Publication, PublishState, Sink, Fire, Complete, Invalidate, core, Pc, At
<1>3. ASSUME Native PROVE sunk' = sunk /\ state' = state
  BY <1>3 DEF Native, NativeTerminal, NativeClose, NativeRetire, core
<1>4. CASE UNCHANGED vars
  BY <1>4 DEF vars
<1> QED BY <1>1, <1>2, <1>3, <1>4, Zenon DEF Next, Step

LEMMA PublishedStep ==
    ASSUME Inv, Published, [Next]_vars
    PROVE  Published'
<1>1. \A t \in Threads : Pc(t) \in {"publishState", "sink", "fire", "complete"} =>
          native.event = AsNative(thread[t].event) /\ AsNative(thread[t].event) # NoEvent
  BY EventFacts DEF Inv, GateInv, EventInv, Terminating, Ending, Publishing, Pc
<1>2. native.event # NoEvent => native'.event = native.event
  BY NativeStays
<1>3. sunk \in Seq(Events)
  BY DEF Inv, TypeOK
<1>4. (state # "ACTIVE" => native.event # NoEvent)'
  BY <1>1, <1>2, PublishedSteps DEF Published
<1>5. (\A i \in DOMAIN sunk : native.event = AsNative(sunk[i]))'
  <2>1. CASE sunk' = sunk
    <3>1. ASSUME NEW i \in DOMAIN sunk PROVE native'.event = AsNative(sunk[i])
      <4>1. sunk[i] \in Events
        BY <1>3
      <4> QED BY <1>2, <4>1, EventFacts DEF Published
    <3> QED BY <2>1, <3>1
  <2>2. ASSUME NEW t \in Threads, Pc(t) = "sink", sunk' = Append(sunk, thread[t].event)
        PROVE  (\A i \in DOMAIN sunk : native.event = AsNative(sunk[i]))'
    <3>1. sunk = <<>> /\ thread[t].event \in Events
      BY <2>2 DEF Inv, PublisherInv, EventInv, Terminating, Ending, Publishing
    <3>2. sunk' = <<thread[t].event>>
      BY <2>2, <3>1
    <3>3. native'.event = AsNative(thread[t].event)
      BY <1>1, <1>2, <2>2
    <3>4. DOMAIN sunk' = {1} /\ sunk'[1] = thread[t].event
      BY <3>2
    <3> QED BY <3>3, <3>4
  <2> QED BY <2>1, <2>2, PublishedSteps
<1> QED BY <1>4, <1>5 DEF Published

\* No outcome is published in Java before the registry has one, and a completion
\* or a shutdown is published exactly when it has won there.  (Of the other
\* three events the numbers differ between Java and C, and so may the outcome:
\* the run async_event.)
THEOREM NativeDecidesFirst == Spec => []NativeFirst
<1>1. Init => Published
  BY DEF Init, Published
<1>2. Inv /\ Published => NativeFirst
  <2> SUFFICES ASSUME Inv, Published, NEW i \in DOMAIN sunk,
                      sunk[i] \in SameNumber \/ native.event \in SameNumber
               PROVE  sunk[i] = native.event
      BY DEF NativeFirst, Published
  <2>1. sunk[i] \in Events /\ native.event = AsNative(sunk[i])
    BY DEF Inv, TypeOK, Published
  <2> QED BY <2>1, NumberFacts
<1>3. Inv /\ Published /\ [Next]_vars => Published'
  BY PublishedStep
<1> QED BY <1>1, <1>2, <1>3, InvAlways, PTL DEF Spec

\* isAsyncStarted is false for a finished context, but for a startAsync that is
\* between its two flags.
THEOREM AsyncModeEnds == Spec => []ModeEnds
<1>1. Inv => ModeEnds
  BY DEF Inv, HistoryInv, ModeInv, ModeEnds, Over, Pc, At
<1> QED BY <1>1, InvAlways, PTL

-------------------------------------------------------------------------------
(* Refinement.                                                             *)

\* The event that the mapping takes from the publishing thread.
LEMMA SinkThread ==
    ASSUME PublisherInv, NEW t \in Threads, Pc(t) = "sink"
    PROVE  (CHOOSE u \in Threads : At(u, "sink")) = t
<1>1. \A u \in Threads : At(u, "sink") => u = t
  BY DEF PublisherInv, Pc, At, Ending, Publishing
<1> QED BY <1>1 DEF Pc, At

\* The same after a step.
LEMMA SinkThreadNext ==
    ASSUME PublisherInv', NEW t \in Threads, Pc(t)' = "sink"
    PROVE  (CHOOSE u \in Threads : At(u, "sink")') = t
<1>1. \A u \in Threads : At(u, "sink")' => u = t
  BY DEF PublisherInv, Pc, At, Ending, Publishing
<1> QED BY <1>1 DEF Pc, At

Phase == CASE state = "ACTIVE" -> "live"
           [] state \in {"COMPLETED", "RECYCLED"} -> "closed"
           [] OTHER -> "decided"

Established == CASE state = "ACTIVE" -> -1
                 [] sunk # <<>> -> Ordinal(sunk[1])
                 [] OTHER -> Ordinal(thread[CHOOSE t \in Threads : At(t, "sink")].event)

\* A step that publishes nothing keeps the established event.
LEMMA Quiet ==
    ASSUME Inv, Inv', sunk' = sunk,
           state' = state \/ (state \in Over /\ state' \in Over),
           \A u \in Threads : Pc(u) = "sink" => thread'[u] = thread[u]
    PROVE  Phase' = Phase /\ Established' = Established
<1>1. Phase' = Phase
  BY DEF Phase, Over
<1>2. CASE state = "ACTIVE"
  BY <1>1, <1>2 DEF Established, Over
<1>4. CASE state # "ACTIVE" /\ sunk # <<>>
  <2>1. state' # "ACTIVE" /\ sunk' # <<>>
    BY <1>4 DEF Over
  <2>2. Established = Ordinal(sunk[1]) /\ Established' = Ordinal(sunk'[1])
    BY <1>4, <2>1 DEF Established
  <2> QED BY <1>1, <2>2
<1>3. CASE state # "ACTIVE" /\ sunk = <<>>
  <2>1. PICK t \in Threads : Pc(t) = "sink"
    BY <1>3 DEF Inv, HistoryInv
  <2>2. thread'[t] = thread[t] /\ Pc(t)' = "sink"
    BY <2>1 DEF Pc
  <2>3. Established = Ordinal(thread[t].event)
    BY <1>3, <2>1, SinkThread DEF Inv, Established
  <2>4. Established' = Ordinal(thread[t].event)
    BY <1>3, <2>2, SinkThreadNext DEF Inv, Established, Over
  <2> QED BY <1>1, <2>3, <2>4
<1> QED BY <1>2, <1>3, <1>4

\* The winning swap of the state establishes the event.
LEMMA EstablishStep ==
    ASSUME Inv, Inv', NEW t \in Threads, PublishState(t), state = "ACTIVE"
    PROVE  Outcome!Establish(Ordinal(thread[t].event))
<1>1. /\ state' \in Leaving /\ sunk' = <<>> /\ binding' = binding
      /\ thread'[t].event = thread[t].event /\ Pc(t)' = "sink"
  BY EventFacts DEF PublishState, Inv, TypeOK, EventInv, HistoryInv, Terminating, At, Go, Pc
<1>2. Phase = "live" /\ Phase' = "decided"
  BY <1>1 DEF Phase, Leaving
<1>3. Established' = Ordinal(thread[t].event)
  BY <1>1, SinkThreadNext DEF Inv, Established, Leaving
<1> QED BY <1>1, <1>2, <1>3 DEF Outcome!Establish, Phase, Established

\* The sink gets the event that the swap established.
LEMMA SinkStep ==
    ASSUME Inv, Inv', NEW t \in Threads, Sink(t)
    PROVE  Phase' = Phase /\ Established' = Established
<1>1. /\ state \in Leaving /\ state' = state /\ sunk = <<>> /\ sunk' = <<thread[t].event>>
      /\ Pc(t) = "sink"
  BY DEF Sink, Inv, TypeOK, PublisherInv, Publishing, Terminating, Ending, EventInv, At, Go, Pc
<1>2. Established = Ordinal(thread[t].event)
  BY <1>1, SinkThread DEF Inv, Established, Leaving
<1>3. Established' = Ordinal(thread[t].event)
  BY <1>1 DEF Established, Leaving
<1> QED BY <1>1, <1>2, <1>3 DEF Phase

\* Completing the context closes the outcome.
LEMMA CompleteStep ==
    ASSUME Inv, Inv', NEW t \in Threads, Complete(t)
    PROVE  Outcome!Close
<1>1. /\ state \in Leaving /\ state' = "COMPLETED" /\ sunk' = sunk /\ sunk # <<>>
      /\ binding' = binding
  BY DEF Complete, Inv, PublisherInv, Publishing, At, Pc
<1>2. Phase = "decided" /\ Phase' = "closed"
  BY <1>1 DEF Phase, Leaving
<1>3. Established' = Established
  BY <1>1 DEF Established, Leaving
<1> QED BY <1>1, <1>2, <1>3 DEF Outcome!Close, Phase, Established

\* Invalidating the binding reclaims.
LEMMA InvalidateStep ==
    ASSUME Inv, Inv', NEW t \in Threads, Invalidate(t)
    PROVE  Outcome!Reclaim
<1>1. /\ state \in Over /\ state' = state /\ sunk' = sunk
      /\ binding = "active" /\ binding' = "invalid"
  BY DEF Invalidate, Inv, PublisherInv, core, At, Pc
<1>2. Phase = "closed"
  BY <1>1 DEF Phase, Over
<1>3. \A u \in Threads : Pc(u) = "sink" => thread'[u] = thread[u]
  BY DEF Invalidate, Leave, At, Pc, Inv, TypeOK
<1>4. Phase' = Phase /\ Established' = Established
  BY <1>1, <1>3, Quiet
<1> QED BY <1>1, <1>2, <1>4 DEF Outcome!Reclaim, Phase, Established

\* Every step of the cycle is a step of TerminalOutcome or leaves it as it is.
LEMMA OutcomeStep == Inv /\ Inv' /\ [Next]_vars => [Outcome!Next]_(Outcome!vars)
<1> SUFFICES ASSUME Inv, Inv', [Next]_vars PROVE [Outcome!Next]_(Outcome!vars)
    OBVIOUS
<1> DEFINE Unmoved == Phase' = Phase /\ Established' = Established
                      /\ (binding' = "invalid") = (binding = "invalid")
<1>1. ASSUME Unmoved PROVE UNCHANGED Outcome!vars
  BY <1>1 DEF Outcome!vars, Phase, Established
<1>2. ASSUME NEW t \in Threads, PublishState(t), state = "ACTIVE" PROVE Outcome!Next
  <2>1. Ordinal(thread[t].event) \in DOMAIN JavaEvents
    BY <1>2, EventFacts DEF Inv, EventInv, PublishState, At, Pc, Terminating
  <2> QED BY <1>2, <2>1, EstablishStep DEF Outcome!Next
<1>3. ASSUME NEW t \in Threads, Complete(t) \/ Invalidate(t) PROVE Outcome!Next
  BY <1>3, CompleteStep, InvalidateStep DEF Outcome!Next
<1>4. ASSUME NEW t \in Threads, Sink(t) PROVE Unmoved
  BY <1>4, SinkStep DEF Sink
<1>5. ASSUME NEW t \in Threads, PublishState(t), state # "ACTIVE" PROVE Unmoved
  <2>1. \A u \in Threads : Pc(u) = "sink" => thread'[u] = thread[u]
    BY <1>5 DEF PublishState, Leave, At, Pc, Inv, TypeOK
  <2> QED BY <1>5, <2>1, Quiet DEF PublishState
<1>6. ASSUME NEW t \in Threads, Fire(t) \/ Start(t) \/ Gate(t) \/ AddToList(t) PROVE Unmoved
  <2>1. \A u \in Threads : Pc(u) = "sink" => thread'[u] = thread[u]
    BY <1>6 DEF Fire, Start, StartCycle, StartBind, StartBindFails, StartPublish, Gate, GateClaimed,
                GateAlready, GateLost, AddToList, Go, Leave, At, Pc, Inv, TypeOK
  <2>2. sunk' = sunk /\ state' = state /\ (binding' = "invalid") = (binding = "invalid")
    BY <1>6 DEF Fire, Start, StartCycle, StartBind, StartBindFails, StartPublish, Gate, GateClaimed,
                GateAlready, GateLost, AddToList, core, At, Pc, Inv, StartInv
  <2> QED BY <2>1, <2>2, Quiet
<1>7. ASSUME NEW t \in Threads, Call(t) PROVE Unmoved
  <2>1. \A u \in Threads : Pc(u) = "sink" => thread'[u] = thread[u]
    BY <1>7 DEF Call, StartClaim, Terminate, AddListener, Recycle, Go, At, Pc, Inv, TypeOK
  <2>2. /\ sunk' = sunk /\ binding' = binding
        /\ state' = state \/ (state \in Over /\ state' \in Over)
    BY <1>7 DEF Call, StartClaim, Terminate, AddListener, Recycle, core, Over
  <2> QED BY <2>1, <2>2, Quiet
<1>8. ASSUME Native \/ UNCHANGED vars PROVE Unmoved
  <2>1. sunk' = sunk /\ state' = state /\ thread' = thread /\ binding' = binding
    BY <1>8 DEF Native, NativeTerminal, NativeClose, NativeRetire, core, vars
  <2> QED BY <2>1, Quiet
<1> HIDE DEF Unmoved
<1> QED BY <1>1, <1>2, <1>3, <1>4, <1>5, <1>6, <1>7, <1>8 DEF Next, Step, Publication

\* The Java side of a cycle keeps the promise of TerminalOutcome: tryTerminate
\* establishes one event, never rewrites it, and drops the binding once, last.
THEOREM CycleImplementsOutcome == Spec => ImplementsOutcome
<1>1. Init => Outcome!Init
  BY DEF Init, Outcome!Init, Outcome!NoEvent
<1> QED BY <1>1, InvAlways, OutcomeStep, PTL DEF Spec, ImplementsOutcome, Outcome!Spec

=============================================================================

------------------------------ MODULE AsyncCycle ------------------------------
(***************************************************************************)
(* One asynchronous cycle of one request, across the Java and the native   *)
(* side: CkartaServletRequestAdapter.startAsync, CkartaAsyncCycleBinding,  *)
(* CkartaAsyncContext, and the connection registry they reach through      *)
(* CkartaNativeAsyncBridge.  Java threads report terminal events while the *)
(* native owner reports its own, closes the connection and retires it.     *)
(* Every atomic field access and every call into native code is a step;    *)
(* the registry works under its mutex, so a call of it is one step.        *)
(***************************************************************************)
EXTENDS Integers, Sequences

CONSTANTS
    Threads,        \* Java threads that use the request and its AsyncContext
    Listeners       \* listeners they may add

-------------------------------------------------------------------------------
(* The terminal event crosses the boundary as CkartaAsyncContext's ordinal *)
(* and is read as a ck_connection_terminal_event_t.                        *)

JavaEvents == <<"COMPLETE", "TIMEOUT", "ERROR", "CLIENT_DISCONNECT", "SHUTDOWN">>
NativeEvents == <<"COMPLETE", "CLIENT_DISCONNECT", "TIMEOUT", "ERROR", "SHUTDOWN">>

Events == {JavaEvents[i] : i \in DOMAIN JavaEvents}
NoEvent == "none"

Ordinal(event) == CHOOSE i \in DOMAIN JavaEvents : JavaEvents[i] = event
AsNative(event) == NativeEvents[Ordinal(event)]

\* The state tryTerminate moves an ACTIVE context to.
TerminalState(event) ==
    CASE event = "COMPLETE" -> "COMPLETING"
      [] event = "TIMEOUT" -> "TIMING_OUT"
      [] OTHER -> "ERRORED"

-------------------------------------------------------------------------------
VARIABLES
    native,         \* the registry entry: [state, event, registered]
    asyncStarted, cycleStarted,     \* the adapter's two flags
    context,        \* has startAsync published the AsyncContext
    binding,        \* the cycle binding: "none", "active", "invalid"
    state,          \* CkartaAsyncContext.state
    listenerFired,
    listeners,      \* the copy-on-write list
    thread,         \* per thread: [pc, event, listener], the call it is in
    sunk,           \* history: events handed to the terminal sink
    heard           \* history: per listener, the events it was called with

vars == <<native, asyncStarted, cycleStarted, context, binding, state,
          listenerFired, listeners, thread, sunk, heard>>
adapter == <<asyncStarted, cycleStarted, context>>
core == <<state, listenerFired, listeners, sunk, heard>>

NoListener == "no listener"
Idle == [pc |-> "idle", event |-> NoEvent, listener |-> NoListener]
At(t, pc) == thread[t].pc = pc
Go(t, pc) == thread' = [thread EXCEPT ![t].pc = pc]
Leave(t) == thread' = [thread EXCEPT ![t] = Idle]

Init ==
    /\ native = [state |-> "OPEN", event |-> NoEvent, registered |-> TRUE]
    /\ asyncStarted = FALSE /\ cycleStarted = FALSE
    /\ context = FALSE
    /\ binding = "none"
    /\ state = "ACTIVE"
    /\ listenerFired = FALSE
    /\ listeners = {}
    /\ thread = [t \in Threads |-> Idle]
    /\ sunk = <<>>
    /\ heard = [l \in Listeners |-> <<>>]

-------------------------------------------------------------------------------
(* startAsync                                                              *)

\* asyncStarted.compareAndSet; when it fails the call throws.
StartClaim(t) ==
    /\ At(t, "idle")
    /\ ~asyncStarted
    /\ asyncStarted' = TRUE
    /\ Go(t, "cycle")
    /\ UNCHANGED <<native, cycleStarted, context, binding, core>>

\* A slip: the refused call leaves the first flag set.
StartCycleKeepsFlag(t) ==
    /\ At(t, "cycle")
    /\ \/ ~cycleStarted /\ Go(t, "bind")
       \/ cycleStarted /\ Leave(t)
    /\ cycleStarted' = TRUE
    /\ UNCHANGED <<native, asyncStarted, context, binding, core>>

\* asyncCycleStarted.compareAndSet; when it fails the first flag is taken back.
StartCycle(t) ==
    /\ At(t, "cycle")
    /\ \/ ~cycleStarted /\ Go(t, "bind") /\ UNCHANGED asyncStarted
       \/ cycleStarted /\ Leave(t) /\ asyncStarted' = FALSE
    /\ cycleStarted' = TRUE
    /\ UNCHANGED <<native, context, binding, core>>

\* The constructor of CkartaAsyncCycleBinding takes a cycle id and has the
\* registry start the cycle.
StartBind(t) ==
    /\ At(t, "bind")
    /\ native.registered
    /\ native.state = "OPEN"
    /\ native' = [native EXCEPT !.state = "ASYNC_WAIT"]
    /\ binding' = "active"
    /\ Go(t, "publish")
    /\ UNCHANGED <<adapter, core>>

\* Cycle ids are used up, the handle is stale, the identity does not match or
\* the connection is not OPEN: startAsync throws where it stands.
StartBindFails(t) ==
    /\ At(t, "bind")
    /\ Leave(t)
    /\ UNCHANGED <<native, adapter, binding, core>>

StartPublish(t) ==
    /\ At(t, "publish")
    /\ context' = TRUE
    /\ Leave(t)
    /\ UNCHANGED <<native, asyncStarted, cycleStarted, binding, core>>

-------------------------------------------------------------------------------
(* tryTerminate, from complete, timeout, error, clientDisconnect, shutdown *)
(* and a failed task of start.                                             *)

\* The terminal gate asks whether the binding is still active ...
Terminate(t, event) ==
    /\ At(t, "idle")
    /\ context
    /\ binding = "active"
    /\ thread' = [thread EXCEPT ![t] = [Idle EXCEPT !.pc = "gate", !.event = event]]
    /\ UNCHANGED <<native, adapter, binding, core>>

\* ... and the registry, which answers CLAIMED ...
GateClaimed(t) ==
    /\ At(t, "gate")
    /\ native.registered
    /\ native.state = "ASYNC_WAIT"
    /\ native' = [native EXCEPT !.state = "CLOSING", !.event = AsNative(thread[t].event)]
    /\ Go(t, "publishState")
    /\ UNCHANGED <<adapter, binding, core>>

\* ... or ALREADY_SAME: somebody else established the same event ...
GateAlready(t) ==
    /\ At(t, "gate")
    /\ native.registered
    /\ native.event = AsNative(thread[t].event)
    /\ Go(t, "publishState")
    /\ UNCHANGED <<native, adapter, binding, core>>

\* A slip: a lost race is not told from a won one.
GateLostGoesOn(t) ==
    /\ At(t, "gate")
    /\ \/ ~native.registered
       \/ native.event \notin {NoEvent, AsNative(thread[t].event)}
    /\ Go(t, "publishState")
    /\ UNCHANGED <<native, adapter, binding, core>>

\* ... or ALREADY_DIFFERENT, or an error when the entry is gone: nothing more
\* happens in Java.
GateLost(t) ==
    /\ At(t, "gate")
    /\ \/ ~native.registered
       \/ native.event \notin {NoEvent, AsNative(thread[t].event)}
    /\ Leave(t)
    /\ UNCHANGED <<native, adapter, binding, core>>

\* A slip: the state is set, whatever it was.
PublishStateSet(t) ==
    /\ At(t, "publishState")
    /\ state' = TerminalState(thread[t].event)
    /\ Go(t, "sink")
    /\ UNCHANGED <<native, adapter, binding, listenerFired, listeners, sunk, heard>>

\* A slip: the binding is dropped before the outcome is published.
PublishStateInvalidates(t) ==
    /\ At(t, "publishState")
    /\ \/ /\ state = "ACTIVE"
          /\ state' = TerminalState(thread[t].event)
          /\ binding' = "invalid"
          /\ Go(t, "sink")
       \/ /\ state # "ACTIVE"
          /\ Leave(t)
          /\ UNCHANGED <<state, binding>>
    /\ UNCHANGED <<native, adapter, listenerFired, listeners, sunk, heard>>

\* state.compareAndSet(ACTIVE, ...) picks the thread that publishes.
PublishState(t) ==
    /\ At(t, "publishState")
    /\ \/ /\ state = "ACTIVE"
          /\ state' = TerminalState(thread[t].event)
          /\ Go(t, "sink")
       \/ /\ state # "ACTIVE"
          /\ Leave(t)
          /\ UNCHANGED state
    /\ UNCHANGED <<native, adapter, binding, listenerFired, listeners, sunk, heard>>

\* The adapter's sink: the container's sink, then asyncStarted.set(false), also
\* when the container's sink throws.
Sink(t) ==
    /\ At(t, "sink")
    /\ sunk' = Append(sunk, thread[t].event)
    /\ asyncStarted' = FALSE
    /\ Go(t, "fire")
    /\ UNCHANGED <<native, cycleStarted, context, binding, state, listenerFired,
                   listeners, heard>>

\* fireListenerOnce: the listeners of the list as it is now.
Fire(t) ==
    /\ At(t, "fire")
    /\ listenerFired' = TRUE
    /\ heard' = [l \in Listeners |-> IF ~listenerFired /\ l \in listeners
                                     THEN Append(heard[l], thread[t].event)
                                     ELSE heard[l]]
    /\ Go(t, "complete")
    /\ UNCHANGED <<native, adapter, binding, state, listeners, sunk>>

\* A slip: the binding is not invalidated.
CompleteLeaves(t) ==
    /\ At(t, "complete")
    /\ state' = "COMPLETED"
    /\ Leave(t)
    /\ UNCHANGED <<native, adapter, binding, listenerFired, listeners, sunk, heard>>

Complete(t) ==
    /\ At(t, "complete")
    /\ state' = "COMPLETED"
    /\ Go(t, "invalidate")
    /\ UNCHANGED <<native, adapter, binding, listenerFired, listeners, sunk, heard>>

Invalidate(t) ==
    /\ At(t, "invalidate")
    /\ binding' = "invalid"
    /\ Leave(t)
    /\ UNCHANGED <<native, adapter, core>>

-------------------------------------------------------------------------------
\* addListener checks that the context is active (every call wraps its argument
\* in a new listener, so none is added twice) ...
AddListener(t, listener) ==
    /\ At(t, "idle")
    /\ context
    /\ state = "ACTIVE"
    /\ listener \notin listeners
    /\ \A u \in Threads : thread[u].listener # listener
    /\ thread' = [thread EXCEPT ![t] = [Idle EXCEPT !.pc = "add", !.listener = listener]]
    /\ UNCHANGED <<native, adapter, binding, core>>

\* ... and adds the listener.
AddToList(t) ==
    /\ At(t, "add")
    /\ listeners' = listeners \cup {thread[t].listener}
    /\ Leave(t)
    /\ UNCHANGED <<native, adapter, binding, state, listenerFired, sunk, heard>>

Recycle(t) ==
    /\ At(t, "idle")
    /\ state = "COMPLETED"
    /\ state' = "RECYCLED"
    /\ UNCHANGED <<native, adapter, binding, listenerFired, listeners, thread, sunk, heard>>

-------------------------------------------------------------------------------
(* The native owner, through ck_connection_registry_*.                     *)

NativeTerminal(event) ==
    /\ native.registered
    /\ native.state = "ASYNC_WAIT"
    /\ native' = [native EXCEPT !.state = "CLOSING", !.event = event]
    /\ UNCHANGED <<adapter, binding, core, thread>>

NativeClose ==
    /\ native.registered
    /\ native.state = "CLOSING"
    /\ native' = [native EXCEPT !.state = "CLOSED"]
    /\ UNCHANGED <<adapter, binding, core, thread>>

NativeRetire ==
    /\ native.registered
    /\ native.state = "CLOSED"
    /\ native' = [native EXCEPT !.registered = FALSE]
    /\ UNCHANGED <<adapter, binding, core, thread>>

-------------------------------------------------------------------------------
Start(t) == StartCycle(t) \/ StartBind(t) \/ StartBindFails(t) \/ StartPublish(t)
Gate(t) == GateClaimed(t) \/ GateAlready(t) \/ GateLost(t)
Publication(t) == PublishState(t) \/ Sink(t) \/ Fire(t) \/ Complete(t) \/ Invalidate(t)

Step(t) == Start(t) \/ Gate(t) \/ Publication(t) \/ AddToList(t)

Call(t) ==
    \/ StartClaim(t)
    \/ \E event \in Events : Terminate(t, event)
    \/ \E listener \in Listeners : AddListener(t, listener)
    \/ Recycle(t)

Native == (\E event \in Events : NativeTerminal(event)) \/ NativeClose \/ NativeRetire

Next == (\E t \in Threads : Call(t) \/ Step(t)) \/ Native

Spec == Init /\ [][Next]_vars

\* A thread inside a call keeps running; nobody is obliged to call.
FairSpec == Spec /\ \A t \in Threads : WF_vars(Step(t))

-------------------------------------------------------------------------------
TypeOK ==
    /\ native \in [state : {"OPEN", "ASYNC_WAIT", "CLOSING", "CLOSED"},
                   event : Events \cup {NoEvent}, registered : BOOLEAN]
    /\ asyncStarted \in BOOLEAN /\ cycleStarted \in BOOLEAN
    /\ context \in BOOLEAN
    /\ binding \in {"none", "active", "invalid"}
    /\ state \in {"ACTIVE", "COMPLETING", "TIMING_OUT", "ERRORED", "COMPLETED", "RECYCLED"}
    /\ listenerFired \in BOOLEAN
    /\ listeners \subseteq Listeners
    /\ thread \in [Threads ->
          [pc : {"idle", "cycle", "bind", "publish", "gate", "publishState", "sink",
                 "fire", "complete", "invalidate", "add"},
           event : Events \cup {NoEvent}, listener : Listeners \cup {NoListener}]]
    /\ sunk \in Seq(Events)
    /\ heard \in [Listeners -> Seq(Events)]

\* However many threads report events, the container's sink gets one terminal
\* event, and each listener is told that same event once or, if it came too
\* late, nothing.
OneOutcome ==
    /\ Len(sunk) <= 1
    /\ \A l \in Listeners : heard[l] \in {<<>>, sunk}

\* The events that have the same number on both sides of the boundary.
SameNumber == {"COMPLETE", "SHUTDOWN"}

\* Java publishes no outcome before the registry has one, whoever reported it;
\* and a completion or a shutdown is what Java published if and only if it is
\* what won in the registry, whatever the other threads reported meanwhile.
NativeFirst ==
    /\ state # "ACTIVE" => native.event # NoEvent
    /\ \A i \in DOMAIN sunk :
          sunk[i] \in SameNumber \/ native.event \in SameNumber => sunk[i] = native.event

\* "Native registry terminal arbitration first, then the Java semantic core
\* updates its local async state"; if a different event has won, "Java must not
\* establish a second terminal outcome" (docs/CONNECTION_OWNERSHIP.md): what
\* the container's sink gets is the event the registry holds.
OneEventBothSides == \A i \in DOMAIN sunk : sunk[i] = native.event

\* The request stops being asynchronous when its cycle is over: asyncStarted
\* and a finished context exclude each other except inside a startAsync that is
\* about to throw.
ModeEnds ==
    state \in {"COMPLETED", "RECYCLED"} /\ asyncStarted =>
        \E t \in Threads : At(t, "cycle")

Outcome == INSTANCE TerminalOutcome WITH
    Events <- DOMAIN JavaEvents,
    phase <- CASE state = "ACTIVE" -> "live"
               [] state \in {"COMPLETED", "RECYCLED"} -> "closed"
               [] OTHER -> "decided",
    event <- CASE state = "ACTIVE" -> -1
               [] sunk # <<>> -> Ordinal(sunk[1])
               [] OTHER -> Ordinal(thread[CHOOSE t \in Threads : At(t, "sink")].event),
    reclaimed <- binding = "invalid"

\* The AsyncContext keeps the same promise as the native connection: one event
\* is established, never rewritten, and the binding is dropped once and last.
ImplementsOutcome == Outcome!Spec

\* A context that has left ACTIVE is completed and its binding invalidated.
PublicationEnds == (state # "ACTIVE") ~> (binding = "invalid")
===============================================================================

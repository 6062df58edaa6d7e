------------------------------ MODULE Connection ------------------------------
(***************************************************************************)
(* One ck_connection_t shared by several threads (ck_connection.c).  The   *)
(* state, the terminal event and the async cycle id live in ONE atomic     *)
(* 64-bit word; every transition is a compare-and-swap on that word, and   *)
(* the thread whose swap reaches CLOSED cleans up without a lock.  Each    *)
(* atomic load, each swap and each cleanup step is a step of its own.      *)
(***************************************************************************)
EXTENDS Integers, Sequences

CONSTANTS
    Threads,        \* threads that call ck_connection_* on the connection
    Cycles,         \* async cycle ids the callers pass
    CycleModulus,   \* one more than CK_CONNECTION_CYCLE_MASK (2^48 in the code)
    Reported,       \* terminal events the callers report
    Fds             \* descriptors that may be attached before it is shared

ASSUME ConnectionAssumption ==
    /\ CycleModulus \in Nat \ {0, 1}
    /\ Cycles \subseteq Int
    /\ Reported \subseteq 0 .. 4
    /\ Fds \subseteq Nat

\* ck_connection_state_t
OPEN == 0
ASYNC_WAIT == 1
CLOSING == 2
CLOSED == 3

\* ck_connection_terminal_event_t, in the order of the C enumeration
COMPLETE == 0
CLIENT_DISCONNECT == 1
TIMEOUT == 2
ERROR == 3
SHUTDOWN == 4

Events == COMPLETE .. SHUTDOWN
NoEvent == -1
NoFd == -1

-------------------------------------------------------------------------------
(* The lifecycle word: 48 bits of cycle, 8 bits of event, 8 bits of state. *)

EventBits(event) == IF event < 0 THEN 255 ELSE event % 256

Pack(state, event, cycle) ==
    (cycle % CycleModulus) * 65536 + EventBits(event) * 256 + (state % 256)

UnpackState(word) == word % 256

UnpackEvent(word) ==
    LET bits == (word \div 256) % 256 IN IF bits = 255 THEN NoEvent ELSE bits

UnpackCycle(word) == (word \div 65536) % CycleModulus

ValidCycle(cycle) == cycle > 0 /\ cycle < CycleModulus

-------------------------------------------------------------------------------
VARIABLES
    lifecycle,      \* the atomic word
    socketFd,       \* connection->socket_fd
    heapLive,       \* the reader, writer, body queue and response are allocated
    pc,             \* per thread: "idle", "terminal", "close", "cleanup", "free"
    current,        \* per thread: the word it last loaded
    request,        \* per thread: the terminal event it was called with
    reply,          \* per thread: what its last call returned
    claims,         \* history: the events for which a caller was told CLAIMED
    fdCloses,       \* history: how often the descriptor was closed
    frees           \* history: how often the heap objects were freed

vars == <<lifecycle, socketFd, heapLive, pc, current, request, reply,
          claims, fdCloses, frees>>

Replies == {"none", "STARTED", "NOT_STARTED", "CLAIMED", "ALREADY_SAME",
            "ALREADY_DIFFERENT", "CLOSED", "CLOSE_ERROR", "CLOSE_EINTR",
            "NOT_OWNER"}

\* A thread is created with no call in flight; the owner may already have
\* attached the accepted descriptor.
Init ==
    /\ lifecycle = Pack(OPEN, NoEvent, 0)
    /\ socketFd \in Fds \cup {NoFd}
    /\ heapLive = TRUE
    /\ pc = [t \in Threads |-> "idle"]
    /\ current = [t \in Threads |-> 0]
    /\ request = [t \in Threads |-> NoEvent]
    /\ reply = [t \in Threads |-> "none"]
    /\ claims = <<>>
    /\ fdCloses = 0
    /\ frees = 0

\* A call returns: its locals are gone, its result stays with the caller.
Return(t, result) ==
    /\ pc' = [pc EXCEPT ![t] = "idle"]
    /\ current' = [current EXCEPT ![t] = 0]
    /\ reply' = [reply EXCEPT ![t] = result]

\* ck_connection_start_async_cycle: one strong compare-and-swap from the
\* untouched OPEN word.  An invalid cycle id changes nothing.
StartAsyncCycle(t, cycle) ==
    /\ pc[t] = "idle"
    /\ ValidCycle(cycle)
    /\ \/ /\ lifecycle = Pack(OPEN, NoEvent, 0)
          /\ lifecycle' = Pack(ASYNC_WAIT, NoEvent, cycle)
          /\ Return(t, "STARTED")
       \/ /\ lifecycle # Pack(OPEN, NoEvent, 0)
          /\ Return(t, "NOT_STARTED")
          /\ UNCHANGED lifecycle
    /\ UNCHANGED <<socketFd, heapLive, request, claims, fdCloses, frees>>

\* ck_connection_try_terminal up to its first load.
TryTerminalLoad(t, event) ==
    /\ pc[t] = "idle"
    /\ pc' = [pc EXCEPT ![t] = "terminal"]
    /\ current' = [current EXCEPT ![t] = lifecycle]
    /\ request' = [request EXCEPT ![t] = event]
    /\ UNCHANGED <<lifecycle, socketFd, heapLive, reply, claims, fdCloses, frees>>

\* A slip: every loser is told that its own event won.
TryTerminalLostUntold(t) ==
    /\ pc[t] = "terminal"
    /\ UnpackState(current[t]) \in {CLOSING, CLOSED}
    /\ Return(t, "ALREADY_SAME")
    /\ UNCHANGED <<lifecycle, socketFd, heapLive, request, claims, fdCloses, frees>>

\* The loaded word is already terminal: tell the caller whose event it is.
TryTerminalLost(t) ==
    /\ pc[t] = "terminal"
    /\ UnpackState(current[t]) \in {CLOSING, CLOSED}
    /\ Return(t, IF UnpackEvent(current[t]) = request[t]
                 THEN "ALREADY_SAME" ELSE "ALREADY_DIFFERENT")
    /\ UNCHANGED <<lifecycle, socketFd, heapLive, request, claims, fdCloses, frees>>

\* A slip: the claim goes straight to CLOSED.
TryTerminalClaimCloses(t) ==
    /\ pc[t] = "terminal"
    /\ UnpackState(current[t]) \in {OPEN, ASYNC_WAIT}
    /\ lifecycle = current[t]
    /\ lifecycle' = Pack(CLOSED, request[t], UnpackCycle(current[t]))
    /\ claims' = Append(claims, request[t])
    /\ Return(t, "CLAIMED")
    /\ UNCHANGED <<socketFd, heapLive, request, fdCloses, frees>>

\* The weak swap succeeds: state and reason are published in one store.
TryTerminalClaim(t) ==
    /\ pc[t] = "terminal"
    /\ UnpackState(current[t]) \in {OPEN, ASYNC_WAIT}
    /\ lifecycle = current[t]
    /\ lifecycle' = Pack(CLOSING, request[t], UnpackCycle(current[t]))
    /\ claims' = Append(claims, request[t])
    /\ Return(t, "CLAIMED")
    /\ UNCHANGED <<socketFd, heapLive, request, fdCloses, frees>>

\* The weak swap fails, because the word changed or spuriously; it reloads.
TryTerminalRetry(t) ==
    /\ pc[t] = "terminal"
    /\ UnpackState(current[t]) \in {OPEN, ASYNC_WAIT}
    /\ current' = [current EXCEPT ![t] = lifecycle]
    /\ UNCHANGED <<lifecycle, socketFd, heapLive, pc, request, reply, claims,
                   fdCloses, frees>>

\* ck_connection_close up to its first load.
CloseLoad(t) ==
    /\ pc[t] = "idle"
    /\ pc' = [pc EXCEPT ![t] = "close"]
    /\ current' = [current EXCEPT ![t] = lifecycle]
    /\ UNCHANGED <<lifecycle, socketFd, heapLive, request, reply, claims,
                   fdCloses, frees>>

\* A slip: whatever is not closed may be closed.
MayCloseLive(word) == UnpackState(word) # CLOSED

MayClose(word) == UnpackState(word) = CLOSING /\ UnpackEvent(word) >= 0

\* Already closed, or no terminal event established: nothing to own.
CloseNotOwner(t) ==
    /\ pc[t] = "close"
    /\ ~MayClose(current[t])
    /\ Return(t, "NOT_OWNER")
    /\ UNCHANGED <<lifecycle, socketFd, heapLive, request, claims, fdCloses, frees>>

\* A slip: a plain store where the swap is.
CloseSwapStore(t) ==
    /\ pc[t] = "close"
    /\ MayClose(current[t])
    /\ lifecycle' = Pack(CLOSED, UnpackEvent(current[t]), UnpackCycle(current[t]))
    /\ pc' = [pc EXCEPT ![t] = "cleanup"]
    /\ current' = [current EXCEPT ![t] = 0]
    /\ UNCHANGED <<socketFd, heapLive, request, reply, claims, fdCloses, frees>>

\* The swap to CLOSED transfers the cleanup to this caller.
CloseSwap(t) ==
    /\ pc[t] = "close"
    /\ MayClose(current[t])
    /\ lifecycle = current[t]
    /\ lifecycle' = Pack(CLOSED, UnpackEvent(current[t]), UnpackCycle(current[t]))
    /\ pc' = [pc EXCEPT ![t] = "cleanup"]
    /\ current' = [current EXCEPT ![t] = 0]
    /\ UNCHANGED <<socketFd, heapLive, request, reply, claims, fdCloses, frees>>

CloseRetry(t) ==
    /\ pc[t] = "close"
    /\ MayClose(current[t])
    /\ current' = [current EXCEPT ![t] = lifecycle]
    /\ UNCHANGED <<lifecycle, socketFd, heapLive, pc, request, reply, claims,
                   fdCloses, frees>>

\* A slip: an error of close(2) returns before the heap objects are freed.
CloseDescriptorReturns(t) ==
    /\ pc[t] = "cleanup"
    /\ socketFd' = NoFd
    /\ fdCloses' = IF socketFd >= 0 THEN fdCloses + 1 ELSE fdCloses
    /\ \/ reply' = [reply EXCEPT ![t] = "CLOSED"] /\ pc' = [pc EXCEPT ![t] = "free"]
       \/ /\ socketFd >= 0
          /\ reply' = [reply EXCEPT ![t] = "CLOSE_ERROR"]
          /\ pc' = [pc EXCEPT ![t] = "idle"]
    /\ UNCHANGED <<lifecycle, heapLive, current, request, claims, frees>>

\* The owner takes the descriptor out of the connection and closes it.
CloseDescriptor(t) ==
    /\ pc[t] = "cleanup"
    /\ socketFd' = NoFd
    /\ fdCloses' = IF socketFd >= 0 THEN fdCloses + 1 ELSE fdCloses
    /\ reply' \in {[reply EXCEPT ![t] = r] :
                   r \in IF socketFd >= 0
                         THEN {"CLOSED", "CLOSE_ERROR", "CLOSE_EINTR"}
                         ELSE {"CLOSED"}}
    /\ pc' = [pc EXCEPT ![t] = "free"]
    /\ UNCHANGED <<lifecycle, heapLive, current, request, claims, frees>>

\* The four heap objects are freed whatever close(2) said.
FreeObjects(t) ==
    /\ pc[t] = "free"
    /\ heapLive' = FALSE
    /\ frees' = frees + 1
    /\ pc' = [pc EXCEPT ![t] = "idle"]
    /\ UNCHANGED <<lifecycle, socketFd, current, request, reply, claims, fdCloses>>

Step(t) ==
    \/ TryTerminalLost(t)
    \/ TryTerminalClaim(t)
    \/ TryTerminalRetry(t)
    \/ CloseNotOwner(t)
    \/ CloseSwap(t)
    \/ CloseRetry(t)
    \/ CloseDescriptor(t)
    \/ FreeObjects(t)

Call(t) ==
    \/ \E cycle \in Cycles : StartAsyncCycle(t, cycle)
    \/ \E event \in Reported : TryTerminalLoad(t, event)
    \/ CloseLoad(t)

Next == \E t \in Threads : Call(t) \/ Step(t)

Spec == Init /\ [][Next]_vars

\* A thread inside a call keeps running, and the weak swap does not fail
\* spuriously for ever; nobody is obliged to make a call.
Fairness ==
    \A t \in Threads :
        /\ WF_vars(TryTerminalLost(t) \/ CloseNotOwner(t) \/ CloseDescriptor(t)
                   \/ FreeObjects(t))
        /\ WF_vars(TryTerminalRetry(t) \/ CloseRetry(t))
        /\ SF_vars(TryTerminalClaim(t) \/ CloseSwap(t))

FairSpec == Spec /\ Fairness

-------------------------------------------------------------------------------
TypeOK ==
    /\ lifecycle \in Nat
    /\ socketFd \in Fds \cup {NoFd}
    /\ heapLive \in BOOLEAN
    /\ pc \in [Threads -> {"idle", "terminal", "close", "cleanup", "free"}]
    /\ current \in [Threads -> Nat]
    /\ request \in [Threads -> Events \cup {NoEvent}]
    /\ reply \in [Threads -> Replies]
    /\ claims \in Seq(Events)
    /\ fdCloses \in Nat
    /\ frees \in Nat

State == UnpackState(lifecycle)
Event == UnpackEvent(lifecycle)

\* ck_connection_try_terminal tells at most one caller that it CLAIMED the
\* connection, and from then on the word carries exactly that caller's event.
OneTerminalOwner ==
    /\ State \in {CLOSING, CLOSED} => claims = <<Event>>
    /\ State \in {OPEN, ASYNC_WAIT} => claims = <<>> /\ Event = NoEvent

\* The winner of the swap in ck_connection_close is the only one that touches
\* the descriptor and the heap: each is released at most once, never while the
\* connection can still be used, and never by a thread that did not win.
CleanupOnce ==
    /\ fdCloses <= 1
    /\ frees <= 1
    /\ (frees > 0 \/ fdCloses > 0) => State = CLOSED
    /\ heapLive <=> (frees = 0)
    /\ \A t, u \in Threads :
          pc[t] \in {"cleanup", "free"} /\ pc[u] \in {"cleanup", "free"} => t = u

\* A refused caller was told the truth: ALREADY_SAME is only returned for the
\* event the connection really ended with, ALREADY_DIFFERENT only for another.
TruthfulReply ==
    \A t \in Threads :
        pc[t] = "idle" =>
            /\ reply[t] = "ALREADY_SAME" => Event = request[t]
            /\ reply[t] = "ALREADY_DIFFERENT" => Event \notin {request[t], NoEvent}

\* The word never goes back: a state is only followed by a later one, and the
\* cycle id set by start_async_cycle survives the terminal swaps.
LifecycleMonotone ==
    [][/\ UnpackState(lifecycle') >= UnpackState(lifecycle)
       /\ UnpackCycle(lifecycle) # 0 => UnpackCycle(lifecycle') = UnpackCycle(lifecycle)
      ]_lifecycle

Outcome == INSTANCE TerminalOutcome WITH
    phase <- CASE State \in {OPEN, ASYNC_WAIT} -> "live"
               [] State = CLOSING -> "decided"
               [] OTHER -> "closed",
    event <- Event,
    reclaimed <- ~heapLive

\* The compare-and-swap protocol implements the promise of TerminalOutcome.
ImplementsOutcome == Outcome!Spec

\* Once some caller has moved the word to CLOSED the descriptor and the heap
\* objects are released, whatever close(2) reports.
CleanupHappens == (State = CLOSED) ~> (~heapLive /\ socketFd = NoFd)
===============================================================================

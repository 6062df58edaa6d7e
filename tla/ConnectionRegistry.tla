-------------------------- MODULE ConnectionRegistry --------------------------
(***************************************************************************)
(* The process-local table of connections (ck_connection_registry.c) that  *)
(* hands out generation-protected handles and counts the pins that keep a  *)
(* connection's heap objects alive while I/O runs outside the lock.        *)
(*                                                                         *)
(* Every registry operation runs under the one registry mutex, so each is  *)
(* one step.  A call whose checks fail (stale handle, wrong identity,      *)
(* wrong state) returns an error code and changes nothing; it is a         *)
(* stuttering step here.  The lifecycle of a connection is the record its  *)
(* atomic word packs; module Connection has the word itself and its races. *)
(***************************************************************************)
EXTENDS Integers, FiniteSets

CONSTANTS
    Capacity,       \* CK_CONNECTION_REGISTRY_CAPACITY
    GenMax,         \* the largest generation, UINT32_MAX in the code
    Identities,     \* the (request, owner, lifetime) token triples of callers
    Cycles,         \* valid async cycle ids
    Events,         \* terminal events
    ReaderPins,     \* the callers' ck_connection_registry_reader_pin_t structs
    OutputPins,     \* the callers' ck_connection_registry_output_pin_t structs
    Fds,            \* descriptor numbers
    MaxReuse        \* bound: how often one slot is taken

ASSUME RegistryAssumption ==
    /\ Capacity \in Nat
    /\ GenMax \in Nat \ {0}
    /\ MaxReuse \in Nat
    /\ Cycles \subseteq Nat \ {0}
    /\ IsFiniteSet(ReaderPins \cup OutputPins)
    /\ ReaderPins \cap OutputPins = {}
    /\ Fds \subseteq Nat

Slots == 0 .. Capacity - 1
Kinds == {"reader", "writer"}
Objects == {"reader", "writer", "body", "response"}
Pins == ReaderPins \cup OutputPins
NoEvent == "none"
NoFd == -1

\* Who may close a descriptor: nobody, the thread that accepted it, or a slot.
Unowned == -1
WithCaller == -2
NoHandle == [slot |-> -1, generation |-> 0, reuse |-> 0]

\* A handle is (generation << 32) | (slot + 1), and zero is no handle.  The
\* history field reuse tells registrations of one slot apart; no check reads it.
Handles == [slot : Slots, generation : 1 .. GenMax, reuse : Nat]

\* The reader pin guards connection->http_reader, the output pin http_writer.
Kind(p) == IF p \in ReaderPins THEN "reader" ELSE "writer"

VARIABLES
    initialized,    \* registry->initialized
    active,         \* per slot: entry->active
    generation,     \* per slot: entry->generation, 0 before its first use
    identity,       \* per slot: the token triple stored by ck_connection_init
    lifecycle,      \* per slot: [state, event, cycle]
    socketFd,       \* per slot: connection->socket_fd
    objects,        \* per slot: the heap objects its pointers keep allocated
    users,          \* per kind and slot: reader_users, output_users
    pin,            \* per pin struct: the handle it holds, or NoHandle
    fdOwner,        \* per descriptor: Unowned, WithCaller or the owning slot
    reuse,          \* history, per slot: how often its generation advanced
    issued,         \* history: every handle that register returned
    claims          \* history: [slot, reuse, event] told CLAIMED

vars == <<initialized, active, generation, identity, lifecycle, socketFd,
          objects, users, pin, fdOwner, reuse, issued, claims>>

OpenWord == [state |-> "OPEN", event |-> NoEvent, cycle |-> 0]

\* ck_connection_registry_init after memset: no slot was ever used.
Init ==
    /\ initialized = TRUE
    /\ active = [s \in Slots |-> FALSE]
    /\ generation = [s \in Slots |-> 0]
    /\ identity \in [Slots -> Identities]
    /\ lifecycle = [s \in Slots |-> OpenWord]
    /\ socketFd = [s \in Slots |-> NoFd]
    /\ objects = [s \in Slots |-> {}]
    /\ users = [k \in Kinds |-> [s \in Slots |-> 0]]
    /\ pin = [p \in Pins |-> NoHandle]
    /\ fdOwner = [f \in Fds |-> Unowned]
    /\ reuse = [s \in Slots |-> 0]
    /\ issued = {}
    /\ claims = {}

-------------------------------------------------------------------------------
\* ck_connection_registry_find: the slot is in use under this generation.
Found(h) == active[h.slot] /\ generation[h.slot] = h.generation

\* ck_connection_validate on the found entry.
Validated(h, id) == identity[h.slot] = id

\* A slip: only the reader's pins are looked at.
UnpinnedReader(s) == users["reader"][s] = 0

Unpinned(s) == \A k \in Kinds : users[k][s] = 0

\* A slip: the generation is set once and never advanced.
NextGenerationOnce(g) == 1

\* The generation a slot gets when it is taken again; zero is skipped.
NextGeneration(g) == IF g = GenMax THEN 1 ELSE g + 1

\* The loop of ck_connection_registry_register picks the first unused slot.
FirstFree(s) == ~active[s] /\ \A r \in Slots : r < s => active[r]

\* What register does to the slot before ck_connection_init decides.
TakeSlot(s) ==
    /\ initialized
    /\ FirstFree(s)
    /\ reuse[s] < MaxReuse
    /\ generation' = [generation EXCEPT ![s] = NextGeneration(@)]
    /\ reuse' = [reuse EXCEPT ![s] = @ + 1]
    /\ users' = [k \in Kinds |-> [users[k] EXCEPT ![s] = 0]]
    /\ UNCHANGED <<initialized, pin, fdOwner, claims>>

Register(s, id) ==
    /\ TakeSlot(s)
    /\ active' = [active EXCEPT ![s] = TRUE]
    /\ identity' = [identity EXCEPT ![s] = id]
    /\ lifecycle' = [lifecycle EXCEPT ![s] = OpenWord]
    /\ socketFd' = [socketFd EXCEPT ![s] = NoFd]
    /\ objects' = [objects EXCEPT ![s] = Objects]
    /\ issued' = issued \cup {[slot |-> s, generation |-> generation'[s],
                               reuse |-> reuse'[s]]}

\* An allocation of ck_connection_init fails.  The allocations before it are
\* released, except that a failed response leaves the body queue allocated.
RegisterFails(s, failed) ==
    /\ TakeSlot(s)
    /\ objects' = [objects EXCEPT ![s] = IF failed = "response" THEN {"body"} ELSE {}]
    /\ UNCHANGED <<active, identity, lifecycle, socketFd, issued>>

\* accept gives a thread a descriptor; the kernel reuses closed numbers.
AcceptFd(f) ==
    /\ fdOwner[f] = Unowned
    /\ fdOwner' = [fdOwner EXCEPT ![f] = WithCaller]
    /\ UNCHANGED <<initialized, active, generation, identity, lifecycle, socketFd,
                   objects, users, pin, reuse, issued, claims>>

\* ck_connection_registry_attach_socket of a descriptor the caller owns.
AttachSocket(h, id, f) ==
    /\ initialized
    /\ Found(h) /\ Validated(h, id)
    /\ fdOwner[f] = WithCaller
    /\ lifecycle[h.slot].state = "OPEN"
    /\ socketFd[h.slot] = NoFd
    /\ socketFd' = [socketFd EXCEPT ![h.slot] = f]
    /\ fdOwner' = [fdOwner EXCEPT ![f] = h.slot]
    /\ UNCHANGED <<initialized, active, generation, identity, lifecycle, objects,
                   users, pin, reuse, issued, claims>>

StartAsyncCycle(h, id, cycle) ==
    /\ initialized
    /\ Found(h) /\ Validated(h, id)
    /\ lifecycle[h.slot] = OpenWord
    /\ lifecycle' = [lifecycle EXCEPT ![h.slot] =
                        [state |-> "ASYNC_WAIT", event |-> NoEvent, cycle |-> cycle]]
    /\ UNCHANGED <<initialized, active, generation, identity, socketFd, objects,
                   users, pin, fdOwner, reuse, issued, claims>>

\* ck_connection_try_terminal that is told CLAIMED.
Claim(s, event) ==
    /\ lifecycle[s].state \in {"OPEN", "ASYNC_WAIT"}
    /\ lifecycle' = [lifecycle EXCEPT ![s] =
                        [state |-> "CLOSING", event |-> event, cycle |-> @.cycle]]
    /\ claims' = claims \cup {[slot |-> s, reuse |-> reuse[s], event |-> event]}
    /\ UNCHANGED <<initialized, active, generation, identity, socketFd, objects,
                   users, pin, fdOwner, reuse, issued>>

\* Through the registry the caller must name the current async cycle.
TryTerminal(h, id, cycle, event) ==
    /\ initialized
    /\ Found(h) /\ Validated(h, id)
    /\ lifecycle[h.slot].cycle = cycle
    /\ Claim(h.slot, event)

Acquire(p, h, id) ==
    /\ initialized
    /\ pin[p] = NoHandle
    /\ Found(h) /\ Validated(h, id)
    /\ lifecycle[h.slot].state # "CLOSED"
    /\ Kind(p) \in objects[h.slot]
    /\ users' = [users EXCEPT ![Kind(p)][h.slot] = @ + 1]
    /\ pin' = [pin EXCEPT ![p] = [h EXCEPT !.reuse = reuse[h.slot]]]
    /\ UNCHANGED <<initialized, active, generation, identity, lifecycle, socketFd,
                   objects, fdOwner, reuse, issued, claims>>

\* The checks of reader_release and output_release on a held pin.
Releasable(p) ==
    /\ initialized
    /\ pin[p] # NoHandle
    /\ Found(pin[p])
    /\ Kind(p) \in objects[pin[p].slot]
    /\ users[Kind(p)][pin[p].slot] # 0

Release(p) ==
    /\ Releasable(p)
    /\ users' = [users EXCEPT ![Kind(p)][pin[p].slot] = @ - 1]
    /\ pin' = [pin EXCEPT ![p] = NoHandle]
    /\ UNCHANGED <<initialized, active, generation, identity, lifecycle, socketFd,
                   objects, fdOwner, reuse, issued, claims>>

ReaderAcquire(p, h, id) == p \in ReaderPins /\ Acquire(p, h, id)
ReaderRelease(p) == p \in ReaderPins /\ Release(p)
OutputAcquire(p, h, id) == p \in OutputPins /\ Acquire(p, h, id)
OutputRelease(p) == p \in OutputPins /\ Release(p)

\* A slip: the descriptor is closed and stays in the connection.
CloseKeepsFd(h, id) ==
    /\ initialized
    /\ Found(h) /\ Validated(h, id)
    /\ Unpinned(h.slot)
    /\ lifecycle[h.slot].state = "CLOSING"
    /\ lifecycle' = [lifecycle EXCEPT ![h.slot].state = "CLOSED"]
    /\ fdOwner' = [f \in Fds |-> IF f = socketFd[h.slot] THEN Unowned ELSE fdOwner[f]]
    /\ objects' = [objects EXCEPT ![h.slot] = {}]
    /\ UNCHANGED <<initialized, active, generation, identity, socketFd, users, pin, reuse,
                   issued, claims>>

\* ck_connection_registry_close: refused while pinned; the winner closes the
\* descriptor and frees the heap objects.
Close(h, id) ==
    /\ initialized
    /\ Found(h) /\ Validated(h, id)
    /\ Unpinned(h.slot)
    /\ lifecycle[h.slot].state = "CLOSING"
    /\ lifecycle' = [lifecycle EXCEPT ![h.slot].state = "CLOSED"]
    /\ socketFd' = [socketFd EXCEPT ![h.slot] = NoFd]
    /\ fdOwner' = [f \in Fds |-> IF f = socketFd[h.slot] THEN Unowned ELSE fdOwner[f]]
    /\ objects' = [objects EXCEPT ![h.slot] = {}]
    /\ UNCHANGED <<initialized, active, generation, identity, users, pin, reuse,
                   issued, claims>>

Retire(h, id) ==
    /\ initialized
    /\ Found(h) /\ Validated(h, id)
    /\ Unpinned(h.slot)
    /\ lifecycle[h.slot].state = "CLOSED"
    /\ socketFd[h.slot] = NoFd
    /\ active' = [active EXCEPT ![h.slot] = FALSE]
    /\ UNCHANGED <<initialized, generation, identity, lifecycle, socketFd, objects,
                   users, pin, fdOwner, reuse, issued, claims>>

\* ck_connection_registry_destroy by the owner, when no call is in flight.
Destroy ==
    /\ initialized
    /\ \A s \in Slots : ~active[s]
    /\ initialized' = FALSE
    /\ UNCHANGED <<active, generation, identity, lifecycle, socketFd, objects,
                   users, pin, fdOwner, reuse, issued, claims>>

Next ==
    \/ \E s \in Slots, id \in Identities : Register(s, id)
    \/ \E s \in Slots, failed \in Objects : RegisterFails(s, failed)
    \/ \E f \in Fds : AcceptFd(f)
    \/ \E h \in issued, id \in Identities :
          \/ \E f \in Fds : AttachSocket(h, id, f)
          \/ \E cycle \in Cycles : StartAsyncCycle(h, id, cycle)
          \/ \E cycle \in Cycles, event \in Events : TryTerminal(h, id, cycle, event)
          \/ \E p \in ReaderPins : ReaderAcquire(p, h, id)
          \/ \E p \in OutputPins : OutputAcquire(p, h, id)
          \/ Close(h, id)
          \/ Retire(h, id)
    \/ \E p \in ReaderPins : ReaderRelease(p)
    \/ \E p \in OutputPins : OutputRelease(p)
    \/ Destroy

Spec == Init /\ [][Next]_vars

-------------------------------------------------------------------------------
Words == [state : {"OPEN", "ASYNC_WAIT", "CLOSING", "CLOSED"},
          event : Events \cup {NoEvent}, cycle : Nat]

TypeOK ==
    /\ initialized \in BOOLEAN
    /\ active \in [Slots -> BOOLEAN]
    /\ generation \in [Slots -> 0 .. GenMax]
    /\ identity \in [Slots -> Identities]
    /\ lifecycle \in [Slots -> Words]
    /\ socketFd \in [Slots -> Fds \cup {NoFd}]
    /\ objects \in [Slots -> SUBSET Objects]
    /\ users \in [Kinds -> [Slots -> Nat]]
    /\ pin \in [Pins -> Handles \cup {NoHandle}]
    /\ fdOwner \in [Fds -> Slots \cup {Unowned, WithCaller}]
    /\ reuse \in [Slots -> Nat]
    /\ issued \subseteq Handles
    /\ claims \subseteq [slot : Slots, reuse : Nat, event : Events]

\* An old handle never reaches the connection that took its slot over: when
\* ck_connection_registry_find accepts a handle, the slot still belongs to the
\* registration that issued it, unless the 32-bit generation went all the way
\* round in between.
StaleHandleMisses ==
    \A h \in issued :
        Found(h) => \/ reuse[h.slot] = h.reuse
                    \/ reuse[h.slot] - h.reuse >= GenMax

\* Between acquire and release the pinned connection is not closed, retired or
\* replaced and the object the pin borrows stays allocated, although the
\* holder does not have the mutex.
PinProtects ==
    \A p \in Pins : pin[p] # NoHandle =>
        /\ Found(pin[p])
        /\ reuse[pin[p].slot] = pin[p].reuse
        /\ lifecycle[pin[p].slot].state # "CLOSED"
        /\ Kind(p) \in objects[pin[p].slot]

Holders(k, s) == {p \in Pins : Kind(p) = k /\ pin[p] # NoHandle /\ pin[p].slot = s}

\* reader_users and output_users count the pins that are out, so a pin can
\* always be given back and close is refused exactly while one is out.
PinCount == \A k \in Kinds, s \in Slots : users[k][s] = Cardinality(Holders(k, s))

\* A descriptor belongs to one connection at most, a connection that holds it
\* is the one it was attached to, and a slot that is free holds none: no path
\* closes a number the kernel has handed out again, and none leaks.
DescriptorOwner ==
    /\ \A s \in Slots, f \in Fds : socketFd[s] = f <=> fdOwner[f] = s
    /\ \A s \in Slots : ~active[s] => socketFd[s] = NoFd

\* Per registration one caller at most was told CLAIMED, and as long as the
\* slot is not taken again its word carries that caller's event.
OneClaim ==
    \A c \in claims : c.reuse = reuse[c.slot] /\ active[c.slot] =>
        /\ lifecycle[c.slot].event = c.event
        /\ lifecycle[c.slot].state \in {"CLOSING", "CLOSED"}

\* A slot is taken only when nothing of its last connection is left: not in
\* use, no descriptor, no pin, and no reader or writer that a pin could name.
SlotTakenWhenIdle ==
    [][\A s \in Slots : reuse'[s] # reuse[s] =>
          /\ ~active[s] /\ socketFd[s] = NoFd /\ Unpinned(s)
          /\ objects[s] \cap Kinds = {}]_vars
===============================================================================

----------------------- MODULE ConnectionRegistryProofs -----------------------
(***************************************************************************)
(* Proofs, for every capacity, generation width and set of callers, of     *)
(* what ConnectionRegistry promises: old handles miss, pins protect, each  *)
(* descriptor has one owner, each registration one claim.                  *)
(***************************************************************************)
EXTENDS ConnectionRegistry, FiniteSetTheorems, TLAPS

\* The generation of a slot moves in step with its reuse count: since h was
\* issued it advanced once per reuse, and wrapped at most once in GenMax steps.
GenerationInStep ==
    \A h \in issued :
        LET d == reuse[h.slot] - h.reuse
        IN  /\ d >= 0
            /\ d < GenMax => \/ generation[h.slot] = h.generation + d
                             \/ generation[h.slot] = h.generation + d - GenMax

\* What a slot's pointers keep allocated when nobody may use them any more.
HeapOfSlot ==
    \A s \in Slots :
        /\ ~active[s] => objects[s] \cap Kinds = {}
        /\ active[s] /\ lifecycle[s].state = "CLOSED" => objects[s] = {}

ClaimsOfThePast == \A c \in claims : c.reuse <= reuse[c.slot]

Inv ==
    /\ TypeOK
    /\ GenerationInStep
    /\ PinProtects
    /\ PinCount
    /\ DescriptorOwner
    /\ HeapOfSlot
    /\ ClaimsOfThePast
    /\ OneClaim

-------------------------------------------------------------------------------
\* The generation of a slot that is taken is never zero.
LEMMA GenerationRange ==
    ASSUME NEW g \in 0 .. GenMax PROVE NextGeneration(g) \in 1 .. GenMax
BY RegistryAssumption DEF NextGeneration

\* Every action leaves each variable in its type.
LEMMA TypeStep == TypeOK /\ [Next]_vars => TypeOK'
<1> SUFFICES ASSUME TypeOK, [Next]_vars PROVE TypeOK'
    OBVIOUS
<1> USE RegistryAssumption DEF TypeOK, Handles, Words, Objects, Kinds, Pins, Kind,
        Found, Validated
<1>1. ASSUME NEW s \in Slots, NEW id \in Identities, Register(s, id) PROVE TypeOK'
  <2>1. NextGeneration(generation[s]) \in 1 .. GenMax
    BY GenerationRange
  <2>2. users' \in [Kinds -> [Slots -> Nat]]
    BY <1>1 DEF Register, TakeSlot
  <2>3. generation' \in [Slots -> 0 .. GenMax] /\ reuse' \in [Slots -> Nat]
    BY <1>1, <2>1 DEF Register, TakeSlot
  <2>4. issued' \subseteq Handles
    BY <1>1, <2>1, <2>3 DEF Register, TakeSlot
  <2>5. lifecycle' \in [Slots -> Words]
    BY <1>1 DEF Register, OpenWord
  <2> QED BY <1>1, <2>2, <2>3, <2>4, <2>5 DEF Register, TakeSlot
<1>2. ASSUME NEW s \in Slots, NEW failed \in Objects, RegisterFails(s, failed)
      PROVE TypeOK'
  <2>1. NextGeneration(generation[s]) \in 1 .. GenMax
    BY GenerationRange
  <2>2. users' \in [Kinds -> [Slots -> Nat]]
    BY <1>2 DEF RegisterFails, TakeSlot
  <2> QED BY <1>2, <2>1, <2>2 DEF RegisterFails, TakeSlot
<1>3. ASSUME NEW f \in Fds, AcceptFd(f) PROVE TypeOK'
  BY <1>3 DEF AcceptFd
<1>4. ASSUME NEW h \in issued, NEW id \in Identities, NEW f \in Fds,
             AttachSocket(h, id, f)
      PROVE TypeOK'
  BY <1>4 DEF AttachSocket
<1>5. ASSUME NEW h \in issued, NEW id \in Identities, NEW cycle \in Cycles,
             StartAsyncCycle(h, id, cycle)
      PROVE TypeOK'
  BY <1>5 DEF StartAsyncCycle
<1>6. ASSUME NEW h \in issued, NEW id \in Identities, NEW cycle \in Cycles,
             NEW event \in Events, TryTerminal(h, id, cycle, event)
      PROVE TypeOK'
  <2>1. lifecycle' \in [Slots -> Words]
    BY <1>6 DEF TryTerminal, Claim
  <2>2. claims' \subseteq [slot : Slots, reuse : Nat, event : Events]
    BY <1>6 DEF TryTerminal, Claim
  <2> QED BY <1>6, <2>1, <2>2 DEF TryTerminal, Claim
<1>7. ASSUME NEW h \in issued, NEW id \in Identities, NEW p \in Pins, Acquire(p, h, id)
      PROVE TypeOK'
  <2>1. [h EXCEPT !.reuse = reuse[h.slot]] \in Handles
    OBVIOUS
  <2>2. pin' \in [Pins -> Handles \cup {NoHandle}]
    BY <1>7, <2>1 DEF Acquire
  <2>3. users' \in [Kinds -> [Slots -> Nat]]
    BY <1>7 DEF Acquire
  <2> QED BY <1>7, <2>2, <2>3 DEF Acquire
<1>8. ASSUME NEW p \in Pins, Release(p) PROVE TypeOK'
  <2>1. pin[p] \in Handles
    BY <1>8 DEF Release, Releasable
  <2>2. users[Kind(p)][pin[p].slot] - 1 \in Nat
    BY <1>8, <2>1 DEF Release, Releasable
  <2> QED BY <1>8, <2>1, <2>2 DEF Release
<1>9. ASSUME NEW h \in issued, NEW id \in Identities, Close(h, id) PROVE TypeOK'
  BY <1>9, SMTT(40) DEF Close
<1>10. ASSUME NEW h \in issued, NEW id \in Identities, Retire(h, id) PROVE TypeOK'
  BY <1>10 DEF Retire
<1>11. CASE Destroy
  BY <1>11 DEF Destroy
<1>12. CASE UNCHANGED vars
  BY <1>12 DEF vars
<1> QED
  BY <1>1, <1>2, <1>3, <1>4, <1>5, <1>6, <1>7, <1>8, <1>9, <1>10, <1>11, <1>12, ZenonT(60)
  DEF Next, ReaderAcquire, OutputAcquire, ReaderRelease, OutputRelease

\* Only register touches generations and hands out handles.
LEMMA OthersKeepGenerations ==
    ASSUME [Next]_vars
    PROVE  \/ \E s \in Slots, id \in Identities : Register(s, id)
           \/ \E s \in Slots, failed \in Objects : RegisterFails(s, failed)
           \/ UNCHANGED <<issued, reuse, generation>>
<1> DEFINE Kept == UNCHANGED <<issued, reuse, generation>>
<1>1. ASSUME NEW f \in Fds, AcceptFd(f) PROVE Kept
  BY <1>1 DEF AcceptFd
<1>2. ASSUME NEW h \in issued, NEW id \in Identities,
             \/ \E f \in Fds : AttachSocket(h, id, f)
             \/ \E cycle \in Cycles : StartAsyncCycle(h, id, cycle)
             \/ \E cycle \in Cycles, event \in Events : TryTerminal(h, id, cycle, event)
      PROVE Kept
  BY <1>2 DEF AttachSocket, StartAsyncCycle, TryTerminal, Claim
<1>3. ASSUME NEW h \in issued, NEW id \in Identities,
             \/ \E p \in ReaderPins : ReaderAcquire(p, h, id)
             \/ \E p \in OutputPins : OutputAcquire(p, h, id)
      PROVE Kept
  BY <1>3 DEF ReaderAcquire, OutputAcquire, Acquire
<1>4. ASSUME NEW h \in issued, NEW id \in Identities, Close(h, id) \/ Retire(h, id)
      PROVE Kept
  BY <1>4 DEF Close, Retire
<1>5. ASSUME NEW p, Release(p) PROVE Kept
  BY <1>5 DEF Release
<1>6. ASSUME Destroy \/ UNCHANGED vars PROVE Kept
  BY <1>6 DEF Destroy, vars
<1> HIDE DEF Kept
<1>7. \/ \E s \in Slots, id \in Identities : Register(s, id)
      \/ \E s \in Slots, failed \in Objects : RegisterFails(s, failed)
      \/ Kept
  BY <1>1, <1>2, <1>3, <1>4, <1>5, <1>6 DEF Next, ReaderRelease, OutputRelease
<1> QED BY <1>7 DEF Kept

\* Taking a slot advances its generation and its reuse count together; no
\* other action touches either.
LEMMA GenerationStep == TypeOK /\ GenerationInStep /\ [Next]_vars => GenerationInStep'
<1> SUFFICES ASSUME TypeOK, GenerationInStep, [Next]_vars PROVE GenerationInStep'
    OBVIOUS
<1>1. CASE UNCHANGED <<issued, reuse, generation>>
  BY <1>1 DEF GenerationInStep
<1>2. ASSUME NEW s \in Slots, TakeSlot(s), NEW h \in issued
      PROVE LET d == reuse'[h.slot] - h.reuse
            IN  /\ d >= 0
                /\ d < GenMax => \/ generation'[h.slot] = h.generation + d
                                 \/ generation'[h.slot] = h.generation + d - GenMax
  <2>1. /\ h.slot \in Slots /\ h.generation \in 1 .. GenMax /\ h.reuse \in Nat
        /\ reuse[h.slot] \in Nat /\ generation[h.slot] \in 0 .. GenMax
    BY DEF TypeOK, Handles
  <2>2. CASE h.slot # s
    BY <1>2, <2>1, <2>2 DEF TakeSlot, GenerationInStep, TypeOK
  <2>3. CASE h.slot = s
    <3>1. /\ reuse'[s] = reuse[s] + 1
          /\ generation'[s] = NextGeneration(generation[s])
      BY <1>2 DEF TakeSlot, TypeOK
    <3>2. /\ reuse[s] - h.reuse >= 0
          /\ reuse[s] - h.reuse < GenMax =>
                \/ generation[s] = h.generation + (reuse[s] - h.reuse)
                \/ generation[s] = h.generation + (reuse[s] - h.reuse) - GenMax
      BY <2>3 DEF GenerationInStep
    <3> QED BY <2>1, <2>3, <3>1, <3>2, RegistryAssumption DEF NextGeneration
  <2> QED BY <2>2, <2>3
<1>3. ASSUME NEW s \in Slots, NEW failed \in Objects, RegisterFails(s, failed)
      PROVE GenerationInStep'
  BY <1>2, <1>3 DEF RegisterFails, GenerationInStep
<1>4. ASSUME NEW s \in Slots, NEW id \in Identities, Register(s, id)
      PROVE GenerationInStep'
  <2>. DEFINE new == [slot |-> s, generation |-> generation'[s], reuse |-> reuse'[s]]
  <2>1. TakeSlot(s) /\ issued' = issued \cup {new}
    BY <1>4 DEF Register
  <2>2. generation'[s] \in 1 .. GenMax /\ reuse'[s] \in Nat
    BY <2>1, GenerationRange DEF TakeSlot, TypeOK
  <2>3. /\ reuse'[new.slot] - new.reuse = 0
        /\ generation'[new.slot] = new.generation + 0
    BY <2>2
  <2> HIDE DEF new
  <2>4. GenMax > 0
    BY RegistryAssumption
  <2> QED BY <1>2, <2>1, <2>3, <2>4 DEF GenerationInStep
<1> QED
  BY <1>1, <1>3, <1>4, OthersKeepGenerations

\* An old handle is accepted only by its own registration, or a whole turn of
\* the generation counter later.
LEMMA InStepMisses == TypeOK /\ GenerationInStep => StaleHandleMisses
<1> SUFFICES ASSUME TypeOK, GenerationInStep, NEW h \in issued, Found(h)
             PROVE \/ reuse[h.slot] = h.reuse
                   \/ reuse[h.slot] - h.reuse >= GenMax
    BY DEF StaleHandleMisses
<1>1. /\ h.slot \in Slots /\ h.generation \in 1 .. GenMax /\ h.reuse \in Nat
      /\ reuse[h.slot] \in Nat
  BY DEF TypeOK, Handles
<1> QED BY <1>1, RegistryAssumption DEF GenerationInStep, Found

-------------------------------------------------------------------------------
\* The threads that hold a pin of one slot are finitely many, so they can be counted.
LEMMA HoldersFinite == ASSUME NEW k, NEW s PROVE IsFiniteSet(Holders(k, s))
BY RegistryAssumption, FS_Subset DEF Holders, Pins

\* When the users counters of a slot are zero no pin on it is out.
LEMMA NobodyHolds ==
    ASSUME TypeOK, PinCount, NEW s \in Slots, Unpinned(s),
           NEW p \in Pins, pin[p] # NoHandle
    PROVE  pin[p].slot # s
<1> SUFFICES ASSUME pin[p].slot = s PROVE FALSE
    OBVIOUS
<1>1. Kind(p) \in Kinds
  BY DEF Kind, Kinds
<1>2. Cardinality(Holders(Kind(p), s)) = 0
  BY <1>1 DEF PinCount, Unpinned
<1>3. p \in Holders(Kind(p), s)
  BY DEF Holders
<1> QED BY <1>2, <1>3, HoldersFinite, FS_EmptySet

\* Acquire and release move one pin and one counter by one; a slot is taken
\* with its counters reset when no pin on it is out.
LEMMA PinCountStep ==
    TypeOK /\ PinProtects /\ PinCount /\ [Next]_vars => PinCount'
<1> SUFFICES ASSUME TypeOK, PinProtects, PinCount, [Next]_vars PROVE PinCount'
    OBVIOUS
<1>1. ASSUME NEW s \in Slots, TakeSlot(s), ~active[s] PROVE PinCount'
  <2> SUFFICES ASSUME NEW k \in Kinds, NEW r \in Slots
               PROVE  users'[k][r] = Cardinality(Holders(k, r)')
      BY DEF PinCount
  <2>1. Holders(k, r)' = Holders(k, r)
    BY <1>1 DEF TakeSlot, Holders
  <2>2. CASE r # s
    BY <1>1, <2>1, <2>2 DEF TakeSlot, PinCount, TypeOK
  <2>3. CASE r = s
    <3>1. Holders(k, r) = {}
      BY <1>1, <2>3 DEF Holders, PinProtects, Found
    <3>2. users'[k][r] = 0
      BY <1>1, <2>3 DEF TakeSlot, TypeOK
    <3> QED BY <2>1, <3>1, <3>2, FS_EmptySet
  <2> QED BY <2>2, <2>3
<1>2. ASSUME NEW h \in issued, NEW id \in Identities, NEW p \in Pins, Acquire(p, h, id)
      PROVE PinCount'
  <2> SUFFICES ASSUME NEW k \in Kinds, NEW r \in Slots
               PROVE  users'[k][r] = Cardinality(Holders(k, r)')
      BY DEF PinCount
  <2>1. /\ pin' = [pin EXCEPT ![p] = [h EXCEPT !.reuse = reuse[h.slot]]]
        /\ users' = [users EXCEPT ![Kind(p)][h.slot] = @ + 1]
        /\ pin[p] = NoHandle /\ h.slot \in Slots /\ Kind(p) \in Kinds
        /\ h.slot # -1
    BY <1>2 DEF Acquire, TypeOK, Handles, Kind, Kinds, Slots
  <2>2. pin'[p] # NoHandle /\ pin'[p].slot = h.slot
    BY <2>1 DEF TypeOK, NoHandle, Handles
  <2>3. \A q \in Pins : q # p => pin'[q] = pin[q]
    BY <2>1 DEF TypeOK
  <2>4. CASE k = Kind(p) /\ r = h.slot
    <3>1. Holders(k, r)' = Holders(k, r) \cup {p}
      BY <2>2, <2>3, <2>4 DEF Holders
    <3>2. p \notin Holders(k, r)
      BY <2>1 DEF Holders
    <3>3. Cardinality(Holders(k, r)') = Cardinality(Holders(k, r)) + 1
      BY <3>1, <3>2, HoldersFinite, FS_AddElement
    <3> QED BY <2>1, <2>4, <3>3 DEF PinCount, TypeOK
  <2>5. CASE ~(k = Kind(p) /\ r = h.slot)
    <3>1. Holders(k, r)' = Holders(k, r)
      BY <2>1, <2>2, <2>3, <2>5 DEF Holders
    <3>2. users'[k][r] = users[k][r]
      BY <2>1, <2>5 DEF TypeOK
    <3> QED BY <3>1, <3>2 DEF PinCount
  <2> QED BY <2>4, <2>5
<1>3. ASSUME NEW p \in Pins, Release(p) PROVE PinCount'
  <2> SUFFICES ASSUME NEW k \in Kinds, NEW r \in Slots
               PROVE  users'[k][r] = Cardinality(Holders(k, r)')
      BY DEF PinCount
  <2>1. /\ pin' = [pin EXCEPT ![p] = NoHandle]
        /\ users' = [users EXCEPT ![Kind(p)][pin[p].slot] = @ - 1]
        /\ pin[p] # NoHandle /\ pin[p].slot \in Slots /\ Kind(p) \in Kinds
    BY <1>3 DEF Release, Releasable, TypeOK, Handles, Kind, Kinds
  <2>2. pin'[p] = NoHandle /\ \A q \in Pins : q # p => pin'[q] = pin[q]
    BY <2>1 DEF TypeOK
  <2>3. CASE k = Kind(p) /\ r = pin[p].slot
    <3>1. Holders(k, r)' = Holders(k, r) \ {p}
      BY <2>2 DEF Holders
    <3>2. p \in Holders(k, r)
      BY <2>1, <2>3 DEF Holders
    <3>3. Cardinality(Holders(k, r)') = Cardinality(Holders(k, r)) - 1
      BY <3>1, <3>2, HoldersFinite, FS_RemoveElement
    <3> QED BY <2>1, <2>3, <3>3 DEF PinCount, TypeOK
  <2>4. CASE ~(k = Kind(p) /\ r = pin[p].slot)
    <3>1. Holders(k, r)' = Holders(k, r)
      BY <2>1, <2>2, <2>4 DEF Holders
    <3>2. users'[k][r] = users[k][r]
      BY <2>1, <2>4 DEF TypeOK
    <3> QED BY <3>1, <3>2 DEF PinCount
  <2> QED BY <2>3, <2>4
<1>4. CASE UNCHANGED <<pin, users>>
  BY <1>4 DEF PinCount, Holders
<1>5. ASSUME NEW h \in issued, NEW id \in Identities,
             \/ \E f \in Fds : AttachSocket(h, id, f)
             \/ \E cycle \in Cycles : StartAsyncCycle(h, id, cycle)
             \/ \E cycle \in Cycles, event \in Events : TryTerminal(h, id, cycle, event)
             \/ Close(h, id) \/ Retire(h, id)
      PROVE PinCount'
  BY <1>4, <1>5 DEF AttachSocket, StartAsyncCycle, TryTerminal, Claim, Close, Retire
<1>6. ASSUME (\E f \in Fds : AcceptFd(f)) \/ Destroy \/ UNCHANGED vars PROVE PinCount'
  BY <1>4, <1>6 DEF AcceptFd, Destroy, vars
<1>7. ASSUME NEW s \in Slots,
             \/ \E id \in Identities : Register(s, id)
             \/ \E failed \in Objects : RegisterFails(s, failed)
      PROVE PinCount'
  BY <1>1, <1>7 DEF Register, RegisterFails, TakeSlot, FirstFree
<1> QED
  BY <1>2, <1>3, <1>5, <1>6, <1>7
  DEF Next, ReaderAcquire, OutputAcquire, ReaderRelease, OutputRelease, Pins

\* Nothing takes a connection away under a pin: close and retire are refused,
\* and register only takes slots that are not in use.
LEMMA PinProtectsStep ==
    TypeOK /\ PinProtects /\ PinCount /\ [Next]_vars => PinProtects'
<1> SUFFICES ASSUME TypeOK, PinProtects, PinCount, [Next]_vars PROVE PinProtects'
    OBVIOUS
<1> DEFINE Safe(q) == /\ Found(pin[q])
                      /\ reuse[pin[q].slot] = pin[q].reuse
                      /\ lifecycle[pin[q].slot].state # "CLOSED"
                      /\ Kind(q) \in objects[pin[q].slot]
<1>0. /\ active \in [Slots -> BOOLEAN] /\ generation \in [Slots -> 0 .. GenMax]
      /\ reuse \in [Slots -> Nat] /\ lifecycle \in [Slots -> Words]
      /\ objects \in [Slots -> SUBSET Objects] /\ pin \in [Pins -> Handles \cup {NoHandle}]
      /\ issued \subseteq Handles
  BY DEF TypeOK
<1>1. \A q \in Pins : pin[q] # NoHandle => pin[q].slot \in Slots /\ Safe(q)
  BY <1>0 DEF PinProtects, Handles
<1>2. ASSUME NEW s \in Slots,
             \/ \E id \in Identities : Register(s, id)
             \/ \E failed \in Objects : RegisterFails(s, failed)
      PROVE PinProtects'
  <2>1. ASSUME NEW q \in Pins, pin[q] # NoHandle PROVE pin[q].slot # s
    BY <1>1, <1>2, <2>1 DEF Register, RegisterFails, TakeSlot, FirstFree, Found
  <2>2. /\ pin' = pin
        /\ \A r \in Slots : r # s =>
              /\ active'[r] = active[r] /\ generation'[r] = generation[r]
              /\ reuse'[r] = reuse[r] /\ lifecycle'[r] = lifecycle[r]
              /\ objects'[r] = objects[r]
    BY <1>0, <1>2 DEF Register, RegisterFails, TakeSlot
  <2> QED BY <1>1, <2>1, <2>2 DEF PinProtects, Found
<1>3. ASSUME NEW h \in issued, NEW id \in Identities, Close(h, id) \/ Retire(h, id)
      PROVE PinProtects'
  <2>1. h.slot \in Slots /\ Unpinned(h.slot)
    BY <1>0, <1>3 DEF Close, Retire, Handles
  <2>2. ASSUME NEW q \in Pins, pin[q] # NoHandle PROVE pin[q].slot # h.slot
    BY <2>1, <2>2, NobodyHolds
  <2>3. /\ pin' = pin /\ generation' = generation /\ reuse' = reuse
        /\ \A r \in Slots : r # h.slot =>
              /\ active'[r] = active[r] /\ lifecycle'[r] = lifecycle[r]
              /\ objects'[r] = objects[r]
    BY <1>0, <1>3, <2>1 DEF Close, Retire
  <2> QED BY <1>1, <2>2, <2>3 DEF PinProtects, Found
<1>4. ASSUME NEW h \in issued, NEW id \in Identities,
             \/ \E cycle \in Cycles : StartAsyncCycle(h, id, cycle)
             \/ \E cycle \in Cycles, event \in Events : TryTerminal(h, id, cycle, event)
      PROVE PinProtects'
  <2>1. h.slot \in Slots
    BY <1>0 DEF Handles
  <2> DEFINE Moved == /\ UNCHANGED <<active, generation, reuse, objects, pin>>
                      /\ lifecycle'[h.slot].state # "CLOSED"
                      /\ \A r \in Slots : r # h.slot => lifecycle'[r] = lifecycle[r]
  <2>2. Moved
    <3>1. ASSUME NEW cycle \in Cycles, StartAsyncCycle(h, id, cycle) PROVE Moved
      BY <1>0, <2>1, <3>1 DEF StartAsyncCycle
    <3>2. ASSUME NEW cycle \in Cycles, NEW event \in Events,
                 TryTerminal(h, id, cycle, event)
          PROVE Moved
      BY <1>0, <2>1, <3>2 DEF TryTerminal, Claim
    <3> QED BY <1>4, <3>1, <3>2
  <2> QED BY <1>1, <2>2 DEF PinProtects, Found
<1>5. ASSUME NEW h \in issued, NEW id \in Identities, NEW p \in Pins, Acquire(p, h, id)
      PROVE PinProtects'
  <2>1. /\ UNCHANGED <<active, generation, reuse, objects, lifecycle>>
        /\ h \in Handles /\ Found(h) /\ lifecycle[h.slot].state # "CLOSED"
        /\ Kind(p) \in objects[h.slot]
        /\ pin' = [pin EXCEPT ![p] = [h EXCEPT !.reuse = reuse[h.slot]]]
    BY <1>0, <1>5 DEF Acquire
  <2>2. /\ pin'[p].slot = h.slot /\ pin'[p].generation = h.generation
        /\ pin'[p].reuse = reuse[h.slot]
        /\ \A q \in Pins : q # p => pin'[q] = pin[q]
    BY <1>0, <2>1 DEF Handles
  <2> QED BY <1>1, <2>1, <2>2 DEF PinProtects, Found
<1>6. ASSUME NEW p \in Pins, Release(p) PROVE PinProtects'
  <2>1. /\ UNCHANGED <<active, generation, reuse, objects, lifecycle>>
        /\ pin'[p] = NoHandle /\ \A q \in Pins : q # p => pin'[q] = pin[q]
    BY <1>0, <1>6 DEF Release
  <2> QED BY <1>1, <2>1 DEF PinProtects, Found
<1>7. CASE UNCHANGED <<active, generation, reuse, objects, lifecycle, pin>>
  BY <1>7 DEF PinProtects, Found
<1>8. ASSUME NEW h \in issued, NEW id \in Identities, NEW f \in Fds,
             AttachSocket(h, id, f)
      PROVE PinProtects'
  BY <1>7, <1>8 DEF AttachSocket
<1>9. ASSUME (\E f \in Fds : AcceptFd(f)) \/ Destroy \/ UNCHANGED vars
      PROVE PinProtects'
  BY <1>7, <1>9 DEF AcceptFd, Destroy, vars
<1> QED
  BY <1>2, <1>3, <1>4, <1>5, <1>6, <1>8, <1>9
  DEF Next, ReaderAcquire, OutputAcquire, ReaderRelease, OutputRelease, Pins

-------------------------------------------------------------------------------
\* attach_socket gives a slot a descriptor no other slot has, and the close
\* that takes it out of the slot is the one that closes it.
LEMMA DescriptorStep ==
    TypeOK /\ DescriptorOwner /\ [Next]_vars => DescriptorOwner'
<1> SUFFICES ASSUME TypeOK, DescriptorOwner, [Next]_vars PROVE DescriptorOwner'
    OBVIOUS
<1>1. /\ NoFd \notin Fds /\ Unowned \notin Slots /\ WithCaller \notin Slots
      /\ \A h \in issued : h.slot \in Slots
      /\ active \in [Slots -> BOOLEAN]
      /\ socketFd \in [Slots -> Fds \cup {NoFd}]
      /\ fdOwner \in [Fds -> Slots \cup {Unowned, WithCaller}]
  BY RegistryAssumption DEF NoFd, Unowned, WithCaller, Slots, TypeOK, Handles
<1>2. ASSUME NEW s \in Slots,
             \/ \E id \in Identities : Register(s, id)
             \/ \E failed \in Objects : RegisterFails(s, failed)
      PROVE DescriptorOwner'
  <2>1. ~active[s] /\ fdOwner' = fdOwner /\ \A r \in Slots : r # s => active'[r] = active[r]
    BY <1>1, <1>2 DEF Register, RegisterFails, TakeSlot, FirstFree
  <2>2. socketFd' = socketFd
    BY <1>1, <1>2, <2>1 DEF Register, RegisterFails, DescriptorOwner
  <2> QED BY <2>1, <2>2 DEF DescriptorOwner
<1>3. ASSUME NEW f \in Fds, AcceptFd(f) PROVE DescriptorOwner'
  BY <1>1, <1>3 DEF AcceptFd, DescriptorOwner
<1>4. ASSUME NEW h \in issued, NEW id \in Identities, NEW f \in Fds,
             AttachSocket(h, id, f)
      PROVE DescriptorOwner'
  <2>1. /\ socketFd' = [socketFd EXCEPT ![h.slot] = f]
        /\ fdOwner' = [fdOwner EXCEPT ![f] = h.slot]
        /\ active' = active /\ active[h.slot]
        /\ socketFd[h.slot] = NoFd /\ fdOwner[f] = WithCaller
    BY <1>4 DEF AttachSocket, Found
  <2> QED BY <1>1, <2>1 DEF DescriptorOwner
<1>5. ASSUME NEW h \in issued, NEW id \in Identities, Close(h, id) PROVE DescriptorOwner'
  <2>1. /\ socketFd' = [socketFd EXCEPT ![h.slot] = NoFd]
        /\ fdOwner' = [f \in Fds |-> IF f = socketFd[h.slot] THEN Unowned ELSE fdOwner[f]]
        /\ active' = active
    BY <1>5 DEF Close
  <2> QED BY <1>1, <2>1 DEF DescriptorOwner
<1>6. ASSUME NEW h \in issued, NEW id \in Identities, Retire(h, id) PROVE DescriptorOwner'
  <2>1. /\ active' = [active EXCEPT ![h.slot] = FALSE] /\ socketFd[h.slot] = NoFd
        /\ socketFd' = socketFd /\ fdOwner' = fdOwner
    BY <1>6 DEF Retire
  <2> QED BY <1>1, <2>1 DEF DescriptorOwner
<1>7. CASE UNCHANGED <<active, socketFd, fdOwner>>
  BY <1>7 DEF DescriptorOwner
<1>8. ASSUME NEW h \in issued, NEW id \in Identities,
             \/ \E cycle \in Cycles : StartAsyncCycle(h, id, cycle)
             \/ \E cycle \in Cycles, event \in Events : TryTerminal(h, id, cycle, event)
             \/ \E p \in Pins : Acquire(p, h, id)
      PROVE DescriptorOwner'
  BY <1>7, <1>8 DEF StartAsyncCycle, TryTerminal, Claim, Acquire
<1>9. ASSUME (\E p \in Pins : Release(p)) \/ Destroy \/ UNCHANGED vars
      PROVE DescriptorOwner'
  BY <1>7, <1>9 DEF Release, Destroy, vars
<1> QED
  BY <1>2, <1>3, <1>4, <1>5, <1>6, <1>8, <1>9
  DEF Next, ReaderAcquire, OutputAcquire, ReaderRelease, OutputRelease, Pins

\* Closing frees every heap object, and a failed registration leaves neither a
\* reader nor a writer behind.
LEMMA HeapStep == TypeOK /\ HeapOfSlot /\ [Next]_vars => HeapOfSlot'
<1> SUFFICES ASSUME TypeOK, HeapOfSlot, [Next]_vars PROVE HeapOfSlot'
    OBVIOUS
<1>1. \A h \in issued : h.slot \in Slots
  BY DEF TypeOK, Handles
<1>2. ASSUME NEW s \in Slots, NEW id \in Identities, Register(s, id) PROVE HeapOfSlot'
  BY <1>2 DEF Register, HeapOfSlot, TypeOK, OpenWord
<1>3. ASSUME NEW s \in Slots, NEW failed \in Objects, RegisterFails(s, failed)
      PROVE HeapOfSlot'
  BY <1>3 DEF RegisterFails, TakeSlot, FirstFree, HeapOfSlot, TypeOK, Kinds
<1>4. ASSUME NEW h \in issued, NEW id \in Identities, Close(h, id) PROVE HeapOfSlot'
  BY <1>1, <1>4 DEF Close, HeapOfSlot, TypeOK
<1>5. ASSUME NEW h \in issued, NEW id \in Identities, Retire(h, id) PROVE HeapOfSlot'
  BY <1>1, <1>5 DEF Retire, Found, HeapOfSlot, TypeOK
<1>6. ASSUME NEW h \in issued, NEW id \in Identities, NEW cycle \in Cycles,
             StartAsyncCycle(h, id, cycle)
      PROVE HeapOfSlot'
  BY <1>1, <1>6 DEF StartAsyncCycle, HeapOfSlot, TypeOK
<1>7. ASSUME NEW h \in issued, NEW id \in Identities, NEW cycle \in Cycles,
             NEW event \in Events, TryTerminal(h, id, cycle, event)
      PROVE HeapOfSlot'
  BY <1>1, <1>7 DEF TryTerminal, Claim, HeapOfSlot, TypeOK
<1>8. CASE UNCHANGED <<active, objects, lifecycle>>
  BY <1>8 DEF HeapOfSlot
<1>9. ASSUME NEW h \in issued, NEW id \in Identities,
             \/ \E f \in Fds : AttachSocket(h, id, f)
             \/ \E p \in Pins : Acquire(p, h, id)
      PROVE HeapOfSlot'
  BY <1>8, <1>9 DEF AttachSocket, Acquire
<1>10. ASSUME (\E f \in Fds : AcceptFd(f)) \/ (\E p \in Pins : Release(p)) \/ Destroy
              \/ UNCHANGED vars
       PROVE HeapOfSlot'
  BY <1>8, <1>10 DEF AcceptFd, Release, Destroy, vars
<1> QED
  BY <1>2, <1>3, <1>4, <1>5, <1>6, <1>7, <1>9, <1>10
  DEF Next, ReaderAcquire, OutputAcquire, ReaderRelease, OutputRelease, Pins

\* A claim needs an undecided word, and the word it writes is only replaced
\* when the slot is taken for a later registration.
LEMMA ClaimStep ==
    TypeOK /\ ClaimsOfThePast /\ OneClaim /\ [Next]_vars => (ClaimsOfThePast /\ OneClaim)'
<1> SUFFICES ASSUME TypeOK, ClaimsOfThePast, OneClaim, [Next]_vars
             PROVE  (ClaimsOfThePast /\ OneClaim)'
    OBVIOUS
<1> DEFINE Goal == (ClaimsOfThePast /\ OneClaim)'
<1>1. /\ \A h \in issued : h.slot \in Slots
      /\ \A c \in claims : c.slot \in Slots /\ c.reuse \in Nat
      /\ active \in [Slots -> BOOLEAN] /\ reuse \in [Slots -> Nat]
      /\ lifecycle \in [Slots -> Words]
  BY DEF TypeOK, Handles
<1>2. ASSUME NEW s \in Slots,
             \/ \E id \in Identities : Register(s, id)
             \/ \E failed \in Objects : RegisterFails(s, failed)
      PROVE Goal
  <2>1. /\ claims' = claims /\ reuse'[s] = reuse[s] + 1 /\ reuse[s] \in Nat
        /\ \A r \in Slots : r # s => /\ reuse'[r] = reuse[r] /\ active'[r] = active[r]
                                     /\ lifecycle'[r] = lifecycle[r]
    BY <1>1, <1>2 DEF Register, RegisterFails, TakeSlot
  <2> QED BY <1>1, <2>1 DEF ClaimsOfThePast, OneClaim
<1>3. ASSUME NEW h \in issued, NEW id \in Identities, NEW cycle \in Cycles,
             NEW event \in Events, TryTerminal(h, id, cycle, event)
      PROVE Goal
  <2> DEFINE new == [slot |-> h.slot, reuse |-> reuse[h.slot], event |-> event]
  <2>1. /\ active[h.slot] /\ lifecycle[h.slot].state \in {"OPEN", "ASYNC_WAIT"}
        /\ claims' = claims \cup {new} /\ UNCHANGED <<reuse, active>>
    BY <1>3 DEF TryTerminal, Claim, Found
  <2>2. /\ lifecycle'[h.slot].state = "CLOSING" /\ lifecycle'[h.slot].event = event
        /\ \A r \in Slots : r # h.slot => lifecycle'[r] = lifecycle[r]
    BY <1>1, <1>3 DEF TryTerminal, Claim
  <2>3. \A c \in claims : c.reuse = reuse[c.slot] /\ active[c.slot] => c.slot # h.slot
    BY <2>1 DEF OneClaim
  <2>4. new.slot = h.slot /\ new.reuse = reuse[h.slot] /\ new.event = event
        /\ reuse[h.slot] \in Nat
    BY <1>1
  <2> HIDE DEF new
  <2>5. ClaimsOfThePast'
    BY <1>1, <2>1, <2>4 DEF ClaimsOfThePast
  <2>6. OneClaim'
    BY <1>1, <2>1, <2>2, <2>3, <2>4 DEF OneClaim
  <2> QED BY <2>5, <2>6
<1>4. ASSUME NEW h \in issued, NEW id \in Identities, NEW cycle \in Cycles,
             StartAsyncCycle(h, id, cycle)
      PROVE Goal
  <2>1. /\ active[h.slot] /\ lifecycle[h.slot].state = "OPEN"
        /\ UNCHANGED <<reuse, active, claims>>
    BY <1>4 DEF StartAsyncCycle, Found, OpenWord
  <2>2. \A r \in Slots : r # h.slot => lifecycle'[r] = lifecycle[r]
    BY <1>1, <1>4 DEF StartAsyncCycle
  <2> QED BY <1>1, <2>1, <2>2 DEF ClaimsOfThePast, OneClaim
<1>5. ASSUME NEW h \in issued, NEW id \in Identities, Close(h, id) PROVE Goal
  <2>1. /\ UNCHANGED <<reuse, active, claims>>
        /\ lifecycle'[h.slot].state = "CLOSED"
        /\ lifecycle'[h.slot].event = lifecycle[h.slot].event
        /\ \A r \in Slots : r # h.slot => lifecycle'[r] = lifecycle[r]
    BY <1>1, <1>5 DEF Close, Words
  <2> QED BY <1>1, <2>1 DEF ClaimsOfThePast, OneClaim
<1>6. ASSUME NEW h \in issued, NEW id \in Identities, Retire(h, id) PROVE Goal
  <2>1. active' = [active EXCEPT ![h.slot] = FALSE] /\ UNCHANGED <<lifecycle, reuse, claims>>
    BY <1>6 DEF Retire
  <2> QED BY <1>1, <2>1 DEF ClaimsOfThePast, OneClaim
<1>7. CASE UNCHANGED <<active, lifecycle, reuse, claims>>
  BY <1>7 DEF ClaimsOfThePast, OneClaim
<1>8. ASSUME NEW h \in issued, NEW id \in Identities,
             \/ \E f \in Fds : AttachSocket(h, id, f)
             \/ \E p \in Pins : Acquire(p, h, id)
      PROVE Goal
  BY <1>7, <1>8 DEF AttachSocket, Acquire
<1>9. ASSUME (\E f \in Fds : AcceptFd(f)) \/ (\E p \in Pins : Release(p)) \/ Destroy
             \/ UNCHANGED vars
      PROVE Goal
  BY <1>7, <1>9 DEF AcceptFd, Release, Destroy, vars
<1> HIDE DEF Goal
<1>10. Goal
  BY <1>2, <1>3, <1>4, <1>5, <1>6, <1>8, <1>9
  DEF Next, ReaderAcquire, OutputAcquire, ReaderRelease, OutputRelease, Pins
<1> QED BY <1>10 DEF Goal

-------------------------------------------------------------------------------
\* After ck_connection_registry_init no slot is in use and no pin is out.
LEMMA InvInit == Init => Inv
<1> SUFFICES ASSUME Init PROVE Inv
    OBVIOUS
<1> USE RegistryAssumption DEF Init
<1>0. OpenWord \in Words /\ {} \in SUBSET Objects
  BY DEF Words, OpenWord
<1>1. TypeOK
  BY <1>0 DEF TypeOK
<1>2. GenerationInStep /\ PinProtects /\ ClaimsOfThePast /\ OneClaim /\ HeapOfSlot
  BY DEF GenerationInStep, PinProtects, ClaimsOfThePast, OneClaim, HeapOfSlot, OpenWord
<1>3. PinCount
  <2>1. ASSUME NEW k \in Kinds, NEW s \in Slots PROVE Holders(k, s) = {}
    BY DEF Holders
  <2> QED BY <2>1, FS_EmptySet DEF PinCount
<1>4. DescriptorOwner
  BY DEF DescriptorOwner, Unowned, NoFd, Slots
<1> QED BY <1>1, <1>2, <1>3, <1>4 DEF Inv

\* Every registry operation preserves the inductive invariant.
LEMMA InvStep == Inv /\ [Next]_vars => Inv'
BY TypeStep, GenerationStep, PinCountStep, PinProtectsStep, DescriptorStep, HeapStep,
   ClaimStep DEF Inv

\* The inductive invariant holds in every reachable state.
LEMMA InvAlways == Spec => []Inv
BY InvInit, InvStep, PTL DEF Spec

\* Every variable keeps its type.
THEOREM TypeCorrect == Spec => []TypeOK
BY InvAlways, PTL DEF Inv

\* ck_connection_registry_find never takes a handle for a later registration of
\* its slot, for any capacity and any generation width, until the generation
\* has gone round.
THEOREM StaleHandlesMiss == Spec => []StaleHandleMisses
<1>1. Inv => StaleHandleMisses
  BY InStepMisses DEF Inv
<1> QED BY <1>1, InvAlways, PTL

\* A pinned connection stays open, allocated and in its slot, for any number of
\* pins, and the users counters are exactly the pins that are out.
THEOREM PinsProtect == Spec => [](PinProtects /\ PinCount)
BY InvAlways, PTL DEF Inv

\* A held pin always passes the checks of the release functions.
THEOREM PinsReleasable ==
    Spec => [](initialized => \A p \in Pins : pin[p] # NoHandle => Releasable(p))
<1>1. Inv => (initialized => \A p \in Pins : pin[p] # NoHandle => Releasable(p))
  <2> SUFFICES ASSUME Inv, initialized, NEW p \in Pins, pin[p] # NoHandle
               PROVE  Releasable(p)
      OBVIOUS
  <2>1. pin[p].slot \in Slots /\ Kind(p) \in Kinds
    BY DEF Inv, TypeOK, Handles, Kind, Kinds
  <2>2. p \in Holders(Kind(p), pin[p].slot)
    BY DEF Holders
  <2>3. users[Kind(p)][pin[p].slot] # 0
    BY <2>1, <2>2, HoldersFinite, FS_EmptySet DEF Inv, PinCount
  <2> QED BY <2>3 DEF Inv, PinProtects, Releasable
<1> QED BY <1>1, InvAlways, PTL

\* No descriptor has two owners and none outlives its connection.
THEOREM DescriptorsOwned == Spec => []DescriptorOwner
BY InvAlways, PTL DEF Inv

\* One caller per registration is told CLAIMED, and its event stands.
THEOREM ClaimsUnique == Spec => []OneClaim
BY InvAlways, PTL DEF Inv

\* register only takes a slot of which nothing is left.
THEOREM SlotsTakenWhenIdle == Spec => SlotTakenWhenIdle
<1> DEFINE Idle(s) == /\ ~active[s] /\ socketFd[s] = NoFd /\ Unpinned(s)
                      /\ objects[s] \cap Kinds = {}
<1>1. ASSUME Inv, NEW s \in Slots, ~active[s] PROVE Idle(s)
  <2>1. ASSUME NEW k \in Kinds PROVE users[k][s] = 0
    <3>1. Holders(k, s) = {}
      BY <1>1 DEF Holders, Inv, PinProtects, Found
    <3> QED BY <1>1, <3>1, FS_EmptySet DEF Inv, PinCount
  <2> QED BY <1>1, <2>1 DEF Inv, HeapOfSlot, DescriptorOwner, Unpinned
<1>2. ASSUME Inv, [Next]_vars, NEW s \in Slots, reuse'[s] # reuse[s] PROVE ~active[s]
  <2>1. PICK r \in Slots : TakeSlot(r)
    BY <1>2, OthersKeepGenerations DEF Register, RegisterFails
  <2>2. r = s
    BY <1>2, <2>1 DEF TakeSlot, Inv, TypeOK
  <2> QED BY <2>1, <2>2 DEF TakeSlot, FirstFree
<1>3. Inv /\ [Next]_vars => [\A s \in Slots : reuse'[s] # reuse[s] => Idle(s)]_vars
  <2> HIDE DEF Idle
  <2> QED BY <1>1, <1>2
<1>4. Spec => [][\A s \in Slots : reuse'[s] # reuse[s] => Idle(s)]_vars
  <2> HIDE DEF Idle
  <2> QED BY <1>3, InvAlways, PTL DEF Spec
<1> QED BY <1>4 DEF SlotTakenWhenIdle
===============================================================================

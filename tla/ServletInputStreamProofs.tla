---------------------- MODULE ServletInputStreamProofs ----------------------
(***************************************************************************)
(* The callbacks of the Servlet input stream, for any executor, any body   *)
(* and any interleaving: the listener hears a legal sequence of callbacks, *)
(* and an application that reads in its callback is never refused a read   *)
(* that isReady() has allowed.                                             *)
(***************************************************************************)
EXTENDS ServletInputStream, SequenceTheorems, TLAPS

(* Where a thread can be: inside isReady() and read(), inside               *)
(* setReadListener(), inside one of the scheduling calls, and for a thread  *)
(* of the executor inside a task.                                           *)
ReadLabels == {"isReady", "permit", "waiting", "read", "take", "took"}
ListenerLabels ==
    {"finished", "ready", "interest", "errorInterest", "lookAgain", "lookReady", "unlock"}
AppLabels ==
    {"start", "close", "free", "scheduleInitial", "swap", "all", "notify"}
      \cup ListenerLabels
SourceLabels == {"free", "schedule", "swap", "notify"}

(* From the begin of invokeDataAvailable() to the reset of its flag. *)
OpenLabels == ReadLabels \cup {"enter", "return", "thrown"}
DataLabels == OpenLabels \cup {"data", "open", "finally", "reset"}
PoolLabels ==
    DataLabels \cup {"free", "recheck", "recheckReady", "schedule", "swap", "all",
                     "notify", "allTask", "errorTask"}
Backs == {"free", "unlock", "lookAgain", "return", "thrown"}
Labels == AppLabels \cup SourceLabels \cup PoolLabels

Tasks == {"data", "allTask", "errorTask"}
Errors == {"source", "listener"}
Callbacks == {"data", "all"} \cup Errors

ThreadStates ==
    [Threads -> [at : Labels, ready : BOOLEAN, finished : BOOLEAN, back : Backs]]

SourceStates ==
    [data : Nat, left : Nat, eof : BOOLEAN, error : BOOLEAN,
     interest : BOOLEAN, errorInterest : BOOLEAN]
StreamStates ==
    [listener : BOOLEAN, readyPermit : BOOLEAN, waiting : BOOLEAN, closed : BOOLEAN,
     active : BOOLEAN, scheduled : BOOLEAN, allNotified : BOOLEAN,
     errorNotified : BOOLEAN, error : Errors \cup {"none"}]

TypeOK ==
    /\ source \in SourceStates /\ stream \in StreamStates /\ th \in ThreadStates
    /\ tasks \in Seq(Tasks) /\ heard \in Seq(Callbacks) /\ refused \in BOOLEAN

(* Each kind of thread keeps to its own code.  In callback style the *)
(* application's thread does not read.                               *)
Place(t) ==
    /\ t = "source" => th[t].at \in SourceLabels /\ th[t].back = "free"
    /\ t = "app" => /\ th[t].at \in AppLabels \cup ReadLabels
                    /\ th[t].back \in {"free", "unlock", "lookAgain"}
                    /\ style = "callback" => th[t].at \in AppLabels
    /\ t \in Pool => /\ th[t].at \in PoolLabels
                     /\ th[t].back \in {"free", "return", "thrown"}
                     /\ th[t].back # "free" => th[t].at \in {"all", "notify"}
Places == \A t \in Threads : Place(t)

(* The executor's threads that are in a data callback: they come back to it *)
(* from scheduling the end or the error.                                    *)
Inside(p) ==
    \/ th[p].at \in DataLabels
    \/ th[p].at \in {"all", "notify"} /\ th[p].back \in {"return", "thrown"}
Open(p) ==
    \/ th[p].at \in OpenLabels
    \/ th[p].at \in {"all", "notify"} /\ th[p].back \in {"return", "thrown"}

Queued(task) == \E i \in DOMAIN tasks : tasks[i] = task
Once(task) == \A i, j \in DOMAIN tasks : tasks[i] = task /\ tasks[j] = task => i = j
Begun(task) == \E p \in Pool : th[p].at = task

(* One data callback at most is under way, and then the flag is up: that is *)
(* what the swap in scheduleDataAvailable() is for.                         *)
OneCallback ==
    /\ Once("data")
    /\ \A p, q \in Pool : Inside(p) /\ Inside(q) => p = q
    /\ \A p \in Pool : Inside(p) => ~Queued("data")
    /\ Queued("data") \/ (\E p \in Pool : Inside(p)) => stream.scheduled

(* The end and the error are one task each, at most. *)
OneNotice(task) ==
    /\ Once(task)
    /\ \A p, q \in Pool : th[p].at = task /\ th[q].at = task => p = q
    /\ Begun(task) => ~Queued(task)

OneEnd ==
    /\ OneNotice("allTask")
    /\ Queued("allTask") \/ Begun("allTask") =>
          stream.allNotified /\ ~Heard({"all"}) /\ SourceFinished
    /\ Heard({"all"}) => stream.allNotified

OneError ==
    /\ OneNotice("errorTask")
    /\ Queued("errorTask") \/ Begun("errorTask") =>
          stream.errorNotified /\ ~Heard(Errors) /\ stream.error # "none"
    /\ Heard(Errors) => stream.errorNotified

(* Who goes to tell the end has seen it. *)
Seen(t) == th[t].at = "all" \/ th[t].finished => SourceFinished
EndSeen == \A t \in Threads : Seen(t)

(* There is a callback only for a listener, after the blocking reads. *)
Registered ==
    /\ stream.listener => th["app"].at # "start"
    /\ Queued("data") \/ (\E t \in Threads : th[t].at = "swap")
          \/ (\E p \in Pool : Inside(p)) => stream.listener

(* Inside the callback its window is open, and what isReady() saw is there. *)
WindowOf(p) ==
    /\ Open(p) => stream.active
    /\ style = "callback" =>
          /\ th[p].at \in {"permit", "waiting"} /\ th[p].ready => SourceReady
          /\ th[p].at \in {"read", "take"} => SourceReady
Window == \A p \in Pool : WindowOf(p)

Inv ==
    /\ TypeOK /\ Places
    /\ OneCallback /\ OneEnd /\ OneError /\ EndSeen /\ Registered /\ Window
    /\ CallbackSequence /\ ReadyMeansReadable

-----------------------------------------------------------------------------
(* The invariant holds of a stream that nobody has used yet. *)
LEMMA InvInit == Init => Inv
<1> SUFFICES ASSUME Init PROVE Inv
    OBVIOUS
<1> USE StreamAssumption, PoolAssumption DEF Init
<1>1. TypeOK
  BY EmptySeq DEF TypeOK, SourceStates, StreamStates, ThreadStates, Labels, AppLabels, PoolLabels, Backs, Errors
<1>2. \A t \in Threads : th[t].at \in {"start", "free"} /\ th[t].back = "free" /\ ~th[t].finished
  OBVIOUS
<1>3. \A p \in Pool : p \in Threads /\ th[p].at = "free" /\ th[p].back = "free"
  BY DEF Threads
<1>4. "app" \in Threads /\ "source" \in Threads
  BY DEF Threads
<1>5. Places
  BY <1>2, <1>3 DEF Places, Place, SourceLabels, AppLabels, PoolLabels
<1>6. \A p \in Pool : ~Inside(p) /\ ~Open(p)
  BY <1>3 DEF Inside, Open, DataLabels, OpenLabels, ReadLabels
<1>7. DOMAIN tasks = {} /\ DOMAIN heard = {}
  OBVIOUS
<1>8. OneCallback
  BY <1>6, <1>7 DEF OneCallback, Once, Queued
<1>9. OneEnd /\ OneError
  BY <1>3, <1>7 DEF OneEnd, OneError, OneNotice, Once, Queued, Begun, Heard
<1>10. EndSeen
  BY <1>2 DEF EndSeen, Seen
<1>11. Registered
  BY <1>2, <1>6, <1>7 DEF Registered, Queued
<1>12. Window
  BY <1>3, <1>6 DEF Window, WindowOf
<1>13. CallbackSequence /\ ReadyMeansReadable
  BY <1>7 DEF CallbackSequence, ReadyMeansReadable, Heard
<1> QED BY <1>1, <1>5, <1>8, <1>9, <1>10, <1>11, <1>12, <1>13 DEF Inv

(* What a step of thread t comes to, as far as the other threads are        *)
(* concerned: it stays in its code, nothing that they have seen is undone,  *)
(* and nobody else is inside a callback when the window is closed or bytes  *)
(* are taken.                                                               *)
Moves(t) ==
    /\ style' = style /\ (refused' = refused \/ style # "callback")
    /\ \A u \in Threads \ {t} : th'[u] = th[u]
    /\ Place(t)' /\ Seen(t)' /\ (t \in Pool => WindowOf(t)')
    /\ SourceFinished => SourceFinished'
    /\ stream.listener => stream'.listener
    /\ stream'.listener => stream.listener \/ t = "app"
    /\ t = "app" /\ stream'.listener => th'[t].at # "start"
    /\ th'[t].at = "swap" => stream'.listener
    /\ Queued("data")' => stream'.listener
    /\ t \in Pool /\ Inside(t)' => stream'.listener
    /\ \/ (stream.active => stream'.active) /\ (SourceReady => SourceReady')
       \/ (stream.active => stream'.active) /\ style # "callback"
       \/ t \in Pool /\ Inside(t)
       \/ ~stream.listener

(* Such a step keeps the rest of the invariant. *)
LEMMA MoveKeeps ==
    ASSUME Inv, NEW t \in Threads, Moves(t)
    PROVE  Places' /\ EndSeen' /\ Registered' /\ Window' /\ ReadyMeansReadable'
<1> USE DEF Moves
<1>0. /\ Places /\ EndSeen /\ Registered /\ Window /\ OneCallback /\ ReadyMeansReadable
      /\ "app" \in Threads
  BY DEF Inv, Threads
<1>1. Places'
  BY <1>0 DEF Places, Place
<1>2. EndSeen'
  BY <1>0 DEF EndSeen, Seen
<1>3. Registered'
  <2>1. \A p \in Pool \ {t} : Inside(p)' <=> Inside(p)
    BY DEF Inside, Threads
  <2>2. stream'.listener => th'["app"].at # "start"
    BY <1>0 DEF Registered
  <2>3. (\E u \in Threads : th'[u].at = "swap") => stream'.listener
    BY <1>0 DEF Registered
  <2>4. (\E p \in Pool : Inside(p)') => stream'.listener
    BY <1>0, <2>1 DEF Registered
  <2> QED BY <2>2, <2>3, <2>4 DEF Registered
<1>4. Window'
  <2> SUFFICES ASSUME NEW p \in Pool \ {t} PROVE WindowOf(p)'
      BY DEF Window
  <2>1. th'[p] = th[p] /\ WindowOf(p)
    BY <1>0 DEF Window, Threads
  <2>2. Open(p)' <=> Open(p)
    BY <2>1 DEF Open
  <2>3. CASE (stream.active => stream'.active)
             /\ ((SourceReady => SourceReady') \/ style # "callback")
    BY <2>1, <2>2, <2>3 DEF WindowOf
  <2>4. CASE ~stream.listener \/ (t \in Pool /\ Inside(t))
    <3>1. ~Inside(p)
      BY <1>0, <2>4 DEF Registered, OneCallback
    <3>2. ~Open(p) /\ th[p].at \notin ReadLabels
      BY <3>1 DEF Inside, Open, DataLabels, OpenLabels
    <3> QED BY <2>1, <2>2, <3>2 DEF WindowOf, ReadLabels
  <2> QED BY <2>3, <2>4
<1>5. ReadyMeansReadable'
  BY <1>0 DEF ReadyMeansReadable
<1> QED BY <1>1, <1>2, <1>3, <1>4, <1>5

(* Most steps neither begin nor end a callback or a task and tell the       *)
(* listener nothing.                                                        *)
Quiet(t) ==
    /\ tasks' = tasks /\ heard' = heard
    /\ stream'.scheduled = stream.scheduled
    /\ stream'.allNotified = stream.allNotified
    /\ stream'.errorNotified = stream.errorNotified
    /\ stream'.error = stream.error
    /\ t \in Pool => /\ Inside(t)' => Inside(t)
                     /\ th'[t].at = "allTask" => th[t].at = "allTask"
                     /\ th'[t].at = "errorTask" => th[t].at = "errorTask"

(* They keep the whole invariant. *)
LEMMA QuietKeeps ==
    ASSUME Inv, NEW t \in Threads, TypeOK', Moves(t), Quiet(t)
    PROVE  Inv'
<1> USE DEF Quiet
<1>0. /\ OneCallback /\ OneEnd /\ OneError /\ CallbackSequence
      /\ SourceFinished => SourceFinished'
  BY DEF Inv, Moves
<1>1. \A k : (Queued(k)' <=> Queued(k)) /\ (Once(k)' <=> Once(k)) /\ (Heard(k)' <=> Heard(k))
  BY DEF Queued, Once, Heard
<1>2. \A p \in Pool : /\ Inside(p)' => Inside(p)
                      /\ th'[p].at = "allTask" => th[p].at = "allTask"
                      /\ th'[p].at = "errorTask" => th[p].at = "errorTask"
  <2> TAKE p \in Pool
  <2>1. CASE p = t
    BY <2>1
  <2>2. CASE p # t
    <3>1. th'[p] = th[p]
      BY <2>2 DEF Moves, Threads
    <3> QED BY <3>1 DEF Inside
  <2> QED BY <2>1, <2>2
<1>3. (Begun("allTask")' => Begun("allTask")) /\ (Begun("errorTask")' => Begun("errorTask"))
  BY <1>2 DEF Begun
<1>4. OneCallback'
  BY <1>0, <1>1, <1>2 DEF OneCallback
<1>5. OneEnd'
  BY <1>0, <1>1, <1>2, <1>3 DEF OneEnd, OneNotice
<1>6. OneError'
  BY <1>0, <1>1, <1>2, <1>3 DEF OneError, OneNotice
<1>7. CallbackSequence'
  BY <1>0, <1>1 DEF CallbackSequence
<1>8. Places' /\ EndSeen' /\ Registered' /\ Window' /\ ReadyMeansReadable'
  BY MoveKeeps
<1> QED BY <1>4, <1>5, <1>6, <1>7, <1>8 DEF Inv

(* Where a thread may be, label by label. *)
LEMMA AllLabels ==
    /\ {"start", "close", "free", "scheduleInitial", "swap", "all", "notify", "finished",
      "ready", "interest", "errorInterest", "lookAgain", "lookReady", "unlock",
      "schedule", "isReady", "permit", "waiting", "read", "take", "took", "enter",
      "return", "thrown", "data", "open", "finally", "reset", "recheck",
      "recheckReady", "allTask", "errorTask"} \subseteq Labels
    /\ \A t : Leave(t) \in Labels /\ Throw(t) \in Labels /\ Leave(t) \in Backs /\ Throw(t) \in Backs
BY DEF Labels, AppLabels, SourceLabels, PoolLabels, DataLabels, OpenLabels, ReadLabels,
   ListenerLabels, Backs, Leave, Throw

(* The ways in which the place of a thread is written. *)
LEMMA ThreadMoves ==
    ASSUME th \in ThreadStates, NEW t \in Threads
    PROVE  /\ th[t].at \in Labels /\ th[t].back \in Backs
           /\ th[t].ready \in BOOLEAN /\ th[t].finished \in BOOLEAN
           /\ \A a \in Labels : [th EXCEPT ![t].at = a] \in ThreadStates
           /\ \A a \in Labels, b \in Backs :
                 [th EXCEPT ![t].at = a, ![t].back = b] \in ThreadStates
           /\ \A a \in Labels, r \in BOOLEAN :
                 /\ [th EXCEPT ![t].at = a, ![t].ready = r] \in ThreadStates
                 /\ [th EXCEPT ![t].at = a, ![t].finished = r] \in ThreadStates
           /\ \A a \in Labels, r, f \in BOOLEAN :
                 [th EXCEPT ![t].at = a, ![t].ready = r, ![t].finished = f] \in ThreadStates
<1>1. /\ th[t].at \in Labels /\ th[t].back \in Backs
      /\ th[t].ready \in BOOLEAN /\ th[t].finished \in BOOLEAN
  BY Zenon DEF ThreadStates
<1>2. \A a \in Labels : [th EXCEPT ![t].at = a] \in ThreadStates
  BY Zenon DEF ThreadStates
<1>3. \A a \in Labels, b \in Backs :
         [th EXCEPT ![t].at = a, ![t].back = b] \in ThreadStates
  BY Zenon DEF ThreadStates
<1>4. \A a \in Labels, r \in BOOLEAN : [th EXCEPT ![t].at = a, ![t].ready = r] \in ThreadStates
  BY Zenon DEF ThreadStates
<1>5. \A a \in Labels, r \in BOOLEAN : [th EXCEPT ![t].at = a, ![t].finished = r] \in ThreadStates
  BY Zenon DEF ThreadStates
<1>6. \A a \in Labels, r, f \in BOOLEAN :
         [th EXCEPT ![t].at = a, ![t].ready = r, ![t].finished = f] \in ThreadStates
  BY ZenonT(60) DEF ThreadStates
<1> QED BY <1>1, <1>2, <1>3, <1>4, <1>5, <1>6, Zenon

(* A thread of the executor is neither of the other two. *)
LEMMA ThreadKinds ==
    ASSUME NEW t \in Threads
    PROVE  /\ t \in Pool => t # "app" /\ t # "source"
           /\ t \notin Pool => t = "app" \/ t = "source"
BY PoolAssumption DEF Threads

-----------------------------------------------------------------------------
(* isReady() and read(): the window is open, and in callback style what was *)
(* seen ready is there for the only thread that takes it.                   *)
LEMMA ReadsKeep ==
    ASSUME Inv, NEW t \in Threads, Reads(t)
    PROVE  Inv'
<1> USE DEF At, Goto, Call
<1>0. TypeOK /\ Place(t) /\ Seen(t) /\ (t \in Pool => WindowOf(t)) /\ Registered
  BY DEF Inv, Places, EndSeen, Window
<1>1. th[t].at \in ReadLabels
  BY DEF Reads, IsReady, IsReadyPermit, IsReadyWaiting, Read, ReadSource, ReadTook, ReadLabels
<1>2. (t = "app" /\ style # "callback") \/ t \in Pool
  BY <1>0, <1>1, ThreadKinds DEF Place, ReadLabels, SourceLabels, AppLabels, ListenerLabels
<1>3. t \in Pool => /\ t # "app" /\ t # "source" /\ Inside(t) /\ Open(t) /\ stream.active
                    /\ stream.listener /\ th[t].back = "free"
  BY <1>0, <1>1, ThreadKinds DEF Place, Inside, Open, WindowOf, Registered, DataLabels,
     OpenLabels, ReadLabels
<1>4. t = "app" => th[t].at # "start" /\ th[t].back \in {"free", "unlock", "lookAgain"}
  BY <1>0, <1>1 DEF Place, ReadLabels
<1>10. CASE IsReady(t)
  <2>1. TypeOK'
    BY <1>0, <1>2, <1>10, AllLabels, ThreadMoves, Zenon DEF IsReady, TypeOK, Active, SourceReady
  <2>2. /\ \A u \in Threads \ {t} : th'[u] = th[u]
        /\ UNCHANGED <<source, stream, tasks, style, heard, refused>>
        /\ th'[t].back = th[t].back /\ th'[t].finished = th[t].finished
        /\ th'[t].at \in {"permit", Leave(t)}
        /\ th'[t].ready => SourceReady
    BY <1>0, <1>10 DEF IsReady, TypeOK, ThreadStates
  <2>3. Moves(t)
    BY <1>0, <1>2, <1>3, <1>4, <2>2 DEF Moves, Place, Seen, WindowOf, Inside, Open, Leave, Throw,
       Queued, SourceFinished, SourceReady, Registered, AppLabels, PoolLabels, DataLabels,
       OpenLabels, ReadLabels
  <2>4. Quiet(t)
    BY <1>3, <2>2 DEF Quiet, Leave, Throw, Inside, DataLabels, OpenLabels,
       ReadLabels
  <2> QED BY <2>1, <2>3, <2>4, QuietKeeps
<1>11. CASE IsReadyPermit(t)
  <2>1. TypeOK'
    BY <1>0, <1>2, <1>11, AllLabels, ThreadMoves, Zenon DEF IsReadyPermit, TypeOK, StreamStates
  <2>2. /\ \A u \in Threads \ {t} : th'[u] = th[u]
        /\ UNCHANGED <<source, tasks, style, heard, refused>>
        /\ stream' = [stream EXCEPT !.readyPermit = th[t].ready]
        /\ th'[t].back = th[t].back /\ th'[t].finished = th[t].finished
        /\ th[t].at = "permit" /\ th'[t].at = "waiting" /\ th'[t].ready = th[t].ready
    BY <1>0, <1>11 DEF IsReadyPermit, TypeOK, ThreadStates
  <2>3. Moves(t)
    BY <1>0, <1>2, <1>3, <1>4, <2>2 DEF Moves, Place, Seen, WindowOf, Inside, Open, Leave, Throw,
       Queued, SourceFinished, SourceReady, Registered, AppLabels, PoolLabels, DataLabels,
       OpenLabels, ReadLabels
  <2>4. Quiet(t)
    BY <1>3, <2>2 DEF Quiet, Leave, Throw, Inside, DataLabels, OpenLabels,
       ReadLabels
  <2> QED BY <2>1, <2>3, <2>4, QuietKeeps
<1>12. CASE IsReadyWaiting(t)
  <2>1. TypeOK'
    BY <1>0, <1>2, <1>12, AllLabels, ThreadMoves, Zenon DEF IsReadyWaiting, TypeOK, StreamStates
  <2>2. /\ \A u \in Threads \ {t} : th'[u] = th[u]
        /\ UNCHANGED <<source, tasks, style, heard, refused>>
        /\ stream' = [stream EXCEPT !.waiting = ~th[t].ready]
        /\ th'[t].back = th[t].back /\ th'[t].finished = th[t].finished
        /\ th[t].at = "waiting" /\ th'[t].ready = FALSE
        /\ th'[t].at = IF th[t].ready THEN "read" ELSE Leave(t)
    BY <1>0, <1>12 DEF IsReadyWaiting, TypeOK, ThreadStates
  <2>3. Moves(t)
    BY <1>0, <1>2, <1>3, <1>4, <2>2 DEF Moves, Place, Seen, WindowOf, Inside, Open, Leave, Throw,
       Queued, SourceFinished, SourceReady, Registered, AppLabels, PoolLabels, DataLabels,
       OpenLabels, ReadLabels
  <2>4. Quiet(t)
    BY <1>3, <2>2 DEF Quiet, Leave, Throw, Inside, DataLabels, OpenLabels,
       ReadLabels
  <2> QED BY <2>1, <2>3, <2>4, QuietKeeps
<1>13. CASE Read(t)
  <2>1. TypeOK'
    <3>1. /\ th' = [th EXCEPT ![t].at = "take"] \/ th' = [th EXCEPT ![t].at = Throw(t)]
          /\ refused' = refused \/ refused' = TRUE
          /\ UNCHANGED <<source, stream, tasks, heard>>
      BY <1>13 DEF Read
    <3>2. th' \in ThreadStates
      <4>1. [th EXCEPT ![t].at = "take"] \in ThreadStates
        BY <1>0, AllLabels, ThreadMoves, Zenon DEF TypeOK
      <4>2. [th EXCEPT ![t].at = Throw(t)] \in ThreadStates
        BY <1>0, AllLabels, ThreadMoves, Zenon DEF TypeOK
      <4> QED BY <3>1, <4>1, <4>2
    <3> QED BY <1>0, <3>1, <3>2 DEF TypeOK
  <2>2. /\ \A u \in Threads \ {t} : th'[u] = th[u]
        /\ UNCHANGED <<source, stream, tasks, style, heard>>
        /\ th'[t].back = th[t].back /\ th'[t].finished = th[t].finished
        /\ th[t].at = "read" /\ th'[t].at \in {"take", Throw(t)}
        /\ refused' = refused \/ (refused' = TRUE /\ ~stream.active)
    BY <1>0, <1>13 DEF Read, TypeOK, ThreadStates
  <2>3. Moves(t)
    BY <1>0, <1>2, <1>3, <1>4, <2>2 DEF Moves, Place, Seen, WindowOf, Inside, Open, Leave, Throw,
       Queued, SourceFinished, SourceReady, Registered, AppLabels, PoolLabels, DataLabels,
       OpenLabels, ReadLabels
  <2>4. Quiet(t)
    BY <1>3, <2>2 DEF Quiet, Leave, Throw, Inside, DataLabels, OpenLabels,
       ReadLabels
  <2> QED BY <2>1, <2>3, <2>4, QuietKeeps
<1>14. CASE ReadTook(t)
  <2>1. TypeOK'
    BY <1>0, <1>2, <1>14, AllLabels, ThreadMoves, Zenon DEF ReadTook, TypeOK, StreamStates
  <2>2. /\ \A u \in Threads \ {t} : th'[u] = th[u]
        /\ UNCHANGED <<source, tasks, style, heard, refused>>
        /\ stream' = [stream EXCEPT !.readyPermit = stream.readyPermit /\ stream.active]
        /\ th'[t].back = th[t].back /\ th'[t].finished = th[t].finished
        /\ th'[t].at = "isReady"
    BY <1>0, <1>14 DEF ReadTook, TypeOK, ThreadStates
  <2>3. Moves(t)
    BY <1>0, <1>2, <1>3, <1>4, <2>2 DEF Moves, Place, Seen, WindowOf, Inside, Open, Leave, Throw,
       Queued, SourceFinished, SourceReady, Registered, AppLabels, PoolLabels, DataLabels,
       OpenLabels, ReadLabels
  <2>4. Quiet(t)
    BY <1>3, <2>2 DEF Quiet, Leave, Throw, Inside, DataLabels, OpenLabels,
       ReadLabels
  <2> QED BY <2>1, <2>3, <2>4, QuietKeeps
<1>15. CASE ReadSource(t)
  <2>0. th[t].at = "take" /\ UNCHANGED <<lock, tasks, style, heard>>
    BY <1>15 DEF ReadSource
  <2>1. CASE /\ source.error /\ Call(t, "notify", Throw(t))
             /\ UNCHANGED <<source, stream, refused>>
    <3>1. TypeOK'
      BY <1>0, <1>2, <2>0, <2>1, AllLabels, ThreadMoves, Zenon DEF TypeOK
    <3>2. /\ \A u \in Threads \ {t} : th'[u] = th[u]
          /\ th'[t].at = "notify" /\ th'[t].back = Throw(t) /\ th'[t].finished = th[t].finished
      BY <1>0, <2>1 DEF TypeOK, ThreadStates
    <3>3. Moves(t)
      BY <1>0, <1>2, <1>3, <1>4, <2>0, <2>1, <3>2 DEF Moves, Place, Seen, WindowOf, Inside, Open, Leave, Throw,
         Queued, SourceFinished, SourceReady, Registered, AppLabels, PoolLabels, DataLabels,
         OpenLabels, ReadLabels
    <3>4. Quiet(t)
      BY <1>3, <2>0, <2>1, <3>2 DEF Quiet
    <3> QED BY <3>1, <3>3, <3>4, QuietKeeps
  <2>2. ASSUME NEW n \in 1 .. source.data, ~source.error, source.data > 0,
               source' = [source EXCEPT !.data = source.data - n],
               Goto(t, "took"), UNCHANGED <<stream, refused>>
        PROVE  Inv'
    <3>1. TypeOK'
      <4>1. source.data \in Nat /\ source.data - n \in Nat
        BY <1>0, <2>2 DEF TypeOK, SourceStates
      <4>2. source' \in SourceStates
        BY <1>0, <2>2, <4>1 DEF TypeOK, SourceStates
      <4> QED BY <1>0, <2>0, <2>2, <4>2, AllLabels, ThreadMoves, Zenon DEF TypeOK
    <3>2. /\ \A u \in Threads \ {t} : th'[u] = th[u]
          /\ th'[t].at = "took" /\ th'[t].back = th[t].back /\ th'[t].finished = th[t].finished
          /\ ~SourceFinished
      BY <1>0, <2>2 DEF TypeOK, ThreadStates, SourceFinished
    <3>3. Moves(t)
      BY <1>0, <1>2, <1>3, <1>4, <2>0, <2>2, <3>2 DEF Moves, Place, Seen, WindowOf, Inside, Open, Leave, Throw,
         Queued, SourceFinished, SourceReady, Registered, AppLabels, PoolLabels, DataLabels,
         OpenLabels, ReadLabels
    <3>4. Quiet(t)
      BY <1>3, <2>0, <2>2, <3>2 DEF Quiet
    <3> QED BY <3>1, <3>3, <3>4, QuietKeeps
  <2>3. CASE /\ ~source.error /\ SourceFinished
             /\ stream' = [stream EXCEPT !.readyPermit = FALSE, !.waiting = FALSE]
             /\ Call(t, "all", Leave(t))
             /\ UNCHANGED <<source, refused>>
    <3>1. TypeOK'
      BY <1>0, <1>2, <2>0, <2>3, AllLabels, ThreadMoves, Zenon DEF TypeOK, StreamStates
    <3>2. /\ \A u \in Threads \ {t} : th'[u] = th[u]
          /\ th'[t].at = "all" /\ th'[t].back = Leave(t) /\ th'[t].finished = th[t].finished
      BY <1>0, <2>3 DEF TypeOK, ThreadStates
    <3>3. Moves(t)
      BY <1>0, <1>2, <1>3, <1>4, <2>0, <2>3, <3>2 DEF Moves, Place, Seen, WindowOf, Inside, Open, Leave, Throw,
         Queued, SourceFinished, SourceReady, Registered, AppLabels, PoolLabels, DataLabels,
         OpenLabels, ReadLabels, TypeOK, StreamStates
    <3>4. Quiet(t)
      BY <1>0, <1>3, <2>0, <2>3, <3>2 DEF Quiet, TypeOK, StreamStates
    <3> QED BY <3>1, <3>3, <3>4, QuietKeeps
  <2>4. CASE /\ ~source.error /\ ~SourceReady
             /\ stream' = [stream EXCEPT !.readyPermit = FALSE, !.waiting = TRUE]
             /\ refused' = TRUE
             /\ Goto(t, Throw(t))
             /\ UNCHANGED source
    <3>1. TypeOK'
      BY <1>0, <1>2, <2>0, <2>4, AllLabels, ThreadMoves, Zenon DEF TypeOK, StreamStates
    <3>2. /\ \A u \in Threads \ {t} : th'[u] = th[u]
          /\ th'[t].at = Throw(t) /\ th'[t].back = th[t].back /\ th'[t].finished = th[t].finished
      BY <1>0, <2>4 DEF TypeOK, ThreadStates
    <3>3. style # "callback"
      BY <1>0, <1>2, <2>0, <2>4 DEF WindowOf
    <3>4. /\ stream'.listener = stream.listener /\ stream'.active = stream.active
          /\ source' = source /\ tasks' = tasks /\ style' = style
      BY <2>0, <1>0, <2>4 DEF TypeOK, StreamStates
    <3>5. Moves(t)
      BY <1>0, <1>2, <1>3, <1>4, <3>2, <3>3, <3>4 DEF Moves, Place, Seen, WindowOf,
         Inside, Open, Throw, Queued, SourceFinished, SourceReady, Registered, AppLabels,
         PoolLabels, DataLabels, OpenLabels, ReadLabels
    <3>6. Quiet(t)
      BY <1>0, <1>3, <2>0, <2>4, <3>2 DEF Quiet, Throw, TypeOK, StreamStates
    <3> QED BY <3>1, <3>5, <3>6, QuietKeeps
  <2> QED BY <1>15, <2>1, <2>2, <2>3, <2>4 DEF ReadSource
<1> QED BY <1>10, <1>11, <1>12, <1>13, <1>14, <1>15 DEF Reads

-----------------------------------------------------------------------------
(* The source changes before its end only, and what was ready stays so. *)
LEMMA ChangedKeeps ==
    ASSUME Inv, NEW event \in SourceStates, NEW label \in {"schedule", "notify", "free"},
           Changed(event, label), SourceReady => event.data > 0 \/ event.eof
    PROVE  Inv'
<1> DEFINE t == "source"
<1>0. /\ t \in Threads /\ t \notin Pool /\ t # "app"
      /\ TypeOK /\ Place(t) /\ Seen(t) /\ Registered
  BY PoolAssumption DEF Inv, Places, EndSeen, Threads
<1>1. /\ \A u \in Threads \ {t} : th'[u] = th[u]
      /\ th'[t].at = label /\ th'[t].back = th[t].back /\ th'[t].finished = th[t].finished
  BY <1>0 DEF Changed, Goto, TypeOK, ThreadStates
<1>2. UNCHANGED <<stream, tasks, style, heard, refused>> /\ source' = event /\ ~SourceFinished
  BY DEF Changed, SourceFinished
<1>3. TypeOK'
  <2>1. label \in Labels
    BY AllLabels
  <2>2. th' \in ThreadStates
    BY <1>0, <2>1, ThreadMoves, Zenon DEF Changed, Goto, TypeOK
  <2> QED BY <1>0, <1>2, <2>2 DEF TypeOK
<1>4. (SourceReady => SourceReady') /\ (Queued("data")' => Queued("data"))
  BY <1>2 DEF SourceReady, Queued
<1>5. Moves(t)
  BY <1>0, <1>1, <1>2, <1>4 DEF Moves, Place, Seen, SourceLabels, Registered
<1>6. Quiet(t)
  BY <1>0, <1>2 DEF Quiet
<1> QED BY <1>0, <1>3, <1>5, <1>6, QuietKeeps

(* Bytes that arrive, the end and an error. *)
LEMMA SourceKeeps ==
    ASSUME Inv, Arrive \/ SourceEnds \/ SourceFails
    PROVE  Inv'
<1>0. source \in SourceStates
  BY DEF Inv, TypeOK
<1>1. CASE Arrive
  <2> DEFINE event == [source EXCEPT !.data = source.data + 1, !.left = source.left - 1]
             label == IF source.interest THEN "schedule" ELSE "free"
  <2>1. source.data \in Nat /\ source.data + 1 \in Nat /\ source.left - 1 \in Nat
        /\ source.data + 1 > 0
    BY <1>0, <1>1 DEF Arrive, SourceStates
  <2>2. event \in SourceStates /\ event.data > 0
    BY <1>0, <2>1 DEF SourceStates
  <2>3. Changed(event, label) /\ label \in {"schedule", "notify", "free"}
    BY <1>1 DEF Arrive
  <2> QED BY <2>2, <2>3, ChangedKeeps
<1>2. CASE SourceEnds
  <2> DEFINE event == [source EXCEPT !.eof = TRUE]
             label == IF source.interest THEN "schedule" ELSE "free"
  <2>1. event \in SourceStates /\ event.eof
    BY <1>0 DEF SourceStates
  <2>2. Changed(event, label) /\ label \in {"schedule", "notify", "free"}
    BY <1>2 DEF SourceEnds
  <2> QED BY <2>1, <2>2, ChangedKeeps
<1>3. CASE SourceFails
  <2> DEFINE event == [source EXCEPT !.error = TRUE]
             label == IF source.errorInterest THEN "notify" ELSE "free"
  <2>1. event \in SourceStates /\ event.data = source.data /\ event.eof = source.eof
    BY <1>0 DEF SourceStates
  <2>2. Changed(event, label) /\ label \in {"schedule", "notify", "free"}
    BY <1>3 DEF SourceFails
  <2> QED BY <2>1, <2>2, ChangedKeeps DEF SourceReady
<1> QED BY <1>1, <1>2, <1>3

-----------------------------------------------------------------------------
(* What the steps of the application's own thread do to the stream and to   *)
(* the source: a listener may be set, and bytes are taken only without one. *)
StreamKept ==
    /\ stream' \in StreamStates
    /\ stream.listener => stream'.listener
    /\ stream'.active = stream.active /\ stream'.scheduled = stream.scheduled
    /\ stream'.allNotified = stream.allNotified
    /\ stream'.errorNotified = stream.errorNotified /\ stream'.error = stream.error
SourceKept ==
    /\ source' \in SourceStates
    /\ SourceFinished => SourceFinished'
    /\ (SourceReady => SourceReady') \/ ~stream.listener

(* Such steps keep the invariant. *)
LEMMA AppMoves ==
    ASSUME Inv, StreamKept, SourceKept, th' \in ThreadStates,
           UNCHANGED <<tasks, style, heard, refused>>,
           \A u \in Threads \ {"app"} : th'[u] = th[u],
           \/ th'["app"].at \in AppLabels \ {"swap"}
           \/ th'["app"].at = "isReady" /\ style # "callback",
           th'["app"].back \in {"free", "unlock", "lookAgain"},
           Seen("app")',
           stream'.listener => th'["app"].at # "start"
    PROVE  Inv'
<1> DEFINE t == "app"
<1>0. t \in Threads /\ t \notin Pool /\ t # "source" /\ TypeOK /\ Registered
  BY PoolAssumption DEF Inv, Threads
<1>1. TypeOK'
  BY <1>0 DEF TypeOK, StreamKept, SourceKept
<1>2. Queued("data")' => Queued("data")
  BY DEF Queued
<1>3. Place(t)'
  BY <1>0 DEF Place, AppLabels, ReadLabels
<1>4. Moves(t)
  BY <1>0, <1>2, <1>3 DEF Moves, Registered, StreamKept, SourceKept, AppLabels
<1>5. Quiet(t)
  BY <1>0 DEF Quiet, StreamKept
<1> QED BY <1>0, <1>1, <1>4, <1>5, QuietKeeps

(* The blocking read before there is a listener, setReadListener(), close(). *)
LEMMA AppKeeps ==
    ASSUME Inv, BlockingRead \/ Registers \/ WorkerReads \/ Close \/ CloseClears
    PROVE  Inv'
<1> DEFINE t == "app"
           Lands(a) == /\ th' \in ThreadStates
                       /\ \A u \in Threads \ {t} : th'[u] = th[u]
                       /\ th'[t].at = a /\ th'[t].back \in {"free", "unlock", "lookAgain"}
           Others == UNCHANGED <<tasks, style, heard, refused>>
           Inner == {"notify", "finished", "ready", "interest", "errorInterest", "lookAgain",
                     "lookReady", "unlock", "all", "scheduleInitial", "close", "free"}
<1> USE DEF At, Goto, Call
<1>0. /\ t \in Threads /\ Seen(t) /\ Registered
      /\ source \in SourceStates /\ stream \in StreamStates /\ th \in ThreadStates
      /\ th[t].back \in {"free", "unlock", "lookAgain"}
  BY DEF Inv, Places, EndSeen, Threads, TypeOK, Place
<1>1. /\ SourceFinished \in BOOLEAN /\ SourceReady \in BOOLEAN
      /\ \A a \in Inner : a \in Labels /\ a \in AppLabels \ {"swap"} /\ a # "start"
      /\ "isReady" \in Labels
      /\ {"free", "unlock", "lookAgain"} \subseteq Backs
  BY DEF SourceFinished, SourceReady, Labels, AppLabels, ListenerLabels, SourceLabels, PoolLabels,
     DataLabels, OpenLabels, ReadLabels, Backs
<1>2. stream' = stream => StreamKept
  BY <1>0 DEF StreamKept
<1>3. source' = source => SourceKept
  BY <1>0 DEF SourceKept, SourceReady, SourceFinished
<1>4. ASSUME NEW a \in Inner, Lands(a), StreamKept, SourceKept, Others, Seen(t)'
      PROVE  Inv'
  BY <1>1, <1>4, AppMoves
<1>11. CASE SetReadListener
  <2>1. Lands("finished") /\ th'[t].finished = th[t].finished
    <3>1. th' \in ThreadStates
      BY <1>0, <1>1, <1>11, ThreadMoves, Zenon DEF SetReadListener
    <3> QED BY <1>0, <1>11, <3>1 DEF SetReadListener, ThreadStates
  <2>2. StreamKept
    BY <1>0, <1>2, <1>11 DEF SetReadListener, StreamKept, StreamStates
  <2>3. SourceKept
    BY <1>0, <1>3, <1>11 DEF SetReadListener
  <2>4. Seen(t)'
    BY <1>0, <2>1, <2>3, <1>11 DEF SetReadListener, Seen, SourceKept, SourceFinished
  <2> QED BY <1>4, <1>11, <2>1, <2>2, <2>3, <2>4 DEF SetReadListener
<1>12. CASE ListenerFinished
  <2>1. Lands("ready") /\ th'[t].finished = SourceFinished
    <3>1. th' \in ThreadStates
      BY <1>0, <1>1, <1>12, ThreadMoves, Zenon DEF ListenerFinished
    <3> QED BY <1>0, <1>12, <3>1 DEF ListenerFinished, ThreadStates
  <2>2. StreamKept
    BY <1>0, <1>2, <1>12 DEF ListenerFinished
  <2>3. SourceKept
    BY <1>0, <1>3, <1>12 DEF ListenerFinished
  <2>4. Seen(t)'
    BY <1>0, <2>1, <2>3, <1>12 DEF ListenerFinished, Seen, SourceKept, SourceFinished
  <2> QED BY <1>4, <1>12, <2>1, <2>2, <2>3, <2>4 DEF ListenerFinished
<1>13. CASE ListenerReady
  <2>1. Lands("interest") /\ th'[t].finished = th[t].finished
    <3>1. th' \in ThreadStates
      BY <1>0, <1>1, <1>13, ThreadMoves, Zenon DEF ListenerReady
    <3> QED BY <1>0, <1>13, <3>1 DEF ListenerReady, ThreadStates
  <2>2. StreamKept
    BY <1>0, <1>2, <1>13 DEF ListenerReady, StreamKept, StreamStates
  <2>3. SourceKept
    BY <1>0, <1>3, <1>13 DEF ListenerReady
  <2>4. Seen(t)'
    BY <1>0, <2>1, <2>3, <1>13 DEF ListenerReady, Seen, SourceKept, SourceFinished
  <2> QED BY <1>4, <1>13, <2>1, <2>2, <2>3, <2>4 DEF ListenerReady
<1>14. CASE ListenerInterest
  <2>1. Lands("errorInterest") /\ th'[t].finished = th[t].finished
    <3>1. th' \in ThreadStates
      BY <1>0, <1>1, <1>14, ThreadMoves, Zenon DEF ListenerInterest
    <3> QED BY <1>0, <1>14, <3>1 DEF ListenerInterest, ThreadStates
  <2>2. StreamKept
    BY <1>0, <1>2, <1>14 DEF ListenerInterest
  <2>3. SourceKept
    BY <1>0, <1>3, <1>14 DEF ListenerInterest, SourceKept, SourceStates, SourceReady, SourceFinished
  <2>4. Seen(t)'
    BY <1>0, <2>1, <2>3, <1>14 DEF ListenerInterest, Seen, SourceKept, SourceFinished
  <2> QED BY <1>4, <1>14, <2>1, <2>2, <2>3, <2>4 DEF ListenerInterest
<1>15. CASE ListenerErrorInterest
  <2>1. Lands("lookAgain") /\ th'[t].finished = th[t].finished
    <3>1. th' \in ThreadStates
      BY <1>0, <1>1, <1>15, ThreadMoves, Zenon DEF ListenerErrorInterest
    <3> QED BY <1>0, <1>15, <3>1 DEF ListenerErrorInterest, ThreadStates
  <2>2. StreamKept
    BY <1>0, <1>2, <1>15 DEF ListenerErrorInterest
  <2>3. SourceKept
    BY <1>0, <1>3, <1>15 DEF ListenerErrorInterest, SourceKept, SourceStates, SourceReady, SourceFinished
  <2>4. Seen(t)'
    BY <1>0, <2>1, <2>3, <1>15 DEF ListenerErrorInterest, Seen, SourceKept, SourceFinished
  <2> QED BY <1>4, <1>15, <2>1, <2>2, <2>3, <2>4 DEF ListenerErrorInterest
<1>16. CASE ListenerLookAgain
  <2>1. Lands(IF th[t].finished \/ (~th[t].ready /\ SourceFinished) THEN "all" ELSE "lookReady") /\ th'[t].finished = th[t].finished
    <3>0. \/ th' = [th EXCEPT ![t].at = "all", ![t].back = "unlock"]
          \/ th' = [th EXCEPT ![t].at = "lookReady"]
      BY <1>16 DEF ListenerLookAgain
    <3>1. th' \in ThreadStates
      <4>1. [th EXCEPT ![t].at = "all", ![t].back = "unlock"] \in ThreadStates
        BY <1>0, <1>1, ThreadMoves, Zenon
      <4>2. [th EXCEPT ![t].at = "lookReady"] \in ThreadStates
        BY <1>0, <1>1, ThreadMoves, Zenon
      <4> QED BY <3>0, <4>1, <4>2
    <3> QED BY <1>0, <1>16, <3>1 DEF ListenerLookAgain, ThreadStates
  <2>2. StreamKept
    BY <1>0, <1>2, <1>16 DEF ListenerLookAgain
  <2>3. SourceKept
    BY <1>0, <1>3, <1>16 DEF ListenerLookAgain
  <2>4. Seen(t)'
    BY <1>0, <2>1, <2>3, <1>16 DEF ListenerLookAgain, Seen, SourceKept, SourceFinished
  <2> QED BY <1>4, <1>16, <2>1, <2>2, <2>3, <2>4 DEF ListenerLookAgain
<1>17. CASE ListenerLookReady
  <2>1. Lands(IF th[t].ready \/ SourceReady THEN "scheduleInitial" ELSE "unlock") /\ th'[t].finished = th[t].finished
    <3>0. \/ th' = [th EXCEPT ![t].at = "scheduleInitial", ![t].back = "unlock"]
          \/ th' = [th EXCEPT ![t].at = "unlock"]
      BY <1>17 DEF ListenerLookReady
    <3>1. th' \in ThreadStates
      <4>1. [th EXCEPT ![t].at = "scheduleInitial", ![t].back = "unlock"] \in ThreadStates
        BY <1>0, <1>1, ThreadMoves, Zenon
      <4>2. [th EXCEPT ![t].at = "unlock"] \in ThreadStates
        BY <1>0, <1>1, ThreadMoves, Zenon
      <4> QED BY <3>0, <4>1, <4>2
    <3> QED BY <1>0, <1>17, <3>1 DEF ListenerLookReady, ThreadStates
  <2>2. StreamKept
    BY <1>0, <1>2, <1>17 DEF ListenerLookReady
  <2>3. SourceKept
    BY <1>0, <1>3, <1>17 DEF ListenerLookReady
  <2>4. Seen(t)'
    BY <1>0, <2>1, <2>3, <1>17 DEF ListenerLookReady, Seen, SourceKept, SourceFinished
  <2> QED BY <1>4, <1>17, <2>1, <2>2, <2>3, <2>4 DEF ListenerLookReady
<1>18. CASE ListenerUnlock
  <2>1. Lands("free") /\ th'[t].finished = FALSE
    <3>1. th' \in ThreadStates
      BY <1>0, <1>1, <1>18, ThreadMoves, Zenon DEF ListenerUnlock
    <3> QED BY <1>0, <1>18, <3>1 DEF ListenerUnlock, ThreadStates
  <2>2. StreamKept
    BY <1>0, <1>2, <1>18 DEF ListenerUnlock
  <2>3. SourceKept
    BY <1>0, <1>3, <1>18 DEF ListenerUnlock
  <2>4. Seen(t)'
    BY <1>0, <2>1, <2>3, <1>18 DEF ListenerUnlock, Seen, SourceKept, SourceFinished
  <2> QED BY <1>4, <1>18, <2>1, <2>2, <2>3, <2>4 DEF ListenerUnlock
<1>20. CASE Close
  <2>1. Lands("close") /\ th'[t].finished = th[t].finished
    <3>1. th' \in ThreadStates
      BY <1>0, <1>1, <1>20, ThreadMoves, Zenon DEF Close
    <3> QED BY <1>0, <1>20, <3>1 DEF Close, ThreadStates
  <2>2. StreamKept
    BY <1>0, <1>2, <1>20 DEF Close, StreamKept, StreamStates
  <2>3. SourceKept
    BY <1>0, <1>3, <1>20 DEF Close
  <2>4. Seen(t)'
    BY <1>0, <2>1, <2>3, <1>20 DEF Close, Seen, SourceKept, SourceFinished
  <2> QED BY <1>4, <1>20, <2>1, <2>2, <2>3, <2>4 DEF Close
<1>21. CASE CloseClears
  <2>1. Lands("free") /\ th'[t].finished = th[t].finished
    <3>1. th' \in ThreadStates
      BY <1>0, <1>1, <1>21, ThreadMoves, Zenon DEF CloseClears
    <3> QED BY <1>0, <1>21, <3>1 DEF CloseClears, ThreadStates
  <2>2. StreamKept
    BY <1>0, <1>2, <1>21 DEF CloseClears, StreamKept, StreamStates
  <2>3. SourceKept
    BY <1>0, <1>3, <1>21 DEF CloseClears
  <2>4. Seen(t)'
    BY <1>0, <2>1, <2>3, <1>21 DEF CloseClears, Seen, SourceKept, SourceFinished
  <2> QED BY <1>4, <1>21, <2>1, <2>2, <2>3, <2>4 DEF CloseClears
<1>10. CASE BlockingRead
  <2>0. At(t, "start") /\ UNCHANGED stream /\ Others /\ ~stream.listener
    BY <1>0, <1>10 DEF BlockingRead, Registered
  <2>1. CASE source.error /\ Call(t, "notify", "free") /\ UNCHANGED source
    <3>1. Lands("notify") /\ th'[t].finished = th[t].finished
      <4>1. th' \in ThreadStates
        BY <1>0, <1>1, <2>1, ThreadMoves, Zenon
      <4> QED BY <1>0, <2>1, <4>1 DEF ThreadStates
    <3>2. Seen(t)'
      BY <1>0, <2>1, <3>1 DEF Seen, SourceFinished
    <3> QED BY <1>2, <1>3, <1>4, <2>0, <2>1, <3>1, <3>2
  <2>2. ASSUME NEW n \in 1 .. source.data, source.data > 0, UNCHANGED th,
               source' = [source EXCEPT !.data = source.data - n]
        PROVE  Inv'
    <3>1. source.data \in Nat /\ source.data - n \in Nat
      BY <1>0, <2>2 DEF SourceStates
    <3>2. source' \in SourceStates /\ ~SourceFinished
      BY <1>0, <2>2, <3>1 DEF SourceStates, SourceFinished
    <3>3. SourceKept /\ StreamKept
      BY <1>2, <2>0, <3>2 DEF SourceKept
    <3>4. Seen(t)' /\ th'[t].at \in AppLabels \ {"swap"} /\ ~stream'.listener
      BY <1>0, <2>0, <2>2, <3>2 DEF Seen, AppLabels
    <3> QED BY <1>0, <2>0, <2>2, <3>3, <3>4, AppMoves
  <2> QED BY <1>10, <2>1, <2>2 DEF BlockingRead
<1>19. CASE WorkerReads
  <2>1. Lands("isReady") /\ th'[t].finished = th[t].finished
    <3>1. th' \in ThreadStates
      BY <1>0, <1>1, <1>19, ThreadMoves, Zenon DEF WorkerReads
    <3> QED BY <1>0, <1>19, <3>1 DEF WorkerReads, ThreadStates
  <2>2. StreamKept /\ SourceKept /\ Others /\ style # "callback"
    BY <1>2, <1>3, <1>19 DEF WorkerReads
  <2>3. Seen(t)'
    BY <1>0, <1>19, <2>1 DEF WorkerReads, Seen, SourceFinished
  <2> QED BY <2>1, <2>2, <2>3, AppMoves
<1> QED BY <1>10, <1>11, <1>12, <1>13, <1>14, <1>15, <1>16, <1>17, <1>18, <1>19, <1>20, <1>21
        DEF Registers

-----------------------------------------------------------------------------
(* The parts of the invariant that a step keeps when it leaves alone what   *)
(* each is about.                                                           *)
LEMMA CallbackKept ==
    ASSUME Inv, NEW t \in Threads, Moves(t),
           t \in Pool => (Inside(t)' => Inside(t)),
           stream.scheduled => stream'.scheduled,
           Queued("data")' => Queued("data"), Once("data")'
    PROVE  OneCallback'
<1>1. \A p \in Pool : Inside(p)' => Inside(p)
  <2> SUFFICES ASSUME NEW p \in Pool, p # t PROVE Inside(p)' => Inside(p)
      OBVIOUS
  <2>1. th'[p] = th[p]
    BY DEF Moves, Threads
  <2> QED BY <2>1 DEF Inside
<1> QED BY <1>1 DEF Inv, OneCallback

(* The end is told once, as long as no second task for it comes up. *)
LEMMA EndKept ==
    ASSUME Inv, NEW t \in Threads, Moves(t),
           t \in Pool /\ th'[t].at = "allTask" => th[t].at = "allTask",
           stream.allNotified => stream'.allNotified,
           Queued("allTask")' => Queued("allTask"), Once("allTask")',
           Heard({"all"})' <=> Heard({"all"})
    PROVE  OneEnd'
<1>1. \A p \in Pool : th'[p].at = "allTask" => th[p].at = "allTask"
  BY DEF Moves, Threads
<1>2. OneEnd /\ (SourceFinished => SourceFinished')
  BY DEF Inv, Moves
<1> QED BY <1>1, <1>2 DEF OneEnd, OneNotice, Begun

(* The same for the error. *)
LEMMA ErrorKept ==
    ASSUME Inv, NEW t \in Threads, Moves(t),
           t \in Pool /\ th'[t].at = "errorTask" => th[t].at = "errorTask",
           stream.errorNotified => stream'.errorNotified,
           stream.error # "none" => stream'.error # "none",
           Queued("errorTask")' => Queued("errorTask"), Once("errorTask")',
           Heard(Errors)' <=> Heard(Errors)
    PROVE  OneError'
<1>1. \A p \in Pool : th'[p].at = "errorTask" => th[p].at = "errorTask"
  BY DEF Moves, Threads
<1>2. OneError
  BY DEF Inv
<1> QED BY <1>1, <1>2 DEF OneError, OneNotice, Begun

(* What was heard stays legal: the first error is not replaced. *)
LEMMA SequenceKept ==
    ASSUME Inv, NEW t \in Threads, Moves(t), heard' = heard,
           stream.error # "none" => stream'.error = stream.error
    PROVE  CallbackSequence'
<1>1. CallbackSequence /\ (SourceFinished => SourceFinished')
  BY DEF Inv, Moves
<1>2. Heard({"all"})' <=> Heard({"all"})
  BY DEF Heard
<1> QED BY <1>1, <1>2 DEF CallbackSequence

(* The queue of the executor, as far as one task is concerned. *)
LEMMA AppendTask ==
    ASSUME tasks \in Seq(Tasks), NEW k \in Tasks, tasks' = Append(tasks, k)
    PROVE  /\ tasks' \in Seq(Tasks)
           /\ \A x : Queued(x)' <=> Queued(x) \/ x = k
           /\ \A x : x # k => (Once(x)' <=> Once(x))
           /\ ~Queued(k) => Once(k)'
<1>1. /\ tasks' \in Seq(Tasks) /\ Len(tasks') = Len(tasks) + 1 /\ Len(tasks) \in Nat
      /\ DOMAIN tasks = 1 .. Len(tasks) /\ DOMAIN tasks' = 1 .. (Len(tasks) + 1)
      /\ \A i \in 1 .. Len(tasks) : tasks'[i] = tasks[i]
      /\ tasks'[Len(tasks) + 1] = k
  BY AppendProperties
<1> DEFINE n == Len(tasks)
<1> HIDE DEF n
<1>2. /\ n \in Nat /\ DOMAIN tasks = 1 .. n /\ DOMAIN tasks' = 1 .. (n + 1)
      /\ \A i \in 1 .. n : tasks'[i] = tasks[i]
      /\ tasks'[n + 1] = k
  BY <1>1 DEF n
<1>3. \A i \in 1 .. (n + 1) : i = n + 1 \/ i \in 1 .. n
  BY <1>2
<1>4. n + 1 \in 1 .. (n + 1) /\ \A i \in 1 .. n : i \in 1 .. (n + 1) /\ i # n + 1
  BY <1>2
<1>5. \A x : Queued(x)' <=> Queued(x) \/ x = k
  BY <1>2, <1>3, <1>4 DEF Queued
<1>6. \A x : x # k => (Once(x)' <=> Once(x))
  BY <1>2, <1>3, <1>4 DEF Once
<1>7. ~Queued(k) => Once(k)'
  BY <1>2, <1>3, <1>4 DEF Once, Queued
<1> QED BY <1>1, <1>5, <1>6, <1>7

(* A task that the executor begins leaves the queue. *)
LEMMA TakeTask ==
    ASSUME tasks \in Seq(Tasks), tasks # <<>>, tasks' = Tail(tasks)
    PROVE  /\ tasks' \in Seq(Tasks) /\ Head(tasks) \in Tasks /\ Queued(Head(tasks))
           /\ \A x : Queued(x)' => Queued(x)
           /\ \A x : Once(x) => Once(x)'
           /\ \A x : x = Head(tasks) /\ Once(x) => ~Queued(x)'
<1>1. /\ tasks' \in Seq(Tasks) /\ Len(tasks) \in Nat /\ Len(tasks) > 0
      /\ DOMAIN tasks = 1 .. Len(tasks) /\ DOMAIN tasks' = 1 .. (Len(tasks) - 1)
      /\ \A i \in 1 .. (Len(tasks) - 1) : tasks'[i] = tasks[i + 1]
      /\ Head(tasks) = tasks[1] /\ tasks[1] \in Tasks
  BY HeadTailProperties
<1> DEFINE n == Len(tasks)
<1> HIDE DEF n
<1>2. /\ n \in Nat /\ n > 0 /\ DOMAIN tasks = 1 .. n /\ DOMAIN tasks' = 1 .. (n - 1)
      /\ \A i \in 1 .. (n - 1) : tasks'[i] = tasks[i + 1]
      /\ Head(tasks) = tasks[1]
  BY <1>1 DEF n
<1>3. 1 \in 1 .. n /\ \A i \in 1 .. (n - 1) : i + 1 \in 1 .. n /\ i + 1 # 1
  BY <1>2
<1>4. \A i, j \in 1 .. (n - 1) : i + 1 = j + 1 => i = j
  BY <1>2
<1>5. Queued(Head(tasks)) /\ \A x : Queued(x)' => Queued(x)
  BY <1>2, <1>3 DEF Queued
<1>6. \A x : Once(x) => Once(x)'
  BY <1>2, <1>3, <1>4 DEF Once
<1>7. \A x : x = Head(tasks) /\ Once(x) => ~Queued(x)'
  BY <1>2, <1>3 DEF Once, Queued
<1> QED BY <1>1, <1>5, <1>6, <1>7

-----------------------------------------------------------------------------
(* A thread that returns from a scheduling call is where it was called: a   *)
(* thread of the executor stays in its callback, or stays outside.          *)
LEMMA BackMoves ==
    ASSUME Inv, NEW t \in Threads, Back(t),
           th[t].at \in {"schedule", "scheduleInitial", "swap", "all", "notify"},
           UNCHANGED <<source, style, refused>>,
           stream'.listener = stream.listener, stream'.active = stream.active,
           Queued("data")' => stream.listener
    PROVE  /\ th' \in ThreadStates /\ Moves(t)
           /\ t \in Pool => (Inside(t)' <=> Inside(t))
           /\ th'[t].at \notin {"allTask", "errorTask"}
<1>0. TypeOK /\ Place(t) /\ Seen(t) /\ (t \in Pool => WindowOf(t)) /\ Registered
  BY DEF Inv, Places, EndSeen, Window
<1>1. th' \in ThreadStates
  <2>1. th[t].back \in Labels /\ "free" \in Backs
    BY <1>0, ThreadMoves, Zenon DEF TypeOK, Backs, Labels, AppLabels, ListenerLabels, PoolLabels, DataLabels,
       OpenLabels
  <2> QED BY <1>0, <2>1, ThreadMoves, Zenon DEF Back, TypeOK
<1>2. /\ \A u \in Threads \ {t} : th'[u] = th[u]
      /\ th'[t].at = th[t].back /\ th'[t].back = "free" /\ th'[t].finished = th[t].finished
  BY <1>0 DEF Back, TypeOK, ThreadStates
<1>3. /\ t = "source" => th'[t].at = "free"
      /\ t = "app" => th'[t].at \in {"free", "unlock", "lookAgain"}
      /\ t \in Pool => th'[t].at \in {"free", "return", "thrown"}
  BY <1>0, <1>2 DEF Place
<1>4. t = "app" \/ t = "source" \/ t \in Pool
  BY ThreadKinds
<1>5. Place(t)'
  BY <1>2, <1>3, <1>4, ThreadKinds DEF Place, SourceLabels, AppLabels, ListenerLabels, PoolLabels,
     DataLabels, OpenLabels, ReadLabels
<1>6. th'[t].at \notin {"allTask", "errorTask", "start", "swap", "all", "permit", "waiting",
                        "read", "take"}
  BY <1>3, <1>4
<1>7. t \in Pool => (Inside(t)' <=> Inside(t)) /\ (Open(t)' => Open(t))
  BY <1>0, <1>2, <1>3 DEF Place, Inside, Open, DataLabels, OpenLabels, ReadLabels
<1>8. (SourceFinished' <=> SourceFinished) /\ (SourceReady' <=> SourceReady)
  BY DEF SourceFinished, SourceReady
<1>9. Seen(t)' /\ (t \in Pool => WindowOf(t)')
  BY <1>0, <1>2, <1>6, <1>7, <1>8 DEF Seen, WindowOf
<1>10. t \in Pool /\ Inside(t) => stream.listener
  BY <1>0 DEF Registered
<1>11. Moves(t)
  BY <1>2, <1>5, <1>6, <1>7, <1>8, <1>9, <1>10 DEF Moves
<1> QED BY <1>1, <1>6, <1>7, <1>11

(* An error adds its own task to the queue, at most. *)
LEMMA BodyErrorFields ==
    ASSUME Inv, NEW e \in Errors, BodyError(e)
    PROVE  /\ stream' \in StreamStates /\ tasks' \in Seq(Tasks)
           /\ stream'.listener = stream.listener /\ stream'.active = stream.active
           /\ stream'.scheduled = stream.scheduled
           /\ stream'.allNotified = stream.allNotified
           /\ stream'.error = IF stream.error = "none" THEN e ELSE stream.error
           /\ stream'.error # "none"
           /\ \A k \in {"data", "allTask"} : (Queued(k)' <=> Queued(k)) /\ Once(k)'
           /\ \/ UNCHANGED <<tasks, stream.errorNotified>>
              \/ /\ ~stream.errorNotified /\ stream'.errorNotified
                 /\ Once("errorTask")'
<1> DEFINE notify == ~stream.closed /\ stream.listener /\ ~stream.errorNotified
<1>0. /\ stream \in StreamStates /\ tasks \in Seq(Tasks)
      /\ OneCallback /\ OneEnd /\ OneError
  BY DEF Inv, TypeOK
<1>1. /\ stream' \in StreamStates
      /\ stream'.listener = stream.listener /\ stream'.active = stream.active
      /\ stream'.scheduled = stream.scheduled /\ stream'.allNotified = stream.allNotified
      /\ stream'.errorNotified = (stream.errorNotified \/ notify)
      /\ stream'.error = IF stream.error = "none" THEN e ELSE stream.error
  BY <1>0 DEF BodyError, StreamStates
<1>2. stream'.error # "none"
  BY <1>1 DEF Errors
<1>3. CASE notify
  <2>1. tasks' = Append(tasks, "errorTask") /\ "errorTask" \in Tasks
    BY <1>3 DEF BodyError, Tasks
  <2>2. /\ tasks' \in Seq(Tasks)
        /\ \A x : Queued(x)' <=> Queued(x) \/ x = "errorTask"
        /\ \A x : x # "errorTask" => (Once(x)' <=> Once(x))
        /\ ~Queued("errorTask") => Once("errorTask")'
    BY <1>0, <2>1, AppendTask
  <2>3. ~Queued("errorTask")
    BY <1>0, <1>3 DEF OneError
  <2>4. \A k \in {"data", "allTask"} : (Queued(k)' <=> Queued(k)) /\ Once(k)'
    BY <1>0, <2>2 DEF OneCallback, OneEnd, OneNotice
  <2> QED BY <1>1, <1>2, <1>3, <2>2, <2>3, <2>4
<1>4. CASE ~notify
  <2>1. tasks' = tasks
    BY <1>4 DEF BodyError
  <2>2. \A x : (Queued(x)' <=> Queued(x)) /\ (Once(x)' <=> Once(x))
    BY <2>1 DEF Queued, Once
  <2>3. \A k \in {"data", "allTask"} : (Queued(k)' <=> Queued(k)) /\ Once(k)'
    BY <1>0, <2>2 DEF OneCallback, OneEnd, OneNotice
  <2>4. stream'.errorNotified = stream.errorNotified
    BY <1>0, <1>1, <1>4 DEF StreamStates
  <2> QED BY <1>0, <1>1, <1>2, <2>1, <2>3, <2>4
<1> QED BY <1>3, <1>4

(* The first error stays, and its task is queued once. *)
LEMMA BodyErrorKeeps ==
    ASSUME Inv, NEW t \in Threads, NEW e \in Errors, BodyError(e), Moves(t),
           t \in Pool => th'[t].at # "errorTask" /\ (Inside(t)' => Inside(t)),
           Heard(Errors)' <=> Heard(Errors)
    PROVE  OneCallback' /\ OneError'
<1>0. OneError
  BY DEF Inv
<1>1. OneCallback'
  BY BodyErrorFields, CallbackKept
<1>2. CASE UNCHANGED <<tasks, stream.errorNotified>>
  <2>1. (Queued("errorTask")' <=> Queued("errorTask")) /\ (Once("errorTask")' <=> Once("errorTask"))
    BY <1>2 DEF Queued, Once
  <2> QED BY <1>0, <1>1, <1>2, <2>1, BodyErrorFields, ErrorKept DEF OneError, OneNotice
<1>3. CASE ~stream.errorNotified /\ stream'.errorNotified /\ Once("errorTask")'
  <2>1. ~Heard(Errors) /\ \A p \in Pool : th[p].at # "errorTask"
    BY <1>0, <1>3 DEF OneError, Begun
  <2>2. \A p \in Pool : th'[p].at # "errorTask"
    BY <2>1 DEF Moves, Threads
  <2> QED BY <1>1, <1>3, <2>1, <2>2, BodyErrorFields DEF OneError, OneNotice, Begun
<1> QED BY <1>2, <1>3, BodyErrorFields

(* scheduleDataAvailable(), scheduleAllDataRead() and notifyBodyError(), on *)
(* whatever thread they are called.                                         *)
LEMMA SchedulesKeep ==
    ASSUME Inv, NEW t \in Threads, Schedules(t)
    PROVE  Inv'
<1> USE DEF At
<1>0. /\ TypeOK /\ Place(t) /\ Seen(t) /\ (t \in Pool => WindowOf(t)) /\ Registered
      /\ OneCallback /\ OneEnd /\ OneError
      /\ stream \in StreamStates /\ th \in ThreadStates /\ tasks \in Seq(Tasks)
  BY DEF Inv, Places, EndSeen, Window, TypeOK
<1>1. CASE ScheduleDataAvailable(t)
  <2>1. /\ th' = [th EXCEPT ![t].at = "swap"] /\ stream.listener
        /\ th[t].at \in {"schedule", "scheduleInitial"}
        /\ UNCHANGED <<source, stream, tasks, style, heard, refused>>
    BY <1>1 DEF ScheduleDataAvailable, Goto
  <2>2. TypeOK'
    <3>1. th' \in ThreadStates
      BY <1>0, <2>1, AllLabels, ThreadMoves, Zenon
    <3> QED BY <1>0, <2>1, <3>1 DEF TypeOK
  <2>3. /\ \A u \in Threads \ {t} : th'[u] = th[u]
        /\ th'[t].at = "swap" /\ th'[t].back = th[t].back /\ th'[t].finished = th[t].finished
    BY <1>0, <2>1 DEF ThreadStates
  <2>4. t \in Pool => ~Inside(t)' /\ ~Open(t)' /\ th[t].back = "free"
    BY <1>0, <2>1, <2>3 DEF Place, Inside, Open, DataLabels, OpenLabels, ReadLabels
  <2>5. Place(t)'
    BY <1>0, <2>1, <2>3, <2>4 DEF Place, SourceLabels, AppLabels, PoolLabels
  <2>6. Seen(t)' /\ (t \in Pool => WindowOf(t)')
    BY <1>0, <2>1, <2>3, <2>4 DEF Seen, WindowOf, SourceFinished
  <2>7. Moves(t)
    BY <1>0, <2>1, <2>3, <2>4, <2>5, <2>6 DEF Moves, SourceFinished, SourceReady
  <2>8. Quiet(t)
    BY <2>1, <2>3, <2>4 DEF Quiet
  <2> QED BY <2>2, <2>7, <2>8, QuietKeeps
<1>2. CASE ScheduleNothing(t)
  <2>1. /\ Back(t) /\ th[t].at \in {"schedule", "scheduleInitial"}
        /\ UNCHANGED <<source, stream, tasks, style, heard, refused>>
    BY <1>2 DEF ScheduleNothing
  <2>2. Queued("data")' => stream.listener
    BY <1>0, <2>1 DEF Queued, Registered
  <2>3. /\ th' \in ThreadStates /\ Moves(t)
        /\ t \in Pool => (Inside(t)' <=> Inside(t))
        /\ th'[t].at \notin {"allTask", "errorTask"}
    BY <2>1, <2>2, BackMoves
  <2>4. TypeOK' /\ Quiet(t)
    BY <1>0, <2>1, <2>3 DEF TypeOK, Quiet
  <2> QED BY <2>3, <2>4, QuietKeeps
<1>3. CASE ScheduleSwap(t)
  <2>1. /\ Back(t) /\ th[t].at = "swap" /\ stream' = [stream EXCEPT !.scheduled = TRUE]
        /\ tasks' = IF stream.scheduled THEN tasks ELSE Append(tasks, "data")
        /\ UNCHANGED <<source, style, heard, refused>>
    BY <1>3 DEF ScheduleSwap
  <2>2. /\ stream' \in StreamStates /\ stream'.scheduled
        /\ stream'.listener = stream.listener /\ stream'.active = stream.active
        /\ stream'.allNotified = stream.allNotified
        /\ stream'.errorNotified = stream.errorNotified /\ stream'.error = stream.error
    BY <1>0, <2>1 DEF StreamStates
  <2>3. stream.listener
    BY <1>0, <2>1 DEF Registered
  <2>4. /\ th' \in ThreadStates /\ Moves(t)
        /\ t \in Pool => (Inside(t)' <=> Inside(t))
        /\ th'[t].at \notin {"allTask", "errorTask"}
    BY <2>1, <2>2, <2>3, BackMoves
  <2>5. CASE stream.scheduled
    <3>1. TypeOK' /\ Quiet(t)
      BY <1>0, <2>1, <2>2, <2>4, <2>5 DEF TypeOK, Quiet
    <3> QED BY <2>4, <3>1, QuietKeeps
  <2>6. CASE ~stream.scheduled
    <3>1. tasks' = Append(tasks, "data") /\ "data" \in Tasks
      BY <2>1, <2>6 DEF Tasks
    <3>2. /\ tasks' \in Seq(Tasks)
          /\ \A x : Queued(x)' <=> Queued(x) \/ x = "data"
          /\ \A x : x # "data" => (Once(x)' <=> Once(x))
          /\ ~Queued("data") => Once("data")'
      BY <1>0, <3>1, AppendTask
    <3>3. ~Queued("data") /\ \A p \in Pool : ~Inside(p)
      BY <1>0, <2>6 DEF OneCallback
    <3>4. \A p \in Pool : ~Inside(p)'
      <4> TAKE p \in Pool
      <4>1. p # t => th'[p] = th[p]
        BY <2>4 DEF Moves, Threads
      <4> QED BY <2>4, <3>3, <4>1 DEF Inside
    <3>5. OneCallback'
      BY <2>2, <3>2, <3>3, <3>4 DEF OneCallback
    <3>6. \A k : Heard(k)' <=> Heard(k)
      BY <2>1 DEF Heard
    <3>7. OneEnd'
      BY <1>0, <2>2, <2>4, <3>2, <3>6, EndKept DEF OneEnd, OneNotice
    <3>8. OneError'
      BY <1>0, <2>2, <2>4, <3>2, <3>6, ErrorKept DEF OneError, OneNotice
    <3>9. CallbackSequence'
      BY <2>1, <2>2, <2>4, SequenceKept
    <3>10. TypeOK'
      BY <1>0, <2>1, <2>2, <2>4, <3>2 DEF TypeOK
    <3> QED BY <2>4, <3>5, <3>7, <3>8, <3>9, <3>10, MoveKeeps DEF Inv
  <2> QED BY <2>5, <2>6
<1>4. CASE ScheduleAllDataRead(t)
  <2>0. Back(t) /\ th[t].at = "all" /\ UNCHANGED <<source, style, heard, refused>>
    BY <1>4 DEF ScheduleAllDataRead
  <2>1. CASE UNCHANGED <<stream, tasks>>
    <3>1. Queued("data")' => stream.listener
      BY <1>0, <2>1 DEF Queued, Registered
    <3>2. /\ th' \in ThreadStates /\ Moves(t)
          /\ t \in Pool => (Inside(t)' <=> Inside(t))
          /\ th'[t].at \notin {"allTask", "errorTask"}
      BY <2>0, <2>1, <3>1, BackMoves
    <3>3. TypeOK' /\ Quiet(t)
      BY <1>0, <2>0, <2>1, <3>2 DEF TypeOK, Quiet
    <3> QED BY <3>2, <3>3, QuietKeeps
  <2>2. CASE /\ Active /\ stream.listener /\ ~stream.allNotified
             /\ stream' = [stream EXCEPT !.allNotified = TRUE]
             /\ tasks' = Append(tasks, "allTask")
    <3>1. /\ stream' \in StreamStates /\ stream'.scheduled = stream.scheduled
          /\ stream'.listener = stream.listener /\ stream'.active = stream.active
          /\ stream'.allNotified
          /\ stream'.errorNotified = stream.errorNotified /\ stream'.error = stream.error
      BY <1>0, <2>2 DEF StreamStates
    <3>2. /\ tasks' \in Seq(Tasks)
          /\ \A x : Queued(x)' <=> Queued(x) \/ x = "allTask"
          /\ \A x : x # "allTask" => (Once(x)' <=> Once(x))
          /\ ~Queued("allTask") => Once("allTask")'
      <4>1. "allTask" \in Tasks
        BY DEF Tasks
      <4> QED BY <1>0, <2>2, <4>1, AppendTask
    <3>3. /\ th' \in ThreadStates /\ Moves(t)
          /\ t \in Pool => (Inside(t)' <=> Inside(t))
          /\ th'[t].at \notin {"allTask", "errorTask"}
      BY <2>0, <2>2, <3>1, BackMoves
    <3>4. /\ ~Queued("allTask") /\ ~Heard({"all"})
          /\ \A p \in Pool : th[p].at # "allTask"
      BY <1>0, <2>2 DEF OneEnd, Begun
    <3>5. \A p \in Pool : th'[p].at # "allTask"
      BY <3>3, <3>4 DEF Moves, Threads
    <3>6. SourceFinished'
      BY <1>0, <2>0, <3>3 DEF Seen, Moves
    <3>7. \A k : Heard(k)' <=> Heard(k)
      BY <2>0 DEF Heard
    <3>8. OneEnd'
      BY <3>1, <3>2, <3>4, <3>5, <3>6, <3>7 DEF OneEnd, OneNotice, Begun
    <3>9. OneCallback'
      BY <1>0, <3>1, <3>2, <3>3, CallbackKept DEF OneCallback
    <3>10. OneError'
      BY <1>0, <3>1, <3>2, <3>3, <3>7, ErrorKept DEF OneError, OneNotice
    <3>11. CallbackSequence'
      BY <2>0, <3>1, <3>3, SequenceKept
    <3>12. TypeOK'
      BY <1>0, <2>0, <3>1, <3>2, <3>3 DEF TypeOK
    <3> QED BY <3>3, <3>8, <3>9, <3>10, <3>11, <3>12, MoveKeeps DEF Inv
  <2> QED BY <1>4, <2>1, <2>2 DEF ScheduleAllDataRead
<1>5. CASE NotifyBodyError(t)
  <2>1. /\ Back(t) /\ th[t].at = "notify" /\ BodyError("source")
        /\ UNCHANGED <<source, style, heard, refused>>
    BY <1>5 DEF NotifyBodyError
  <2>2. "source" \in Errors
    BY DEF Errors
  <2>3. /\ stream' \in StreamStates /\ tasks' \in Seq(Tasks)
        /\ stream'.listener = stream.listener /\ stream'.active = stream.active
        /\ stream'.allNotified = stream.allNotified
        /\ stream.error # "none" => stream'.error = stream.error
        /\ \A k \in {"data", "allTask"} : (Queued(k)' <=> Queued(k)) /\ Once(k)'
    BY <2>1, <2>2, BodyErrorFields
  <2>4. Queued("data")' => stream.listener
    BY <1>0, <2>3 DEF Registered
  <2>5. /\ th' \in ThreadStates /\ Moves(t)
        /\ t \in Pool => (Inside(t)' <=> Inside(t))
        /\ th'[t].at \notin {"allTask", "errorTask"}
    BY <2>1, <2>3, <2>4, BackMoves
  <2>6. \A k : Heard(k)' <=> Heard(k)
    BY <2>1 DEF Heard
  <2>7. OneCallback' /\ OneError'
    BY <2>1, <2>2, <2>5, <2>6, BodyErrorKeeps
  <2>8. OneEnd'
    BY <2>3, <2>5, <2>6, EndKept
  <2>9. CallbackSequence'
    BY <2>1, <2>3, <2>5, SequenceKept
  <2>10. TypeOK'
    BY <1>0, <2>1, <2>3, <2>5 DEF TypeOK
  <2> QED BY <2>5, <2>7, <2>8, <2>9, <2>10, MoveKeeps DEF Inv
<1> QED BY <1>1, <1>2, <1>3, <1>4, <1>5 DEF Schedules

-----------------------------------------------------------------------------
(* A thread of the executor goes on in its task. *)
RunLabels ==
    {"data", "open", "enter", "isReady", "return", "thrown", "finally", "reset", "recheck",
     "recheckReady", "schedule", "all", "free", "allTask", "errorTask"}
Lands(p, a) ==
    /\ th' \in ThreadStates
    /\ \A u \in Threads \ {p} : th'[u] = th[u]
    /\ th'[p].at = a /\ th'[p].back = "free" /\ th'[p].finished = th[p].finished

(* It is in the callback or not, as its place tells. *)
LEMMA PoolGoto ==
    ASSUME Inv, NEW p \in Pool, NEW a \in RunLabels, th[p].at \notin {"all", "notify"},
           Goto(p, a) \/ Call(p, a, "free")
    PROVE  /\ Lands(p, a) /\ Place(p)'
           /\ Inside(p) <=> th[p].at \in DataLabels
           /\ Inside(p)' <=> a \in DataLabels
           /\ Open(p)' <=> a \in OpenLabels
<1>0. /\ p \in Threads /\ th \in ThreadStates /\ Place(p)
      /\ p # "app" /\ p # "source"
  BY ThreadKinds DEF Inv, Places, TypeOK, Threads
<1>1. th[p].back = "free"
  BY <1>0 DEF Place
<1>2. a \in Labels /\ "free" \in Backs /\ a \in PoolLabels
  BY DEF RunLabels, Labels, PoolLabels, DataLabels, OpenLabels, ReadLabels, Backs
<1>3. th' \in ThreadStates
  <2>1. [th EXCEPT ![p].at = a] \in ThreadStates
    BY <1>0, <1>2, ThreadMoves, Zenon
  <2>2. [th EXCEPT ![p].at = a, ![p].back = "free"] \in ThreadStates
    BY <1>0, <1>2, ThreadMoves, Zenon
  <2> QED BY <2>1, <2>2 DEF Goto, Call
<1>4. Lands(p, a)
  BY <1>0, <1>1, <1>3 DEF Lands, Goto, Call, ThreadStates
<1>5. Place(p)'
  BY <1>0, <1>2, <1>4 DEF Place, Lands
<1> QED BY <1>1, <1>4, <1>5 DEF Lands, Inside, Open

(* What such a step does to the rest of the invariant. *)
LEMMA PoolMoves ==
    ASSUME Inv, NEW p \in Pool, NEW a \in RunLabels, th[p].at \notin {"all", "notify"},
           Goto(p, a) \/ Call(p, a, "free"),
           UNCHANGED <<source, style, refused>>,
           stream'.listener = stream.listener,
           a \in DataLabels => Inside(p) \/ stream.listener,
           Queued("data")' => stream.listener,
           a = "all" => SourceFinished,
           a \in OpenLabels => stream'.active,
           (stream.active => stream'.active) \/ Inside(p)
    PROVE  Moves(p) /\ Lands(p, a) /\ (Inside(p)' <=> a \in DataLabels)
<1>0. p \in Threads /\ p # "app" /\ Seen(p) /\ Registered
  BY ThreadKinds DEF Inv, EndSeen, Threads
<1>1. /\ Lands(p, a) /\ Place(p)'
      /\ Inside(p)' <=> a \in DataLabels
      /\ Open(p)' <=> a \in OpenLabels
  BY PoolGoto, Zenon
<1>2. (SourceFinished' <=> SourceFinished) /\ (SourceReady' <=> SourceReady)
  BY DEF SourceFinished, SourceReady
<1>3. a \notin {"start", "swap", "permit", "waiting", "read", "take"}
  BY DEF RunLabels
<1>4. Seen(p)' /\ WindowOf(p)'
  BY <1>0, <1>1, <1>2, <1>3 DEF Seen, WindowOf, Lands
<1>5. Inside(p) => stream.listener
  BY <1>0 DEF Registered
<1> QED BY <1>0, <1>1, <1>2, <1>3, <1>4, <1>5, Zenon DEF Moves, Lands

(* A step inside the task that begins or ends nothing. *)
LEMMA RunsOn ==
    ASSUME Inv, NEW p \in Pool, NEW a \in RunLabels \ {"allTask", "errorTask"},
           th[p].at \notin {"all", "notify"},
           Goto(p, a) \/ Call(p, a, "free"),
           UNCHANGED <<source, tasks, style, heard, refused>>,
           stream' \in StreamStates, stream'.listener = stream.listener,
           stream'.scheduled = stream.scheduled, stream'.allNotified = stream.allNotified,
           stream'.errorNotified = stream.errorNotified, stream'.error = stream.error,
           a \in DataLabels => Inside(p),
           a = "all" => SourceFinished,
           a \in OpenLabels => stream'.active,
           (stream.active => stream'.active) \/ Inside(p)
    PROVE  Inv'
<1>0. p \in Threads /\ TypeOK /\ Registered
  BY DEF Inv, Threads
<1>1. Queued("data")' => stream.listener
  BY <1>0 DEF Registered, Queued
<1>2. Moves(p) /\ Lands(p, a) /\ (Inside(p)' <=> a \in DataLabels)
  BY <1>1, PoolMoves
<1>3. TypeOK'
  BY <1>0, <1>2 DEF TypeOK, Lands
<1>4. Quiet(p)
  BY <1>2 DEF Quiet, Lands
<1> QED BY <1>0, <1>2, <1>3, <1>4, QuietKeeps

(* invokeDataAvailable(), but for the call of the listener and the reset. *)
LEMMA QuietRunsKeep ==
    ASSUME Inv, NEW p \in Pool,
           \/ DataBegin(p) \/ DataOpen(p) \/ DataReturn(p) \/ DataRecheck(p)
           \/ ListenerThrows(p)
           \/ DataClose(p) /\ At(p, "finally")
    PROVE  Inv'
<1> USE DEF At
<1>0. /\ stream \in StreamStates
      /\ th[p].at \in DataLabels => Inside(p)
      /\ th[p].at \in OpenLabels => stream.active
  BY DEF Inv, TypeOK, Inside, Window, WindowOf, Open
<1>1. /\ RunLabels \ {"allTask", "errorTask"} =
            {"data", "open", "enter", "isReady", "return", "thrown", "finally", "reset",
             "recheck", "recheckReady", "schedule", "all", "free"}
      /\ {"data", "open", "enter", "isReady", "return", "thrown", "finally", "reset"}
            \subseteq DataLabels
      /\ {"enter", "isReady", "return", "thrown"} \subseteq OpenLabels
      /\ \A a \in {"open", "finally", "reset"} : a \notin OpenLabels
      /\ \A a \in {"recheck", "recheckReady", "schedule", "all", "free"} :
            a \notin OpenLabels /\ a \notin DataLabels
  BY DEF RunLabels, DataLabels, OpenLabels, ReadLabels
<1>2. CASE DataBegin(p) /\ Active
  <2>1. /\ th[p].at = "data" /\ Goto(p, "open")
        /\ UNCHANGED <<source, tasks, style, heard, refused>>
        /\ stream' = [stream EXCEPT !.waiting = FALSE]
    BY <1>2 DEF DataBegin
  <2>2. /\ stream' \in StreamStates /\ stream'.listener = stream.listener
        /\ stream'.scheduled = stream.scheduled /\ stream'.allNotified = stream.allNotified
        /\ stream'.errorNotified = stream.errorNotified /\ stream'.error = stream.error
        /\ stream'.active = stream.active
    BY <1>0, <2>1 DEF StreamStates
  <2> QED BY <1>0, <1>1, <2>1, <2>2, RunsOn
<1>3. CASE DataBegin(p) /\ ~Active
  <2>1. /\ th[p].at = "data" /\ Goto(p, "finally")
        /\ UNCHANGED <<source, tasks, style, heard, refused>>
        /\ stream' = stream
    BY <1>3 DEF DataBegin
  <2> QED BY <1>0, <1>1, <2>1, RunsOn, Zenon
<1>4. CASE DataOpen(p)
  <2>1. /\ th[p].at = "open" /\ Goto(p, "enter")
        /\ UNCHANGED <<source, tasks, style, heard, refused>>
        /\ stream' = [stream EXCEPT !.active = TRUE, !.readyPermit = TRUE]
    BY <1>4 DEF DataOpen
  <2>2. /\ stream' \in StreamStates /\ stream'.listener = stream.listener
        /\ stream'.scheduled = stream.scheduled /\ stream'.allNotified = stream.allNotified
        /\ stream'.errorNotified = stream.errorNotified /\ stream'.error = stream.error
        /\ stream'.active
    BY <1>0, <2>1 DEF StreamStates
  <2> QED BY <1>0, <1>1, <2>1, <2>2, RunsOn
<1>5. CASE DataReturn(p)
  <2>1. /\ th[p].at = "return" /\ Goto(p, "finally")
        /\ UNCHANGED <<source, tasks, style, heard, refused>>
        /\ stream' = stream
    BY <1>5 DEF DataReturn
  <2> QED BY <1>0, <1>1, <2>1, RunsOn, Zenon
<1>6. CASE ListenerThrows(p)
  <2>1. /\ th[p].at = "isReady" /\ Goto(p, "thrown")
        /\ UNCHANGED <<source, tasks, style, heard, refused>>
        /\ stream' = stream
    BY <1>6 DEF ListenerThrows
  <2> QED BY <1>0, <1>1, <2>1, RunsOn
<1>7. CASE DataClose(p) /\ At(p, "finally")
  <2>1. /\ th[p].at = "finally" /\ Goto(p, "reset")
        /\ UNCHANGED <<source, tasks, style, heard, refused>>
        /\ stream' = [stream EXCEPT !.active = FALSE, !.readyPermit = FALSE]
    BY <1>7 DEF DataClose
  <2>2. /\ stream' \in StreamStates /\ stream'.listener = stream.listener
        /\ stream'.scheduled = stream.scheduled /\ stream'.allNotified = stream.allNotified
        /\ stream'.errorNotified = stream.errorNotified /\ stream'.error = stream.error
    BY <1>0, <2>1 DEF StreamStates
  <2> QED BY <1>0, <1>1, <2>1, <2>2, RunsOn
<1>8. CASE DataRecheck(p)
  <2>1. /\ th[p].at \in {"recheck", "recheckReady"}
        /\ \/ SourceFinished /\ Call(p, "all", "free")
           \/ Goto(p, "recheckReady") \/ Call(p, "schedule", "free") \/ Goto(p, "free")
        /\ UNCHANGED <<source, stream, tasks, style, heard, refused>>
    BY <1>8 DEF DataRecheck
  <2>2. CASE SourceFinished /\ Call(p, "all", "free")
    BY <1>0, <1>1, <2>1, <2>2, RunsOn
  <2>3. CASE Goto(p, "recheckReady") \/ Call(p, "schedule", "free") \/ Goto(p, "free")
    BY <1>0, <1>1, <2>1, <2>3, RunsOn
  <2> QED BY <2>1, <2>2, <2>3
<1> QED BY <1>2, <1>3, <1>4, <1>5, <1>6, <1>7, <1>8

-----------------------------------------------------------------------------
(* What the listener hears is added at the end; data after data is one run. *)
LEMMA HearAdds ==
    ASSUME heard \in Seq(Callbacks), NEW c \in Callbacks, Hear(c)
    PROVE  /\ heard' \in Seq(Callbacks)
           /\ \A S : Heard(S)' <=> Heard(S) \/ c \in S
<1>1. CASE heard' = heard /\ c = "data" /\ heard # <<>> /\ heard[Len(heard)] = "data"
  <2>1. Len(heard) \in DOMAIN heard
    BY <1>1, EmptySeq
  <2> QED BY <1>1, <2>1 DEF Heard
<1>2. CASE heard' = Append(heard, c)
  <2>1. /\ heard' \in Seq(Callbacks) /\ Len(heard) \in Nat
        /\ DOMAIN heard = 1 .. Len(heard) /\ DOMAIN heard' = 1 .. (Len(heard) + 1)
        /\ \A i \in 1 .. Len(heard) : heard'[i] = heard[i]
        /\ heard'[Len(heard) + 1] = c
    BY <1>2, AppendProperties
  <2>2. /\ \A i \in 1 .. (Len(heard) + 1) : i = Len(heard) + 1 \/ i \in 1 .. Len(heard)
        /\ Len(heard) + 1 \in 1 .. (Len(heard) + 1)
        /\ \A i \in 1 .. Len(heard) : i \in 1 .. (Len(heard) + 1)
    BY <2>1
  <2> QED BY <2>1, <2>2 DEF Heard
<1> QED BY <1>1, <1>2 DEF Hear

(* The sequence stays legal when the end comes once, after the body, and    *)
(* nothing follows an error.                                                *)
LEMMA HearKeeps ==
    ASSUME heard \in Seq(Callbacks), NEW c \in Callbacks, Hear(c), CallbackSequence,
           ~Heard(Errors), SourceFinished => SourceFinished',
           c = "all" => ~Heard({"all"}) /\ SourceFinished',
           c \in Errors => c = stream'.error
    PROVE  CallbackSequence'
<1>0. /\ Heard({"all"})' <=> Heard({"all"}) \/ c = "all"
      /\ \A i \in DOMAIN heard : heard[i] \notin Errors
      /\ Heard({"all"}) => SourceFinished
      /\ \A i, j \in DOMAIN heard : i < j => (heard[i] = "all" => heard[j] # "all")
  BY HearAdds DEF Heard, CallbackSequence
<1>1. CASE heard' = heard
  BY <1>0, <1>1 DEF CallbackSequence, Errors
<1>2. CASE heard' = Append(heard, c)
  <2>1. /\ Len(heard) \in Nat
        /\ DOMAIN heard = 1 .. Len(heard) /\ DOMAIN heard' = 1 .. (Len(heard) + 1)
        /\ \A i \in 1 .. Len(heard) : heard'[i] = heard[i] /\ heard[i] \in Callbacks
        /\ heard'[Len(heard) + 1] = c
    BY <1>2, AppendProperties
  <2> DEFINE n == Len(heard)
  <2>2. n \in Nat /\ \A i \in 1 .. n : heard'[i] \in {"data", "all"}
    BY <1>0, <2>1 DEF Callbacks
  <2>3. c = "all" => \A i \in 1 .. n : heard'[i] # "all"
    BY <2>1 DEF Heard
  <2> HIDE DEF n
  <2>4. \A i, j \in 1 .. (n + 1) : i < j => i \in 1 .. n /\ (j \in 1 .. n \/ j = n + 1)
    BY <2>2
  <2>5. \A i, j \in DOMAIN heard' :
           i < j => heard'[i] \in {"data", "all"} /\ (heard'[i] = "all" => heard'[j] # "all")
    <3>1. \A i, j \in 1 .. n : i < j => (heard'[i] = "all" => heard'[j] # "all")
      BY <1>0, <2>1 DEF n
    <3>2. heard'[n + 1] = c /\ DOMAIN heard' = 1 .. (n + 1)
      BY <2>1 DEF n
    <3> QED BY <2>2, <2>3, <2>4, <3>1, <3>2
  <2>6. \A i \in DOMAIN heard' :
           heard'[i] \in {"source", "listener"} => heard'[i] = stream'.error
    <3>1. heard'[n + 1] = c /\ DOMAIN heard' = 1 .. (n + 1)
      BY <2>1 DEF n
    <3>2. \A i \in 1 .. (n + 1) : i \in 1 .. n \/ i = n + 1
      BY <2>2
    <3> QED BY <2>2, <3>1, <3>2 DEF Errors
  <2>7. Heard({"all"})' => SourceFinished'
    BY <1>0
  <2> QED BY <2>5, <2>6, <2>7 DEF CallbackSequence
<1> QED BY <1>1, <1>2 DEF Hear

(* The executor begins a task: it was queued once and is begun by nobody else. *)
LEMMA PoolTakeKeeps ==
    ASSUME Inv, NEW p \in Pool, PoolTake(p)
    PROVE  Inv'
<1> DEFINE a == Head(tasks)
<1>0. /\ p \in Threads /\ TypeOK /\ Registered /\ OneCallback /\ OneEnd /\ OneError
      /\ tasks \in Seq(Tasks)
  BY DEF Inv, TypeOK, Threads
<1>1. /\ th[p].at = "free" /\ tasks # <<>> /\ tasks' = Tail(tasks) /\ Goto(p, a)
      /\ UNCHANGED <<source, stream, style, heard, refused>>
  BY DEF PoolTake, At
<1>2. /\ tasks' \in Seq(Tasks) /\ a \in Tasks /\ Queued(a)
      /\ \A x : Queued(x)' => Queued(x)
      /\ \A x : Once(x) => Once(x)'
      /\ \A x : x = a /\ Once(x) => ~Queued(x)'
  BY <1>0, <1>1, TakeTask
<1> HIDE DEF a
<1>3. /\ a \in RunLabels /\ a \notin {"all"} /\ a \notin OpenLabels
      /\ a \in DataLabels <=> a = "data"
      /\ a \in {"data", "allTask", "errorTask"}
  BY <1>2 DEF RunLabels, Tasks, OpenLabels, ReadLabels, DataLabels
<1>4. Queued("data")' => stream.listener
  BY <1>0, <1>2 DEF Registered
<1>5. a \in DataLabels => stream.listener
  BY <1>0, <1>2, <1>3 DEF Registered
<1>6. Moves(p) /\ Lands(p, a) /\ (Inside(p)' <=> a \in DataLabels)
  BY <1>1, <1>3, <1>4, <1>5, PoolMoves
<1>7. \A q \in Pool \ {p} : th'[q] = th[q] /\ (Inside(q)' <=> Inside(q))
  BY <1>6 DEF Moves, Inside, Threads
<1>8. \A k : Heard(k)' <=> Heard(k)
  BY <1>1 DEF Heard
<1>9. OneCallback'
  <2>1. CASE a = "data"
    <3>1. /\ ~Queued("data")' /\ Once("data")' /\ stream'.scheduled
          /\ \A q \in Pool : ~Inside(q)
      BY <1>0, <1>1, <1>2, <2>1 DEF OneCallback
    <3>2. \A q \in Pool \ {p} : ~Inside(q)'
      BY <1>7, <3>1
    <3> QED BY <3>1, <3>2 DEF OneCallback
  <2>2. CASE a # "data"
    BY <1>0, <1>1, <1>2, <1>3, <1>6, <2>2, CallbackKept DEF OneCallback
  <2> QED BY <2>1, <2>2
<1>10. OneEnd'
  <2>1. CASE a = "allTask"
    <3>1. /\ ~Queued("allTask")' /\ Once("allTask")' /\ stream'.allNotified
          /\ ~Heard({"all"})' /\ SourceFinished'
          /\ \A q \in Pool : th[q].at # "allTask"
      BY <1>0, <1>1, <1>2, <1>6, <1>8, <2>1 DEF OneEnd, OneNotice, Begun, Moves
    <3>2. \A q \in Pool \ {p} : th'[q].at # "allTask"
      BY <1>7, <3>1
    <3> QED BY <3>1, <3>2 DEF OneEnd, OneNotice
  <2>2. CASE a # "allTask"
    BY <1>0, <1>1, <1>2, <1>6, <1>8, <2>2, EndKept, Zenon DEF OneEnd, OneNotice, Lands
  <2> QED BY <2>1, <2>2
<1>11. OneError'
  <2>1. CASE a = "errorTask"
    <3>1. /\ ~Queued("errorTask")' /\ Once("errorTask")' /\ stream'.errorNotified
          /\ ~Heard(Errors)' /\ stream'.error # "none"
          /\ \A q \in Pool : th[q].at # "errorTask"
      BY <1>0, <1>1, <1>2, <1>8, <2>1 DEF OneError, OneNotice, Begun
    <3>2. \A q \in Pool \ {p} : th'[q].at # "errorTask"
      BY <1>7, <3>1
    <3> QED BY <3>1, <3>2 DEF OneError, OneNotice
  <2>2. CASE a # "errorTask"
    BY <1>0, <1>1, <1>2, <1>6, <1>8, <2>2, ErrorKept DEF OneError, OneNotice, Lands
  <2> QED BY <2>1, <2>2
<1>12. CallbackSequence'
  BY <1>0, <1>1, <1>6, SequenceKept
<1>13. TypeOK'
  BY <1>0, <1>1, <1>2, <1>6 DEF TypeOK, Lands
<1> QED BY <1>0, <1>6, <1>9, <1>10, <1>11, <1>12, <1>13, MoveKeeps DEF Inv

(* The callback ends and the next one may be scheduled. *)
LEMMA ResetKeeps ==
    ASSUME Inv, NEW p \in Pool, DataClose(p), At(p, "reset")
    PROVE  Inv'
<1>0. /\ p \in Threads /\ TypeOK /\ Registered /\ OneCallback /\ OneEnd /\ OneError
      /\ stream \in StreamStates
  BY DEF Inv, TypeOK, Threads
<1>1. /\ th[p].at = "reset" /\ Goto(p, "recheck")
      /\ stream' = [stream EXCEPT !.scheduled = FALSE]
      /\ UNCHANGED <<source, tasks, style, heard, refused>>
  BY DEF DataClose, At
<1>2. /\ stream' \in StreamStates /\ stream'.listener = stream.listener
      /\ stream'.active = stream.active /\ stream'.allNotified = stream.allNotified
      /\ stream'.errorNotified = stream.errorNotified /\ stream'.error = stream.error
  BY <1>0, <1>1 DEF StreamStates
<1>3. /\ \A k : (Queued(k)' <=> Queued(k)) /\ (Once(k)' <=> Once(k))
      /\ \A k : Heard(k)' <=> Heard(k)
  BY <1>1 DEF Queued, Once, Heard
<1>4. Queued("data")' => stream.listener
  BY <1>0, <1>3 DEF Registered
<1>5. "recheck" \in RunLabels /\ "recheck" \notin DataLabels /\ "recheck" \notin OpenLabels
  BY DEF RunLabels, DataLabels, OpenLabels, ReadLabels
<1>6. Moves(p) /\ Lands(p, "recheck") /\ ~Inside(p)'
  BY <1>1, <1>2, <1>4, <1>5, PoolMoves
<1>7. Inside(p)
  BY <1>1 DEF Inside, DataLabels
<1>8. ~Queued("data") /\ \A q \in Pool \ {p} : ~Inside(q)
  BY <1>0, <1>7 DEF OneCallback
<1>9. \A q \in Pool : ~Inside(q)'
  <2> SUFFICES ASSUME NEW q \in Pool \ {p} PROVE ~Inside(q)'
      BY <1>6
  <2>1. th'[q] = th[q]
    BY <1>6 DEF Moves, Threads
  <2> QED BY <1>8, <2>1 DEF Inside
<1>10. OneCallback'
  BY <1>0, <1>3, <1>8, <1>9 DEF OneCallback
<1>11. OneEnd'
  BY <1>0, <1>2, <1>3, <1>6, EndKept, Zenon DEF OneEnd, OneNotice, Lands
<1>12. OneError'
  BY <1>0, <1>2, <1>3, <1>6, ErrorKept, Zenon DEF OneError, OneNotice, Lands
<1>13. CallbackSequence'
  BY <1>0, <1>1, <1>2, <1>6, SequenceKept
<1>14. TypeOK'
  BY <1>0, <1>1, <1>2, <1>6 DEF TypeOK, Lands
<1> QED BY <1>0, <1>6, <1>10, <1>11, <1>12, <1>13, <1>14, MoveKeeps DEF Inv

-----------------------------------------------------------------------------
(* The listener is called, and may throw: an error is the last it hears, so *)
(* before onDataAvailable() and onAllDataRead() there was none.             *)
LEMMA CallsKeep ==
    ASSUME Inv, NEW p \in Pool,
           DataEnter(p) \/ DataThrown(p) \/ AllDataRead(p) \/ ErrorTold(p)
    PROVE  Inv'
<1> USE DEF At
<1>0. /\ p \in Threads /\ TypeOK /\ Registered /\ OneCallback /\ OneEnd /\ OneError
      /\ CallbackSequence
      /\ stream \in StreamStates /\ tasks \in Seq(Tasks) /\ heard \in Seq(Callbacks)
      /\ th[p].at \in DataLabels => Inside(p)
      /\ th[p].at \in OpenLabels => stream.active
      /\ Queued("data") => stream.listener
  BY DEF Inv, TypeOK, Threads, Inside, Window, WindowOf, Open, Registered
<1>1. /\ {"isReady", "return", "finally", "free"} \subseteq RunLabels \ {"allTask", "errorTask"}
      /\ {"enter", "isReady", "return", "thrown", "finally"} \subseteq DataLabels
      /\ {"enter", "isReady", "return", "thrown"} \subseteq OpenLabels
      /\ \A k \in {"free", "finally", "allTask", "errorTask"} : k \notin OpenLabels
      /\ \A k \in {"free", "allTask", "errorTask"} : k \notin DataLabels
  BY DEF RunLabels, DataLabels, OpenLabels, ReadLabels
<1>2. Active => ~Heard(Errors)
  BY <1>0 DEF Active, CallbackSequence, Heard, Errors
<1>3. tasks' = tasks => \A k : (Queued(k)' <=> Queued(k)) /\ (Once(k)' <=> Once(k))
  BY DEF Queued, Once
<1>4. heard' = heard => \A k : Heard(k)' <=> Heard(k)
  BY DEF Heard
<1>5. CASE DataEnter(p) /\ ~Active
  <2>1. /\ th[p].at = "enter" /\ Goto(p, "return")
        /\ UNCHANGED <<source, stream, tasks, style, heard, refused>>
    BY <1>5 DEF DataEnter
  <2> QED BY <1>0, <1>1, <2>1, RunsOn
<1>6. CASE DataEnter(p) /\ Active
  <2> DEFINE a == IF style = "callback" THEN "isReady" ELSE "return"
  <2>1. /\ th[p].at = "enter" /\ Goto(p, a) /\ Hear("data")
        /\ UNCHANGED <<source, stream, tasks, style, refused>>
    BY <1>6 DEF DataEnter
  <2>2. a \in RunLabels /\ a \in DataLabels /\ a \notin {"all", "allTask", "errorTask"}
    BY <1>1
  <2> HIDE DEF a
  <2>3. Moves(p) /\ Lands(p, a)
    BY <1>0, <1>1, <1>3, <2>1, <2>2, PoolMoves
  <2>4. /\ heard' \in Seq(Callbacks)
        /\ \A S : Heard(S)' <=> Heard(S) \/ "data" \in S
    BY <1>0, <2>1, HearAdds, Zenon DEF Callbacks
  <2>5. (Heard({"all"})' <=> Heard({"all"})) /\ (Heard(Errors)' <=> Heard(Errors))
    BY <2>4 DEF Errors
  <2>6. OneCallback'
    BY <1>0, <1>1, <1>3, <2>1, <2>3, CallbackKept DEF OneCallback
  <2>7. OneEnd'
    BY <1>0, <1>3, <2>1, <2>2, <2>3, <2>5, EndKept DEF OneEnd, OneNotice, Lands
  <2>8. OneError'
    BY <1>0, <1>3, <2>1, <2>2, <2>3, <2>5, ErrorKept, Zenon DEF OneError, OneNotice, Lands
  <2>9. CallbackSequence'
    BY <1>0, <1>2, <1>6, <2>1, <2>3, HearKeeps, Zenon DEF Callbacks, Errors, Moves
  <2>10. TypeOK'
    BY <1>0, <2>1, <2>3, <2>4, Zenon DEF TypeOK, Lands
  <2> QED BY <1>0, <2>3, <2>6, <2>7, <2>8, <2>9, <2>10, MoveKeeps DEF Inv
<1>7. CASE DataThrown(p)
  <2>1. /\ th[p].at = "thrown" /\ Goto(p, "finally") /\ BodyError("listener")
        /\ UNCHANGED <<source, style, heard, refused>> /\ "listener" \in Errors
    BY <1>7 DEF DataThrown, Errors
  <2>2. /\ stream' \in StreamStates /\ tasks' \in Seq(Tasks)
        /\ stream'.listener = stream.listener /\ stream'.active = stream.active
        /\ stream'.allNotified = stream.allNotified
        /\ stream.error # "none" => stream'.error = stream.error
        /\ \A k \in {"data", "allTask"} : (Queued(k)' <=> Queued(k)) /\ Once(k)'
    BY <2>1, BodyErrorFields
  <2>3. Moves(p) /\ Lands(p, "finally")
    BY <1>0, <1>1, <2>1, <2>2, PoolMoves
  <2>4. OneCallback' /\ OneError'
    BY <1>0, <1>1, <1>4, <2>1, <2>3, BodyErrorKeeps DEF Lands
  <2>5. OneEnd'
    BY <1>0, <1>4, <2>1, <2>2, <2>3, EndKept DEF Lands
  <2>6. CallbackSequence'
    BY <1>0, <2>1, <2>2, <2>3, SequenceKept, Zenon
  <2>7. TypeOK'
    BY <1>0, <2>1, <2>2, <2>3, Zenon DEF TypeOK, Lands
  <2> QED BY <1>0, <2>3, <2>4, <2>5, <2>6, <2>7, MoveKeeps DEF Inv
<1>8. CASE AllDataRead(p) /\ ~Active
  <2>1. /\ th[p].at = "allTask" /\ Goto(p, "free")
        /\ UNCHANGED <<source, stream, tasks, style, heard, refused>>
    BY <1>8 DEF AllDataRead
  <2> QED BY <1>0, <1>1, <2>1, RunsOn, Zenon
<1>9. CASE AllDataRead(p) /\ Active
  <2>1. /\ th[p].at = "allTask" /\ Goto(p, "free") /\ Hear("all")
        /\ UNCHANGED <<stream, tasks>> \/ BodyError("listener")
        /\ UNCHANGED <<source, style, refused>> /\ "listener" \in Errors
    BY <1>9 DEF AllDataRead, Errors
  <2>2. /\ stream' \in StreamStates /\ tasks' \in Seq(Tasks)
        /\ stream'.listener = stream.listener /\ stream'.active = stream.active
        /\ stream'.allNotified = stream.allNotified
        /\ \A k \in {"data", "allTask"} : (Queued(k)' <=> Queued(k)) /\ Once(k)'
    <3>1. CASE UNCHANGED <<stream, tasks>>
      BY <1>0, <1>3, <3>1 DEF OneCallback, OneEnd, OneNotice
    <3>2. CASE BodyError("listener")
      BY <2>1, <3>2, BodyErrorFields
    <3> QED BY <2>1, <3>1, <3>2
  <2>3. Moves(p) /\ Lands(p, "free") /\ ~Inside(p)'
    BY <1>0, <1>1, <2>1, <2>2, PoolMoves
  <2>4. /\ heard' \in Seq(Callbacks)
        /\ \A S : Heard(S)' <=> Heard(S) \/ "all" \in S
    BY <1>0, <2>1, HearAdds DEF Callbacks
  <2>5. Heard(Errors)' <=> Heard(Errors)
    BY <2>4 DEF Errors
  <2>6. Begun("allTask")
    BY <2>1 DEF Begun
  <2>7. /\ ~Queued("allTask") /\ stream.allNotified /\ ~Heard({"all"}) /\ SourceFinished
        /\ \A q \in Pool \ {p} : th[q].at # "allTask"
    BY <1>0, <2>1, <2>6, Zenon DEF OneEnd, OneNotice
  <2>8. \A q \in Pool : th'[q].at # "allTask"
    BY <2>3, <2>7, Zenon DEF Lands, Threads
  <2>9. OneEnd'
    BY <2>2, <2>7, <2>8, Zenon DEF OneEnd, OneNotice, Begun
  <2>10. OneCallback' /\ OneError'
    <3>1. CASE UNCHANGED <<stream, tasks>>
      <4>1. OneCallback'
        BY <1>0, <2>2, <2>3, <3>1, CallbackKept DEF OneCallback
      <4>2. OneError'
        BY <1>0, <1>3, <2>3, <2>5, <3>1, ErrorKept DEF OneError, OneNotice, Lands
      <4> QED BY <4>1, <4>2
    <3>2. CASE BodyError("listener")
      BY <1>0, <2>1, <2>3, <2>5, <3>2, BodyErrorKeeps, Zenon DEF Lands
    <3> QED BY <2>1, <3>1, <3>2, Zenon
  <2>11. CallbackSequence'
    BY <1>0, <1>2, <1>9, <2>1, <2>3, <2>7, HearKeeps, Zenon DEF Callbacks, Errors, Moves
  <2>12. TypeOK'
    BY <1>0, <2>1, <2>2, <2>3, <2>4, Zenon DEF TypeOK, Lands
  <2> QED BY <1>0, <2>3, <2>9, <2>10, <2>11, <2>12, MoveKeeps DEF Inv
<1>10. CASE ErrorTold(p) /\ stream.closed
  <2>1. /\ th[p].at = "errorTask" /\ Goto(p, "free")
        /\ UNCHANGED <<source, stream, tasks, style, heard, refused>>
    BY <1>10 DEF ErrorTold
  <2> QED BY <1>0, <1>1, <2>1, RunsOn, Zenon
<1>11. CASE ErrorTold(p) /\ ~stream.closed
  <2>1. /\ th[p].at = "errorTask" /\ Goto(p, "free") /\ Hear(stream.error)
        /\ UNCHANGED <<source, stream, tasks, style, refused>>
    BY <1>11 DEF ErrorTold
  <2>2. Begun("errorTask")
    BY <2>1 DEF Begun
  <2>3. /\ ~Queued("errorTask") /\ stream.errorNotified /\ ~Heard(Errors)
        /\ stream.error # "none"
        /\ \A q \in Pool \ {p} : th[q].at # "errorTask"
    BY <1>0, <2>1, <2>2 DEF OneError, OneNotice
  <2>4. stream.error \in Errors /\ stream.error \in Callbacks
    BY <1>0, <2>3 DEF StreamStates, Errors, Callbacks
  <2>5. Moves(p) /\ Lands(p, "free") /\ ~Inside(p)'
    BY <1>0, <1>1, <1>3, <2>1, PoolMoves, Zenon
  <2>6. heard' \in Seq(Callbacks) /\ (Heard({"all"})' <=> Heard({"all"}))
    BY <1>0, <2>1, <2>4, HearAdds, Zenon DEF Errors
  <2>7. \A q \in Pool : th'[q].at # "errorTask"
    BY <2>3, <2>5, Zenon DEF Lands, Threads
  <2>8. OneError'
    BY <1>0, <1>3, <2>1, <2>3, <2>7, Zenon DEF OneError, OneNotice, Begun
  <2>9. OneCallback'
    BY <1>0, <1>3, <2>1, <2>5, CallbackKept, Zenon DEF OneCallback
  <2>10. OneEnd'
    BY <1>0, <1>3, <2>1, <2>5, <2>6, EndKept, Zenon DEF OneEnd, OneNotice, Lands
  <2>11. CallbackSequence'
    BY <1>0, <2>1, <2>3, <2>4, <2>5, HearKeeps, Zenon DEF Errors, Moves
  <2>12. TypeOK'
    BY <1>0, <2>1, <2>5, <2>6, Zenon DEF TypeOK, Lands
  <2> QED BY <1>0, <2>5, <2>8, <2>9, <2>10, <2>11, <2>12, MoveKeeps DEF Inv
<1> QED BY <1>5, <1>6, <1>7, <1>8, <1>9, <1>10, <1>11

-----------------------------------------------------------------------------
(* Every step keeps the invariant. *)
LEMMA InvStep == Inv /\ [Next]_vars => Inv'
<1> SUFFICES ASSUME Inv, [Next]_vars PROVE Inv'
    OBVIOUS
<1>1. CASE UNCHANGED vars
  <2>1. UNCHANGED <<source, stream, tasks, th, style, heard, refused>>
    BY <1>1 DEF vars
  <2> QED BY <2>1, Zenon DEF Inv, TypeOK, Places, Place, Inside, Open, Queued, Once, Begun, OneCallback,
             OneNotice, OneEnd, OneError, Seen, EndSeen, Registered, WindowOf, Window,
             CallbackSequence, ReadyMeansReadable, Heard, SourceFinished, SourceReady
<1>2. ASSUME NEW t \in Threads, Schedules(t)
      PROVE  Inv'
  BY <1>2, SchedulesKeep
<1>3. ASSUME NEW t \in Threads, Reads(t)
      PROVE  Inv'
  BY <1>3, ReadsKeep
<1>4. ASSUME NEW p \in Pool, Runs(p)
      PROVE  Inv'
  <2>1. CASE DataClose(p)
    BY <2>1, QuietRunsKeep, ResetKeeps DEF DataClose
  <2> QED BY <1>4, <2>1, PoolTakeKeeps, QuietRunsKeep, CallsKeep DEF Runs
<1>5. ASSUME NEW p \in Pool, ListenerThrows(p)
      PROVE  Inv'
  BY <1>5, QuietRunsKeep
<1>6. CASE Arrive \/ SourceEnds \/ SourceFails
  BY <1>6, SourceKeeps
<1>7. CASE BlockingRead \/ Registers \/ WorkerReads \/ Close \/ CloseClears
  BY <1>7, AppKeeps
<1> QED BY <1>1, <1>2, <1>3, <1>4, <1>5, <1>6, <1>7 DEF Next, Steps

(* The inductive invariant holds in every behaviour. *)
LEMMA InvAlways == Spec => []Inv
BY InvInit, InvStep, PTL DEF Spec

(* Every field of the stream and every place of a thread has its type, and  *)
(* a data callback is under way on one thread at most, whatever thread the  *)
(* events come on (the swap of dataAvailableScheduled).                     *)
THEOREM CallbacksOneAtATime == Spec => [](TypeOK /\ OneCallback)
<1>1. Inv => TypeOK /\ OneCallback
  BY DEF Inv
<1> QED BY <1>1, InvAlways, PTL

(* Whatever threads the events come on, the listener is told the end at     *)
(* most once and only of a body that was read to its end, and one error at  *)
(* most, the first, and nothing after it.                                   *)
THEOREM CallbacksLegal == Spec => []CallbackSequence
<1>1. Inv => CallbackSequence
  BY DEF Inv
<1> QED BY <1>1, InvAlways, PTL

(* An application that reads in its callback for as long as isReady() tells *)
(* TRUE is never refused a read (checkReadPermission(), read()).            *)
THEOREM ReadsAllowed == Spec => []ReadyMeansReadable
<1>1. Inv => ReadyMeansReadable
  BY DEF Inv
<1> QED BY <1>1, InvAlways, PTL

=============================================================================

------------------------- MODULE ServletInputStream -------------------------
(***************************************************************************)
(* The Servlet input stream in non-blocking mode,                          *)
(* java/org/ckarta/servlet/CkartaServletInputStream.java: a body source    *)
(* that becomes ready, ends or fails on a thread of its own, an executor   *)
(* that runs the callbacks of the ReadListener, and the application.       *)
(*                                                                         *)
(* A step is what a thread does up to the next field or answer of the      *)
(* source that another thread may change.  The application reads in its    *)
(* callback for as long as isReady() tells TRUE, or it reads on a thread   *)
(* of its own and its callback does nothing.                               *)
(***************************************************************************)
EXTENDS Integers, Sequences, FiniteSets

CONSTANTS
    Pool,        \* the executor's threads
    Body,        \* bytes of the request body
    Styles       \* a subset of {"callback", "worker"}

ASSUME StreamAssumption == Body \in Nat /\ Styles \subseteq {"callback", "worker"}

ASSUME PoolAssumption == Pool \cap {"app", "source", "none"} = {}

VARIABLES
    source,      \* the BodySource
    stream,      \* the fields of the stream; error is terminalError
    lock,        \* the holder of listenerLock
    tasks,       \* what the executor has not begun
    th,          \* per thread: where it is, its locals, where it goes back to
    style,       \* how the application reads
    heard,       \* history: the listener's callbacks, runs of onDataAvailable as one
    refused      \* history: a read that isReady() had allowed was refused

vars == <<source, stream, lock, tasks, th, style, heard, refused>>

Threads == Pool \cup {"app", "source"}

Init ==
    /\ source = [data |-> 0, left |-> Body, eof |-> FALSE, error |-> FALSE,
                 interest |-> FALSE, errorInterest |-> FALSE]
    /\ stream = [listener |-> FALSE, readyPermit |-> FALSE, waiting |-> FALSE,
                 closed |-> FALSE, active |-> FALSE, scheduled |-> FALSE,
                 allNotified |-> FALSE, errorNotified |-> FALSE, error |-> "none"]
    /\ lock = "none" /\ tasks = <<>>
    /\ th = [t \in Threads |-> [at |-> IF t = "app" THEN "start" ELSE "free",
                                ready |-> FALSE, finished |-> FALSE, back |-> "free"]]
    /\ style \in Styles
    /\ heard = <<>> /\ refused = FALSE

At(t, label) == th[t].at = label
Goto(t, label) == th' = [th EXCEPT ![t].at = label]
Call(t, label, back) == th' = [th EXCEPT ![t].at = label, ![t].back = back]
Back(t) == th' = [th EXCEPT ![t].at = th[t].back, ![t].back = "free"]

(* source.isReady() and source.isFinished() *)
SourceReady == source.data > 0 \/ source.eof
SourceFinished == source.eof /\ source.data = 0

Active == ~stream.closed /\ stream.error = "none"

Hear(callback) ==
    heard' = IF callback = "data" /\ heard # <<>> /\ heard[Len(heard)] = "data"
             THEN heard ELSE Append(heard, callback)

-----------------------------------------------------------------------------
(* scheduleDataAvailable(): the conditions, then the swap that lets only   *)
(* one callback be under way.                                              *)
ScheduleDataAvailable(t) ==
    /\ \/ At(t, "schedule") /\ stream.waiting
       \/ At(t, "scheduleInitial")
    /\ ~stream.closed /\ stream.listener
    /\ Goto(t, "swap")
    /\ UNCHANGED <<source, stream, lock, tasks, style, heard, refused>>

ScheduleNothing(t) ==
    /\ \/ At(t, "schedule") /\ (~stream.waiting \/ stream.closed \/ ~stream.listener)
       \/ At(t, "scheduleInitial") /\ (stream.closed \/ ~stream.listener)
    /\ Back(t)
    /\ UNCHANGED <<source, stream, lock, tasks, style, heard, refused>>

ScheduleSwap(t) ==
    /\ At(t, "swap")
    /\ stream' = [stream EXCEPT !.scheduled = TRUE]
    /\ tasks' = IF stream.scheduled THEN tasks ELSE Append(tasks, "data")
    /\ Back(t)
    /\ UNCHANGED <<source, lock, style, heard, refused>>

(* scheduleAllDataRead() *)
ScheduleAllDataRead(t) ==
    /\ At(t, "all")
    /\ IF Active /\ stream.listener /\ ~stream.allNotified
       THEN /\ stream' = [stream EXCEPT !.allNotified = TRUE]
            /\ tasks' = Append(tasks, "allTask")
       ELSE UNCHANGED <<stream, tasks>>
    /\ Back(t)
    /\ UNCHANGED <<source, lock, style, heard, refused>>

(* notifyBodyError() and scheduleError(): the first error stays. *)
BodyError(error) ==
    LET first  == IF stream.error = "none" THEN error ELSE stream.error
        notify == ~stream.closed /\ stream.listener /\ ~stream.errorNotified
    IN  /\ stream' = [stream EXCEPT !.error = first,
                                    !.errorNotified = @ \/ notify]
        /\ tasks' = IF notify THEN Append(tasks, "errorTask") ELSE tasks

NotifyBodyError(t) ==
    /\ At(t, "notify")
    /\ BodyError("source")
    /\ Back(t)
    /\ UNCHANGED <<source, lock, style, heard, refused>>

Schedules(t) ==
    \/ ScheduleDataAvailable(t) \/ ScheduleNothing(t) \/ ScheduleSwap(t)
    \/ ScheduleAllDataRead(t) \/ NotifyBodyError(t)

-----------------------------------------------------------------------------
(* The body source: it changes and runs the callback it was given. *)
Changed(event, label) ==
    /\ At("source", "free")
    /\ ~source.eof /\ ~source.error
    /\ source' = event
    /\ Goto("source", label)
    /\ UNCHANGED <<stream, lock, tasks, style, heard, refused>>

Arrive ==
    /\ source.left > 0
    /\ Changed([source EXCEPT !.data = @ + 1, !.left = @ - 1],
               IF source.interest THEN "schedule" ELSE "free")

SourceEnds ==
    Changed([source EXCEPT !.eof = TRUE], IF source.interest THEN "schedule" ELSE "free")

SourceFails ==
    Changed([source EXCEPT !.error = TRUE],
            IF source.errorInterest THEN "notify" ELSE "free")

-----------------------------------------------------------------------------
(* isReady() and read(), called by a reading thread.                       *)
Leave(t) == IF t \in Pool THEN "return" ELSE "free"
Throw(t) == IF t \in Pool THEN "thrown" ELSE "free"

IsReady(t) ==
    /\ At(t, "isReady")
    /\ th' = [th EXCEPT ![t].at = IF Active THEN "permit" ELSE Leave(t),
                        ![t].ready = Active /\ SourceReady]
    /\ UNCHANGED <<source, stream, lock, tasks, style, heard, refused>>

IsReadyPermit(t) ==
    /\ At(t, "permit")
    /\ stream' = [stream EXCEPT !.readyPermit = th[t].ready]
    /\ Goto(t, "waiting")
    /\ UNCHANGED <<source, lock, tasks, style, heard, refused>>

IsReadyWaiting(t) ==
    /\ At(t, "waiting")
    /\ stream' = [stream EXCEPT !.waiting = ~th[t].ready]
    /\ th' = [th EXCEPT ![t].at = IF th[t].ready THEN "read" ELSE Leave(t),
                        ![t].ready = FALSE]
    /\ UNCHANGED <<source, lock, tasks, style, heard, refused>>

(* read() checks the permission that isReady() or the callback has given. *)
Read(t) ==
    /\ At(t, "read")
    /\ \/ /\ ~stream.closed /\ (stream.active \/ stream.readyPermit)
          /\ Goto(t, "take")
          /\ UNCHANGED refused
       \/ /\ ~stream.closed /\ ~stream.active /\ ~stream.readyPermit
          /\ Goto(t, Throw(t))
          /\ refused' = TRUE
       \/ /\ stream.closed
          /\ Goto(t, Throw(t))
          /\ UNCHANGED refused
    /\ UNCHANGED <<source, stream, lock, tasks, style, heard>>

(* source.read() gives data, an error, the end, or nothing. *)
ReadSource(t) ==
    /\ At(t, "take")
    /\ \/ /\ source.error
          /\ Call(t, "notify", Throw(t))
          /\ UNCHANGED <<source, stream, refused>>
       \/ /\ ~source.error /\ source.data > 0
          /\ \E n \in 1..source.data : source' = [source EXCEPT !.data = @ - n]
          /\ Goto(t, "took")
          /\ UNCHANGED <<stream, refused>>
       \/ /\ ~source.error /\ SourceFinished
          /\ stream' = [stream EXCEPT !.readyPermit = FALSE, !.waiting = FALSE]
          /\ Call(t, "all", Leave(t))
          /\ UNCHANGED <<source, refused>>
       \/ /\ ~source.error /\ ~SourceReady
          /\ stream' = [stream EXCEPT !.readyPermit = FALSE, !.waiting = TRUE]
          /\ refused' = TRUE
          /\ Goto(t, Throw(t))
          /\ UNCHANGED source
    /\ UNCHANGED <<lock, tasks, style, heard>>

ReadTook(t) ==
    /\ At(t, "took")
    /\ stream' = [stream EXCEPT !.readyPermit = @ /\ stream.active]
    /\ Goto(t, "isReady")
    /\ UNCHANGED <<source, lock, tasks, style, heard, refused>>

Reads(t) ==
    \/ IsReady(t) \/ IsReadyPermit(t) \/ IsReadyWaiting(t)
    \/ Read(t) \/ ReadSource(t) \/ ReadTook(t)

-----------------------------------------------------------------------------
(* The application's own thread: read() in blocking mode, setReadListener(), *)
(* in worker style isReady() and read(), and close().                        *)
BlockingRead ==
    /\ At("app", "start")
    /\ \/ /\ source.error
          /\ Call("app", "notify", "free")
          /\ UNCHANGED source
       \/ /\ ~source.error /\ source.data > 0
          /\ \E n \in 1..source.data : source' = [source EXCEPT !.data = @ - n]
          /\ UNCHANGED th
    /\ UNCHANGED <<stream, lock, tasks, style, heard, refused>>

SetReadListener ==
    /\ At("app", "start") /\ Active
    /\ lock = "none"
    /\ lock' = "app"
    /\ stream' = [stream EXCEPT !.listener = TRUE]
    /\ Goto("app", "finished")
    /\ UNCHANGED <<source, tasks, style, heard, refused>>

ListenerFinished ==
    /\ At("app", "finished")
    /\ th' = [th EXCEPT !["app"].at = "ready", !["app"].finished = SourceFinished]
    /\ UNCHANGED <<source, stream, lock, tasks, style, heard, refused>>

ListenerReady ==
    /\ At("app", "ready")
    /\ LET ready == ~th["app"].finished /\ SourceReady
       IN  /\ th' = [th EXCEPT !["app"].at = "interest", !["app"].ready = ready]
           /\ stream' = [stream EXCEPT !.waiting = ~th["app"].finished /\ ~ready]
    /\ UNCHANGED <<source, lock, tasks, style, heard, refused>>

ListenerInterest ==
    /\ At("app", "interest")
    /\ source' = [source EXCEPT !.interest = TRUE]
    /\ Goto("app", "errorInterest")
    /\ UNCHANGED <<stream, lock, tasks, style, heard, refused>>

(* The source keeps the callback for a failure to come; of one that is there *)
(* already it tells nothing.                                                *)
ListenerErrorInterest ==
    /\ At("app", "errorInterest")
    /\ source' = [source EXCEPT !.errorInterest = TRUE]
    /\ Goto("app", "lookAgain")
    /\ UNCHANGED <<stream, lock, tasks, style, heard, refused>>

(* A slip: the source is not looked at again once it has the callback. *)
ListenerLookOnce ==
    /\ At("app", "lookAgain")
    /\ IF th["app"].finished THEN Call("app", "all", "unlock")
       ELSE IF th["app"].ready THEN Call("app", "scheduleInitial", "unlock")
       ELSE Goto("app", "unlock")
    /\ UNCHANGED <<source, stream, lock, tasks, style, heard, refused>>

ListenerLookAgain ==
    /\ At("app", "lookAgain")
    /\ IF th["app"].finished \/ (~th["app"].ready /\ SourceFinished)
       THEN Call("app", "all", "unlock")
       ELSE Goto("app", "lookReady")
    /\ UNCHANGED <<source, stream, lock, tasks, style, heard, refused>>

ListenerLookReady ==
    /\ At("app", "lookReady")
    /\ IF th["app"].ready \/ SourceReady
       THEN Call("app", "scheduleInitial", "unlock")
       ELSE Goto("app", "unlock")
    /\ UNCHANGED <<source, stream, lock, tasks, style, heard, refused>>

ListenerUnlock ==
    /\ At("app", "unlock")
    /\ lock' = "none"
    /\ th' = [th EXCEPT !["app"].at = "free", !["app"].ready = FALSE,
                        !["app"].finished = FALSE]
    /\ UNCHANGED <<source, stream, tasks, style, heard, refused>>

WorkerReads ==
    /\ At("app", "free") /\ style = "worker" /\ stream.listener
    /\ Goto("app", "isReady")
    /\ UNCHANGED <<source, stream, lock, tasks, style, heard, refused>>

Close ==
    /\ At("app", "start") \/ At("app", "free")
    /\ ~stream.closed
    /\ stream' = [stream EXCEPT !.closed = TRUE]
    /\ Goto("app", "close")
    /\ UNCHANGED <<source, lock, tasks, style, heard, refused>>

CloseClears ==
    /\ At("app", "close")
    /\ stream' = [stream EXCEPT !.readyPermit = FALSE, !.waiting = FALSE]
    /\ Goto("app", "free")
    /\ UNCHANGED <<source, lock, tasks, style, heard, refused>>

Registers ==
    \/ SetReadListener \/ ListenerFinished \/ ListenerReady \/ ListenerInterest
    \/ ListenerErrorInterest \/ ListenerLookAgain \/ ListenerLookReady
    \/ ListenerUnlock

-----------------------------------------------------------------------------
(* The executor begins a task. *)
PoolTake(p) ==
    /\ At(p, "free") /\ tasks # <<>>
    /\ tasks' = Tail(tasks)
    /\ Goto(p, Head(tasks))
    /\ UNCHANGED <<source, stream, lock, style, heard, refused>>

(* invokeDataAvailable() *)
DataBegin(p) ==
    /\ At(p, "data")
    /\ IF Active THEN /\ stream' = [stream EXCEPT !.waiting = FALSE]
                      /\ Goto(p, "open")
                 ELSE /\ UNCHANGED stream
                      /\ Goto(p, "finally")
    /\ UNCHANGED <<source, lock, tasks, style, heard, refused>>

DataOpen(p) ==
    /\ At(p, "open")
    /\ stream' = [stream EXCEPT !.active = TRUE, !.readyPermit = TRUE]
    /\ Goto(p, "enter")
    /\ UNCHANGED <<source, lock, tasks, style, heard, refused>>

DataEnter(p) ==
    /\ At(p, "enter") /\ lock = "none"
    /\ lock' = p
    /\ IF Active THEN /\ Hear("data")
                      /\ Goto(p, IF style = "callback" THEN "isReady" ELSE "return")
                 ELSE /\ UNCHANGED heard
                      /\ Goto(p, "return")
    /\ UNCHANGED <<source, stream, tasks, style, refused>>

(* The listener throws instead of reading on. *)
ListenerThrows(p) ==
    /\ At(p, "isReady")
    /\ Goto(p, "thrown")
    /\ UNCHANGED <<source, stream, lock, tasks, style, heard, refused>>

DataReturn(p) ==
    /\ At(p, "return")
    /\ lock' = "none"
    /\ Goto(p, "finally")
    /\ UNCHANGED <<source, stream, tasks, style, heard, refused>>

DataThrown(p) ==
    /\ At(p, "thrown")
    /\ lock' = "none"
    /\ BodyError("listener")
    /\ Goto(p, "finally")
    /\ UNCHANGED <<source, style, heard, refused>>

(* A slip: the next callback may begin before this one has closed its window. *)
DataCloseLate(p) ==
    /\ \/ /\ At(p, "finally")
          /\ stream' = [stream EXCEPT !.scheduled = FALSE]
          /\ Goto(p, "reset")
       \/ /\ At(p, "reset")
          /\ stream' = [stream EXCEPT !.active = FALSE, !.readyPermit = FALSE]
          /\ Goto(p, "recheck")
    /\ UNCHANGED <<source, lock, tasks, style, heard, refused>>

(* The finally block closes the window, lets the next callback be           *)
(* scheduled, and looks at the source again for what came meanwhile.        *)
DataClose(p) ==
    /\ \/ /\ At(p, "finally")
          /\ stream' = [stream EXCEPT !.active = FALSE, !.readyPermit = FALSE]
          /\ Goto(p, "reset")
       \/ /\ At(p, "reset")
          /\ stream' = [stream EXCEPT !.scheduled = FALSE]
          /\ Goto(p, "recheck")
    /\ UNCHANGED <<source, lock, tasks, style, heard, refused>>

DataRecheck(p) ==
    /\ \/ /\ At(p, "recheck")
          /\ IF stream.error = "none" /\ SourceFinished THEN Call(p, "all", "free")
             ELSE Goto(p, "recheckReady")
       \/ /\ At(p, "recheckReady")
          /\ IF stream.error = "none" /\ stream.waiting /\ SourceReady
             THEN Call(p, "schedule", "free") ELSE Goto(p, "free")
    /\ UNCHANGED <<source, stream, lock, tasks, style, heard, refused>>

(* A slip: the end is told whatever has become of the stream meanwhile. *)
AllDataReadUnchecked(p) ==
    /\ At(p, "allTask") /\ lock = "none"
    /\ Hear("all")
    /\ UNCHANGED <<stream, tasks>>
    /\ Goto(p, "free")
    /\ UNCHANGED <<source, lock, style, refused>>

(* The tasks that tell the end and the error, each under the lock. *)
AllDataRead(p) ==
    /\ At(p, "allTask") /\ lock = "none"
    /\ \/ /\ Active
          /\ Hear("all")
          /\ (UNCHANGED <<stream, tasks>> \/ BodyError("listener"))
       \/ /\ ~Active
          /\ UNCHANGED <<stream, tasks, heard>>
    /\ Goto(p, "free")
    /\ UNCHANGED <<source, lock, style, refused>>

ErrorTold(p) ==
    /\ At(p, "errorTask") /\ lock = "none"
    /\ IF stream.closed THEN UNCHANGED heard ELSE Hear(stream.error)
    /\ Goto(p, "free")
    /\ UNCHANGED <<source, stream, lock, tasks, style, refused>>

Runs(p) ==
    \/ PoolTake(p) \/ DataBegin(p) \/ DataOpen(p) \/ DataEnter(p)
    \/ DataReturn(p) \/ DataThrown(p) \/ DataClose(p) \/ DataRecheck(p)
    \/ AllDataRead(p) \/ ErrorTold(p)

-----------------------------------------------------------------------------
Steps(t) == Schedules(t) \/ Reads(t) \/ (t \in Pool /\ Runs(t))

Next ==
    \/ \E t \in Threads : Steps(t)
    \/ \E p \in Pool : ListenerThrows(p)
    \/ Arrive \/ SourceEnds \/ SourceFails
    \/ BlockingRead \/ Registers \/ WorkerReads \/ Close \/ CloseClears

(* Every thread goes on with what it has begun; the executor runs its tasks. *)
Fairness == (\A t \in Threads : WF_vars(Steps(t))) /\ WF_vars(Registers)

Spec == Init /\ [][Next]_vars /\ Fairness

-----------------------------------------------------------------------------
Heard(callbacks) == \E i \in DOMAIN heard : heard[i] \in callbacks

(* Whatever threads the events come on, the listener is told the end at     *)
(* most once and only of a body that has ended and was read, an error at    *)
(* most once, the first one, and nothing after it (scheduleAllDataRead(),   *)
(* scheduleError(), invokeDataAvailable()).                                 *)
CallbackSequence ==
    /\ \A i, j \in DOMAIN heard :
          i < j => /\ heard[i] \in {"data", "all"}
                   /\ heard[i] = "all" => heard[j] # "all"
    /\ Heard({"all"}) => SourceFinished
    /\ \A i \in DOMAIN heard : heard[i] \in {"source", "listener"} => heard[i] = stream.error

(* An application that reads in its callback, as isReady() allows, is never *)
(* refused a read: neither for want of permission, however the end of one   *)
(* callback and the beginning of the next interleave, nor for want of data  *)
(* (isReady(), checkReadPermission(), invokeDataAvailable()).               *)
ReadyMeansReadable == style = "callback" => ~refused

(* What the listener has not been told yet: bytes, the end, or an error     *)
(* that the source has reported or a read has met.  A source that fails     *)
(* before setErrorInterest() and has nothing to read reports to nobody.     *)
Untold ==
    /\ style = "callback" /\ stream.listener /\ ~stream.closed
    /\ IF stream.error # "none" \/ At("source", "notify")
       THEN ~Heard({"source", "listener"})
       ELSE source.data > 0 \/ (source.eof /\ ~Heard({"all"}))

(* No callback is lost: bytes that arrive, the end and a reported error     *)
(* reach a listener that reads in its callback, also bytes and an end that  *)
(* come while the listener is registered, while isReady() looks at the      *)
(* source or while a callback returns, and an error that overtakes bytes    *)
(* (setReadListener(), isReady(), scheduleDataAvailable(), the finally      *)
(* block of invokeDataAvailable()).                                         *)
ListenerIsTold == []<>~Untold

=============================================================================

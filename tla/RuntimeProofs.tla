----------------------------- MODULE RuntimeProofs -----------------------------
(***************************************************************************)
(* The process for any number of requests and any capacity of the two      *)
(* queues: requests are handed on, success is earned, and the completion   *)
(* queue is released last.                                                 *)
(***************************************************************************)
EXTENDS Runtime, FiniteSetTheorems, SequenceTheorems, TLAPS

(* The types, by the thread that writes.  That main counts no further than *)
(* N follows from what it counts.                                          *)
MainType ==
    main \in [pc : {"init", "dispatch", "joinWorker", "wait", "drain", "poll",
                    "shutdown", "joinBootstrap", "exit"},
              completed : Nat, ok : BOOLEAN]
ControlType ==
    /\ boot \in {"create", "start", "park", "stop", "await", "destroyVM", "done"}
    /\ status \in {"unknown", "ok", "failed"}
    /\ shutdown \in [requested : BOOLEAN, ok : BOOLEAN]
    /\ closed \in BOOLEAN /\ notified \in BOOLEAN /\ destroyed \in BOOLEAN
WorkerType ==
    worker \in [pc : {"none", "attach", "begin", "dispatch", "reject", "done"},
                i : 1 .. N + 1, pending : BOOLEAN]
RequestType ==
    request \in [Requests -> {"PENDING", "RUNNING", "CANCELLING", "COMPLETED", "FAILED"}]
PoolType ==
    pool \in [thread : {"none", "idle", "run", "publish"},
              request : Requests \cup {NoRequest}, status : {0, -1}, down : BOOLEAN]
TasksType == tasks \in Seq(Requests) /\ Len(tasks) <= ExecutorCapacity
Records == [request : Requests, status : {0, -1, -2}]
QueueType == queue \in Seq(Records) /\ Len(queue) <= CompletionCapacity

Types ==
    /\ MainType /\ ControlType /\ WorkerType /\ RequestType
    /\ PoolType /\ TasksType /\ QueueType

WorkerHolds == worker.pc \in {"dispatch", "reject"}

(* Who holds a request holds one of main's. *)
HoldersOK ==
    /\ WorkerHolds => worker.i \in Requests
    /\ PoolBusy => pool.request \in Requests

(* How far main, bootstrap, worker and executor can be apart. *)
Lifecycle ==
    /\ main.pc \in {"init", "dispatch"} => worker.pc = "none" /\ pool.thread = "none"
    /\ main.pc \notin {"init", "dispatch", "joinWorker"} => worker.pc \in {"none", "done"}
    /\ pool.thread = "none" => tasks = <<>>
    /\ worker.pc = "none" => pool.thread = "none"
    /\ boot \in {"create", "start"} => status = "unknown"
    /\ status = "unknown" => boot \in {"create", "start"} /\ main.pc = "init"
    /\ status = "failed" => /\ boot \in {"destroyVM", "done"}
                            /\ main.pc \in {"init", "exit"} /\ worker.pc = "none"
    /\ status = "ok" /\ boot # "park" => shutdown.requested /\ closed
    /\ shutdown.requested => main.pc \in {"joinBootstrap", "exit"}
    /\ boot = "done" => ~PoolBusy /\ tasks = <<>> /\ worker.pc \in {"none", "done"}
    /\ destroyed => boot = "done"

Done == {r \in Requests : request[r] = "COMPLETED"}

(* main counts the completed requests. *)
CountOK ==
    /\ main.completed = Cardinality(Done)
    /\ main.ok => main.completed = N

Occurs(s, x) == \E i \in DOMAIN s : s[i] = x
Once(s) == \A i, j \in DOMAIN s : s[i] = s[j] => i = j
Names(q) == [j \in DOMAIN q |-> q[j].request]

InTasks(r) == Occurs(tasks, r)
InQueue(r) == Occurs(Names(queue), r)
AtPool(r) == PoolBusy /\ pool.request = r
AtWorker(r) == WorkerHolds /\ worker.i = r
Held(r) == InTasks(r) \/ InQueue(r) \/ AtPool(r) \/ AtWorker(r)

(* No two places hold the same request. *)
Distinct ==
    /\ Once(tasks) /\ Once(Names(queue))
    /\ \A r \in Requests :
          /\ InTasks(r) => ~InQueue(r) /\ ~AtPool(r) /\ ~AtWorker(r)
          /\ InQueue(r) => ~AtPool(r) /\ ~AtWorker(r)
          /\ AtPool(r) => ~AtWorker(r)

(* A request nobody has begun is nowhere, a running one is somewhere. *)
HeldOK ==
    \A r \in Requests :
        /\ request[r] = "PENDING" => ~Held(r)
        /\ request[r] = "RUNNING" /\ ~closed => Held(r)

Inv == Types /\ HoldersOK /\ Lifecycle /\ CountOK /\ Distinct /\ HeldOK

--------------------------------------------------------------------------------
(* Sequences without repetition.                                           *)

\* A new element at the end keeps a sequence free of repetition.
LEMMA OnceAppend ==
    ASSUME NEW S, NEW s \in Seq(S), NEW x \in S, Once(s), ~Occurs(s, x)
    PROVE  /\ Once(Append(s, x))
           /\ \A y : Occurs(Append(s, x), y) <=> Occurs(s, y) \/ y = x
<1>1. /\ DOMAIN s = 1 .. Len(s) /\ Len(s) \in Nat
      /\ DOMAIN Append(s, x) = 1 .. Len(s) + 1
      /\ \A i \in 1 .. Len(s) : Append(s, x)[i] = s[i]
      /\ Append(s, x)[Len(s) + 1] = x
  BY AppendProperties
<1>2. \A i \in 1 .. Len(s) + 1 : i \in 1 .. Len(s) \/ i = Len(s) + 1
  BY <1>1
<1> QED BY <1>1, <1>2 DEF Once, Occurs

\* Without its head, a sequence free of repetition has everything but the head.
LEMMA OnceTail ==
    ASSUME NEW S, NEW s \in Seq(S), s # <<>>, Once(s)
    PROVE  /\ Once(Tail(s))
           /\ \A y : Occurs(Tail(s), y) <=> Occurs(s, y) /\ y # Head(s)
           /\ Head(s) \in S /\ Occurs(s, Head(s))
<1>1. /\ DOMAIN s = 1 .. Len(s) /\ Len(s) \in Nat \ {0} /\ Head(s) = s[1] /\ Head(s) \in S
      /\ Tail(s) \in Seq(S) /\ Len(Tail(s)) = Len(s) - 1
      /\ \A i \in 1 .. Len(Tail(s)) : Tail(s)[i] = s[i + 1]
  BY HeadTailProperties, EmptySeq
<1>2. DOMAIN Tail(s) = 1 .. Len(s) - 1
  BY <1>1
<1>3. \A i \in 1 .. Len(s) : i = 1 \/ (i - 1 \in 1 .. Len(s) - 1 /\ Tail(s)[i - 1] = s[i])
  BY <1>1
<1>4. Once(Tail(s))
  BY <1>1, <1>2 DEF Once
<1>5. ASSUME NEW y PROVE Occurs(Tail(s), y) <=> Occurs(s, y) /\ y # Head(s)
  <2>1. ASSUME Occurs(Tail(s), y) PROVE Occurs(s, y) /\ y # Head(s)
    <3>1. PICK i \in 1 .. Len(s) - 1 : Tail(s)[i] = y
      BY <1>2, <2>1 DEF Occurs
    <3>2. i + 1 \in 1 .. Len(s) /\ i + 1 # 1 /\ s[i + 1] = y /\ 1 \in 1 .. Len(s)
      BY <1>1, <3>1
    <3> QED BY <1>1, <3>2 DEF Occurs, Once
  <2>2. ASSUME Occurs(s, y), y # Head(s) PROVE Occurs(Tail(s), y)
    BY <1>1, <1>2, <1>3, <2>2 DEF Occurs
  <2> QED BY <2>1, <2>2
<1>6. Occurs(s, Head(s))
  BY <1>1 DEF Occurs
<1> QED BY <1>1, <1>4, <1>5, <1>6

\* The requests of a queue of records.
LEMMA NamesFacts ==
    ASSUME NEW q \in Seq(Records)
    PROVE  /\ Names(q) \in Seq(Requests)
           /\ \A record \in Records : Names(Append(q, record)) = Append(Names(q), record.request)
           /\ q # <<>> => /\ Names(q) # <<>> /\ Names(Tail(q)) = Tail(Names(q))
                          /\ Head(q) \in Records /\ Head(Names(q)) = Head(q).request
<1>1. DOMAIN q = 1 .. Len(q) /\ Len(q) \in Nat /\ \A j \in 1 .. Len(q) : q[j] \in Records
  OBVIOUS
<1>2. Names(q) \in Seq(Requests) /\ Len(Names(q)) = Len(q)
      /\ \A j \in 1 .. Len(q) : Names(q)[j] = q[j].request
  BY <1>1 DEF Names, Records
<1>3. ASSUME NEW record \in Records
      PROVE  Names(Append(q, record)) = Append(Names(q), record.request)
  <2>1. record.request \in Requests
    BY DEF Records
  <2>2. /\ Append(q, record) \in Seq(Records) /\ Len(Append(q, record)) = Len(q) + 1
        /\ \A j \in 1 .. Len(q) : Append(q, record)[j] = q[j]
        /\ Append(q, record)[Len(q) + 1] = record
    BY AppendProperties
  <2>3. /\ Append(Names(q), record.request) \in Seq(Requests)
        /\ Len(Append(Names(q), record.request)) = Len(q) + 1
        /\ \A j \in 1 .. Len(q) : Append(Names(q), record.request)[j] = q[j].request
        /\ Append(Names(q), record.request)[Len(q) + 1] = record.request
    BY <1>2, <2>1, AppendProperties
  <2> QED BY <1>1, <2>2, <2>3 DEF Names
<1>4. ASSUME q # <<>>
      PROVE  /\ Names(q) # <<>> /\ Names(Tail(q)) = Tail(Names(q))
             /\ Head(q) \in Records /\ Head(Names(q)) = Head(q).request
  <2>1. /\ Len(q) \in Nat \ {0} /\ Head(q) = q[1] /\ Head(q) \in Records
        /\ Tail(q) \in Seq(Records) /\ Len(Tail(q)) = Len(q) - 1
        /\ \A j \in 1 .. Len(Tail(q)) : Tail(q)[j] = q[j + 1]
    BY <1>4, HeadTailProperties, EmptySeq
  <2>2. Names(q) # <<>>
    BY <1>2, <2>1
  <2>3. /\ Head(Names(q)) = Names(q)[1]
        /\ Tail(Names(q)) \in Seq(Requests) /\ Len(Tail(Names(q))) = Len(q) - 1
        /\ \A j \in 1 .. Len(q) - 1 : Tail(Names(q))[j] = Names(q)[j + 1]
    BY <1>2, <2>2, HeadTailProperties
  <2>4. Names(Tail(q)) = Tail(Names(q))
    BY <1>2, <2>1, <2>3 DEF Names
  <2> QED BY <1>2, <2>1, <2>2, <2>3, <2>4
<1> QED BY <1>2, <1>3, <1>4

--------------------------------------------------------------------------------
(* The initial state.                                                      *)

\* Nothing has been started.
LEMMA InvInit == Init => Inv
<1> SUFFICES ASSUME Init PROVE Inv
    OBVIOUS
<1>1. MainType /\ ControlType /\ RequestType /\ PoolType
  BY DEF Init, MainType, ControlType, RequestType, PoolType, NoRequest
<1>2. WorkerType /\ TasksType /\ QueueType
  BY RuntimeAssumption DEF Init, WorkerType, TasksType, QueueType
<1>3. HoldersOK /\ Lifecycle
  BY DEF Init, HoldersOK, Lifecycle, WorkerHolds, PoolBusy
<1>4. CountOK
  <2>1. Done = {}
    BY DEF Init, Done
  <2> QED BY <2>1, FS_EmptySet DEF Init, CountOK
<1>5. \A r : ~InTasks(r) /\ ~InQueue(r) /\ ~AtPool(r) /\ ~AtWorker(r)
  BY DEF Init, InTasks, InQueue, Occurs, Names, AtPool, AtWorker, PoolBusy, WorkerHolds
<1>6. Distinct /\ HeldOK
  BY <1>5 DEF Init, Distinct, HeldOK, Held, Once, Names
<1> QED BY <1>1, <1>2, <1>3, <1>4, <1>6 DEF Inv, Types

--------------------------------------------------------------------------------
(* The types.                                                              *)

\* What main's own steps write.
LEMMA MainTypes == Inv /\ (Main \/ MainFails) => MainType' /\ ControlType'
<1> SUFFICES ASSUME Inv, Main \/ MainFails PROVE MainType' /\ ControlType'
    OBVIOUS
<1> USE DEF Inv, Types, MainType, ControlType, MainGo, CloseQueue, completions, bootstrap
<1>1. CASE MainInit
  BY <1>1 DEF MainInit
<1>2. CASE MainDispatch
  BY <1>2 DEF MainDispatch
<1>3. CASE MainJoinWorker
  BY <1>3 DEF MainJoinWorker
<1>4. CASE MainWait
  BY <1>4, ZenonT(60) DEF MainWait
<1>5. CASE MainDrain
  BY <1>5 DEF MainDrain
<1>6. CASE MainPoll
  BY <1>6 DEF MainPoll
<1>7. CASE MainShutdown
  BY <1>7 DEF MainShutdown
<1>8. CASE MainExit
  BY <1>8 DEF MainExit
<1>9. CASE MainWaitFails
  BY <1>9 DEF MainWaitFails
<1>10. CASE MainShutdownFails
  BY <1>10 DEF MainShutdownFails
<1> QED BY <1>1, <1>2, <1>3, <1>4, <1>5, <1>6, <1>7, <1>8, <1>9, <1>10 DEF Main, MainFails

\* What the other threads write of the control state.
LEMMA OtherControl ==
    Inv /\ (Bootstrap \/ Worker \/ Pool \/ \E r \in Cancellable : Cancel(r))
        => MainType' /\ ControlType'
<1> SUFFICES ASSUME Inv, Bootstrap \/ Worker \/ Pool \/ \E r \in Cancellable : Cancel(r)
             PROVE MainType' /\ ControlType'
    OBVIOUS
<1> USE DEF Inv, Types, MainType, ControlType, CloseQueue, completions, bootstrap
<1>1. CASE Bootstrap
  BY <1>1 DEF Bootstrap, BootCreate, BootStart, BootWake, BootStop, BootAwait, BootDestroyVM
<1>2. CASE Worker
  BY <1>2 DEF Worker, WorkerAttach, WorkerBegin, WorkerDispatch, WorkerDispatchFails,
              WorkerReject, Publish
<1>3. CASE Pool
  BY <1>3 DEF Pool, PoolTake, PoolRun, PoolPublish, Publish
<1>4. CASE \E r \in Cancellable : Cancel(r)
  BY <1>4 DEF Cancel
<1> QED BY <1>1, <1>2, <1>3, <1>4

\* The worker goes on to the next request, or past the last one.
LEMMA NextRequestType ==
    ASSUME WorkerType, worker.i \in Requests
    PROVE  /\ worker' = NextRequest => WorkerType'
           /\ worker' = [NextRequest EXCEPT !.pending = TRUE] => WorkerType'
<1>1. worker.i + 1 \in 1 .. N + 1
  BY RuntimeAssumption DEF Requests
<1> QED BY <1>1 DEF WorkerType, NextRequest

\* The worker, the requests and the executor's thread.
LEMMA ThreadTypes == Inv /\ Next => WorkerType' /\ RequestType' /\ PoolType'
<1> SUFFICES ASSUME Inv, Next PROVE WorkerType' /\ RequestType' /\ PoolType'
    OBVIOUS
<1> USE RuntimeAssumption DEF Inv, Types, WorkerType, RequestType, PoolType, executor, Settle
<1>1. CASE Bootstrap
  BY <1>1 DEF Bootstrap, BootCreate, BootStart, BootWake, BootStop, BootAwait, BootDestroyVM
<1>2. CASE Main \/ MainFails
  BY <1>2 DEF Main, MainInit, MainDispatch, MainJoinWorker, MainWait,
              MainFails, MainWaitFails, MainShutdownFails, MainDrain,
              MainPoll, MainShutdown, MainExit
<1>3. CASE Worker
  <2>1. CASE WorkerAttach
    BY <2>1 DEF WorkerAttach
  <2>2. CASE WorkerBegin
    <3>1. worker.i <= N => worker.i \in Requests
      BY DEF Requests
    <3>2. WorkerType'
      BY <2>2, <3>1, NextRequestType DEF WorkerBegin
    <3>3. RequestType' /\ PoolType'
      BY <2>2 DEF WorkerBegin
    <3> QED BY <3>2, <3>3
  <2>3. CASE WorkerDispatch
    <3>1. worker.i \in Requests
      BY <2>3 DEF WorkerDispatch, HoldersOK, WorkerHolds
    <3>2. WorkerType'
      BY <2>3, <3>1, NextRequestType DEF WorkerDispatch
    <3>3. RequestType' /\ PoolType'
      BY <2>3, <3>1 DEF WorkerDispatch
    <3> QED BY <3>2, <3>3
  <2>4. CASE WorkerDispatchFails
    <3>1. worker.i \in Requests
      BY <2>4 DEF WorkerDispatchFails, HoldersOK, WorkerHolds
    <3>2. WorkerType'
      BY <2>4, <3>1, NextRequestType DEF WorkerDispatchFails
    <3>3. RequestType' /\ PoolType'
      BY <2>4, <3>1 DEF WorkerDispatchFails
    <3> QED BY <3>2, <3>3
  <2>5. CASE WorkerReject
    <3>1. worker.i \in Requests
      BY <2>5 DEF WorkerReject, HoldersOK, WorkerHolds
    <3>2. WorkerType'
      BY <2>5, <3>1, NextRequestType DEF WorkerReject
    <3>3. RequestType' /\ PoolType'
      BY <2>5, <3>1 DEF WorkerReject
    <3> QED BY <3>2, <3>3
  <2> QED BY <1>3, <2>1, <2>2, <2>3, <2>4, <2>5 DEF Worker
<1>4. CASE Pool
  <2>1. CASE PoolTake
    <3>1. Head(tasks) \in Requests
      BY <2>1 DEF PoolTake, TasksType
    <3> QED BY <2>1, <3>1 DEF PoolTake
  <2>2. CASE PoolRun
    BY <2>2 DEF PoolRun
  <2>3. CASE PoolPublish
    BY <2>3 DEF PoolPublish, NoRequest
  <2> QED BY <1>4, <2>1, <2>2, <2>3 DEF Pool
<1>5. CASE \E r \in Cancellable : Cancel(r)
  BY <1>5 DEF Cancel
<1> QED BY <1>1, <1>2, <1>3, <1>4, <1>5 DEF Next

\* The executor's queue never exceeds its capacity.
LEMMA TasksTypes == Inv /\ Next => TasksType'
<1> SUFFICES ASSUME Inv, Next PROVE TasksType'
    OBVIOUS
<1> USE RuntimeAssumption DEF Inv, Types, TasksType, executor
<1>1. CASE tasks' = tasks
  BY <1>1
<1>2. CASE tasks' = <<>>
  BY <1>2
<1>3. CASE WorkerDispatch /\ tasks' # tasks
  <2>1. worker.i \in Requests /\ tasks' = Append(tasks, worker.i) /\ Len(tasks) < ExecutorCapacity
    BY <1>3 DEF WorkerDispatch, HoldersOK, WorkerHolds
  <2> QED BY <2>1
<1>4. CASE PoolTake
  BY <1>4 DEF PoolTake
<1>5. tasks' = tasks \/ tasks' = <<>> \/ WorkerDispatch \/ PoolTake
  BY DEF Next, Main, MainInit, MainDispatch, MainJoinWorker, MainWait,
         MainFails, MainWaitFails, MainShutdownFails, MainDrain,
         MainPoll, MainShutdown, MainExit, Bootstrap, BootCreate, BootStart, BootWake, BootStop,
         BootAwait, BootDestroyVM, Worker, WorkerAttach, WorkerBegin, WorkerDispatchFails,
         WorkerReject, Pool, PoolRun, PoolPublish, Cancel
<1> QED BY <1>1, <1>2, <1>3, <1>4, <1>5

\* A publication appends its record, or finds the queue closed.
LEMMA Published ==
    ASSUME QueueType, NEW r \in Requests, NEW result \in {0, -1, -2}, Publish(r, result)
    PROVE  /\ QueueType' /\ closed' = closed
           /\ \/ closed /\ queue' = queue
              \/ \E record \in Records : record.request = r /\ queue' = Append(queue, record)
<1>1. [request |-> r, status |-> result] \in Records
  BY DEF Records
<1> QED BY <1>1, RuntimeAssumption DEF Publish, QueueType, completions

\* The completion queue never exceeds its capacity.
LEMMA QueueTypes == Inv /\ Next => QueueType'
<1> SUFFICES ASSUME Inv, Next PROVE QueueType'
    OBVIOUS
<1> USE DEF Inv, Types, completions, CloseQueue
<1>1. CASE queue' = queue
  BY <1>1 DEF QueueType
<1>2. CASE WorkerReject
  BY <1>2, Published DEF WorkerReject, HoldersOK, WorkerHolds
<1>3. CASE PoolPublish
  BY <1>3, Published DEF PoolPublish, HoldersOK, PoolBusy, PoolType
<1>4. CASE MainPoll /\ queue' # queue
  <2>1. queue # <<>> /\ queue' = Tail(queue)
    BY <1>4 DEF MainPoll
  <2> QED BY <2>1, RuntimeAssumption DEF QueueType
<1>5. queue' = queue \/ WorkerReject \/ PoolPublish \/ MainPoll
  BY DEF Next, Main, MainInit, MainDispatch, MainJoinWorker, MainWait,
         MainFails, MainWaitFails, MainShutdownFails, MainDrain,
         MainShutdown, MainExit, Bootstrap, BootCreate, BootStart, BootWake, BootStop,
         BootAwait, BootDestroyVM, Worker, WorkerAttach, WorkerBegin, WorkerDispatch,
         WorkerDispatchFails, Pool, PoolTake, PoolRun, Cancel
<1> QED BY <1>1, <1>2, <1>3, <1>4, <1>5

--------------------------------------------------------------------------------
(* Lifecycle and count.                                                    *)

\* A holder gets its request from main's array, through worker and executor.
LEMMA HoldersStep == Inv /\ Next => HoldersOK'
<1> SUFFICES ASSUME Inv, Next PROVE HoldersOK'
    OBVIOUS
<1> USE DEF Inv, Types, HoldersOK, WorkerHolds, PoolBusy, executor
<1>1. CASE Bootstrap \/ \E r \in Cancellable : Cancel(r)
  BY <1>1 DEF Bootstrap, BootCreate, BootStart, BootWake, BootStop, BootAwait, BootDestroyVM,
              Cancel, PoolType
<1>2. CASE Main \/ MainFails
  BY <1>2 DEF Main, MainInit, MainDispatch, MainJoinWorker, MainWait,
              MainFails, MainWaitFails, MainShutdownFails, MainDrain,
              MainPoll, MainShutdown, MainExit, WorkerType
<1>3. CASE Worker
  <2>1. worker.i <= N => worker.i \in Requests
    BY <1>3, RuntimeAssumption DEF WorkerType, Requests
  <2> QED BY <1>3, <2>1 DEF Worker, WorkerAttach, WorkerBegin, WorkerDispatch,
                            WorkerDispatchFails, WorkerReject, NextRequest, WorkerType, PoolType
<1>4. CASE Pool
  <2>1. tasks # <<>> => Head(tasks) \in Requests
    BY DEF TasksType
  <2> QED BY <1>4, <2>1 DEF Pool, PoolTake, PoolRun, PoolPublish, PoolType
<1> QED BY <1>1, <1>2, <1>3, <1>4 DEF Next

\* The threads stay as far apart as Lifecycle says.
LEMMA LifecycleStep == Inv /\ Next => Lifecycle'
<1> SUFFICES ASSUME Inv, Next PROVE Lifecycle'
    OBVIOUS
<1> USE DEF Inv, Types, MainType, ControlType, WorkerType, PoolType, Lifecycle, PoolBusy,
            executor, completions, bootstrap, MainGo, NextRequest, CloseQueue, Publish
<1>1. CASE BootCreate
  BY <1>1 DEF BootCreate
<1>2. CASE BootStart
  BY <1>2 DEF BootStart
<1>3. CASE BootWake
  BY <1>3 DEF BootWake
<1>4. CASE BootStop
  BY <1>4 DEF BootStop
<1>5. CASE BootAwait
  BY <1>5 DEF BootAwait
<1>6. CASE BootDestroyVM
  BY <1>6 DEF BootDestroyVM
<1>7. CASE MainInit
  BY <1>7 DEF MainInit
<1>8. CASE MainDispatch
  BY <1>8 DEF MainDispatch
<1>9. CASE MainJoinWorker
  BY <1>9 DEF MainJoinWorker
<1>10. CASE MainWait
  BY <1>10 DEF MainWait
<1>11. CASE MainFails
  <2>1. CASE MainWaitFails
    BY <2>1 DEF MainWaitFails
  <2>2. CASE MainShutdownFails
    BY <2>2 DEF MainShutdownFails
  <2> QED BY <1>11, <2>1, <2>2 DEF MainFails
<1>12. CASE MainDrain
  BY <1>12 DEF MainDrain
<1>13. CASE MainPoll
  BY <1>13 DEF MainPoll
<1>14. CASE MainShutdown
  BY <1>14 DEF MainShutdown
<1>15. CASE MainExit
  BY <1>15 DEF MainExit
<1>16. CASE WorkerAttach
  BY <1>16 DEF WorkerAttach
<1>17. CASE WorkerBegin
  BY <1>17 DEF WorkerBegin
<1>18. CASE WorkerDispatch
  BY <1>18 DEF WorkerDispatch
<1>19. CASE WorkerDispatchFails
  BY <1>19 DEF WorkerDispatchFails
<1>20. CASE WorkerReject
  BY <1>20 DEF WorkerReject
<1>21. CASE PoolTake
  BY <1>21 DEF PoolTake
<1>22. CASE PoolRun
  BY <1>22 DEF PoolRun
<1>23. CASE PoolPublish
  BY <1>23 DEF PoolPublish
<1>24. CASE \E r \in Cancellable : Cancel(r)
  BY <1>24 DEF Cancel
<1> QED BY <1>1, <1>2, <1>3, <1>4, <1>5, <1>6, <1>7, <1>8, <1>9, <1>10, <1>11, <1>12, <1>13,
           <1>14, <1>15, <1>16, <1>17, <1>18, <1>19, <1>20, <1>21, <1>22, <1>23, <1>24
        DEF Next, Main, Bootstrap, Worker, Pool

\* The completed requests are finitely many, all of them when there are N.
LEMMA DoneFacts ==
    /\ IsFiniteSet(Done) /\ Cardinality(Done) \in 0 .. N
    /\ Cardinality(Done) = N => Done = Requests
<1>1. IsFiniteSet(Requests) /\ Cardinality(Requests) = N
  BY RuntimeAssumption, FS_Interval DEF Requests
<1>2. Done \subseteq Requests
  BY DEF Done
<1> QED BY <1>1, <1>2, FS_Subset, FS_CardinalityType, RuntimeAssumption

\* main counts what it completes, and nobody else completes or takes back.
LEMMA CountStep == Inv /\ Next => CountOK'
<1> SUFFICES ASSUME Inv, Next PROVE CountOK'
    OBVIOUS
<1> USE DEF Inv, Types
<1>1. CASE MainPoll
  <2> DEFINE r == Head(queue).request
             good == Head(queue).status = 0
  <2>1. CASE queue # <<>> /\ request[r] = "RUNNING" /\ good
    <3>1. r \in Requests
      BY <2>1, NamesFacts DEF QueueType, Records
    <3>2. main'.completed = main.completed + 1 /\ main'.ok = main.ok
          /\ request' = [request EXCEPT ![r] = "COMPLETED"]
      BY <1>1, <2>1 DEF MainPoll, Settle, MainType
    <3>3. Done' = Done \cup {r} /\ r \notin Done
      BY <2>1, <3>1, <3>2 DEF Done, RequestType
    <3>4. Cardinality(Done') = Cardinality(Done) + 1
      BY <3>3, DoneFacts, FS_AddElement
    <3>5. ~main.ok
      <4>1. Done # Requests
        BY <3>1, <3>3
      <4> QED BY <4>1, DoneFacts DEF CountOK
    <3> QED BY <3>2, <3>4, <3>5 DEF CountOK
  <2>2. CASE ~(queue # <<>> /\ request[r] = "RUNNING" /\ good)
    <3>1. main'.completed = main.completed /\ main'.ok = main.ok
      BY <1>1, <2>2 DEF MainPoll, MainGo, MainType
    <3>2. Done' = Done
      BY <1>1, <2>2 DEF MainPoll, Settle, Done, RequestType
    <3> QED BY <3>1, <3>2 DEF CountOK
  <2> QED BY <2>1, <2>2
<1>2. CASE Next /\ ~MainPoll
  <2>1. Done' = Done
    <3>1. CASE request' = request
      BY <3>1 DEF Done
    <3>2. CASE WorkerBegin \/ WorkerDispatchFails
      BY <3>2 DEF WorkerBegin, WorkerDispatchFails, Settle, Done, RequestType
    <3>3. CASE \E r \in Cancellable : Cancel(r)
      BY <3>3 DEF Cancel, Done, RequestType
    <3>4. request' = request \/ WorkerBegin \/ WorkerDispatchFails \/ \E r \in Cancellable : Cancel(r)
      BY <1>2 DEF Next, Main, MainInit, MainDispatch, MainJoinWorker, MainWait,
                  MainFails, MainWaitFails, MainShutdownFails,
                  MainDrain, MainShutdown, MainExit, Bootstrap, BootCreate, BootStart, BootWake,
                  BootStop, BootAwait, BootDestroyVM, Worker, WorkerAttach, WorkerDispatch,
                  WorkerReject, Pool, PoolTake, PoolRun, PoolPublish
    <3> QED BY <3>1, <3>2, <3>3, <3>4
  <2>2. /\ main'.completed = main.completed
        /\ main'.ok => main.ok \/ main.completed = N
    <3>1. CASE Main \/ MainFails
      BY <1>2, <3>1, ZenonT(60) DEF Main, MainInit, MainDispatch, MainJoinWorker, MainWait,
                                    MainFails, MainWaitFails, MainShutdownFails,
                  MainDrain, MainShutdown, MainExit, MainGo, MainType, ControlType
    <3>2. CASE main' = main
      BY <3>2
    <3>3. Main \/ MainFails \/ main' = main
      BY <1>2 DEF Next, Bootstrap, BootCreate, BootStart, BootWake,
                  BootStop, BootAwait, BootDestroyVM, Worker, WorkerAttach, WorkerBegin,
                  WorkerDispatch, WorkerDispatchFails, WorkerReject, Pool, PoolTake, PoolRun,
                  PoolPublish, Cancel
    <3> QED BY <3>1, <3>2, <3>3
  <2> QED BY <2>1, <2>2 DEF CountOK
<1> QED BY <1>1, <1>2

--------------------------------------------------------------------------------
(* Custody.                                                                *)

\* A step that moves no request.
LEMMA Unmoved ==
    ASSUME Distinct, HeldOK, tasks' = tasks, queue' = queue, closed => closed',
           \A r \in Requests : /\ AtPool(r)' = AtPool(r) /\ AtWorker(r)' = AtWorker(r)
                               /\ request'[r] = "PENDING" => request[r] = "PENDING"
                               /\ request'[r] = "RUNNING" => request[r] = "RUNNING"
    PROVE  Distinct' /\ HeldOK'
<1>1. \A r : InTasks(r)' = InTasks(r) /\ InQueue(r)' = InQueue(r)
  BY DEF InTasks, InQueue
<1> QED BY <1>1 DEF Distinct, HeldOK, Held

\* What main, bootstrap and a caller that cancels do, but for main's poll and the
\* executor's shutdownNow.
LEMMA QuietCustody ==
    ASSUME Inv, \/ Main /\ ~MainPoll
                \/ MainFails
                \/ Bootstrap /\ ~BootAwait
                \/ \E r \in Cancellable : Cancel(r)
                \/ WorkerAttach
                \/ PoolRun
    PROVE  Distinct' /\ HeldOK'
<1> USE DEF Inv, Types, completions, executor, CloseQueue
<1>1. tasks' = tasks /\ queue' = queue /\ (closed => closed')
  BY DEF Main, MainInit, MainDispatch, MainJoinWorker, MainWait,
         MainFails, MainWaitFails, MainShutdownFails, MainDrain,
         MainShutdown, MainExit, Bootstrap, BootCreate, BootStart, BootWake, BootStop,
         BootDestroyVM, Cancel, WorkerAttach, PoolRun
<1>2. \A r : AtPool(r)' = AtPool(r)
  BY DEF Main, MainInit, MainDispatch, MainJoinWorker, MainWait,
         MainFails, MainWaitFails, MainShutdownFails, MainDrain,
         MainShutdown, MainExit, Bootstrap, BootCreate, BootStart, BootWake, BootStop,
         BootDestroyVM, Cancel, WorkerAttach, PoolRun, AtPool, PoolBusy, PoolType
<1>3. \A r : AtWorker(r)' = AtWorker(r)
  BY DEF Main, MainInit, MainDispatch, MainJoinWorker, MainWait,
         MainFails, MainWaitFails, MainShutdownFails, MainDrain,
         MainShutdown, MainExit, Bootstrap, BootCreate, BootStart, BootWake, BootStop,
         BootDestroyVM, Cancel, WorkerAttach, PoolRun, AtWorker, WorkerHolds, WorkerType, Lifecycle
<1>4. \A r \in Requests : /\ request'[r] = "PENDING" => request[r] = "PENDING"
                          /\ request'[r] = "RUNNING" => request[r] = "RUNNING"
  BY DEF Main, MainInit, MainDispatch, MainJoinWorker, MainWait,
         MainFails, MainWaitFails, MainShutdownFails, MainDrain,
         MainShutdown, MainExit, Bootstrap, BootCreate, BootStart, BootWake, BootStop,
         BootDestroyVM, Cancel, WorkerAttach, PoolRun, RequestType
<1> QED BY <1>1, <1>2, <1>3, <1>4, Unmoved

\* shutdownNow drops tasks, of a queue that is closed.
LEMMA AwaitCustody == ASSUME Inv, BootAwait PROVE Distinct' /\ HeldOK'
<1> USE DEF Inv, Types, completions
<1>1. closed /\ closed' = closed /\ queue' = queue /\ pool' = pool /\ worker' = worker
      /\ request' = request
  BY DEF BootAwait, Lifecycle, ControlType
<1>2. CASE tasks' = tasks
  BY <1>1, <1>2, Unmoved DEF AtPool, AtWorker, PoolBusy, WorkerHolds
<1>3. CASE tasks' = <<>>
  <2>1. Once(tasks') /\ \A r : ~InTasks(r)'
    BY <1>3 DEF Once, InTasks, Occurs
  <2>2. \A r : InQueue(r)' = InQueue(r) /\ AtPool(r)' = AtPool(r) /\ AtWorker(r)' = AtWorker(r)
    BY <1>1 DEF InQueue, AtPool, AtWorker, PoolBusy, WorkerHolds
  <2> QED BY <1>1, <2>1, <2>2 DEF Distinct, HeldOK, Held
<1> QED BY <1>2, <1>3 DEF BootAwait

\* main takes a record out of the queue and settles its request.
LEMMA PollCustody == ASSUME Inv, MainPoll PROVE Distinct' /\ HeldOK'
<1> USE DEF Inv, Types, completions, executor
<1> DEFINE name == Head(queue).request
<1>1. tasks' = tasks /\ closed' = closed /\ pool' = pool /\ worker' = worker
  BY DEF MainPoll
<1>2. \A r : InTasks(r)' = InTasks(r) /\ AtPool(r)' = AtPool(r) /\ AtWorker(r)' = AtWorker(r)
  BY <1>1 DEF InTasks, AtPool, AtWorker, PoolBusy, WorkerHolds
<1>3. CASE queue = <<>>
  <2>1. queue' = queue /\ request' = request
    BY <1>3 DEF MainPoll
  <2> QED BY <1>1, <1>2, <2>1, Unmoved
<1>4. CASE queue # <<>>
  <2>1. queue' = Tail(queue) /\ Settle(name, IF Head(queue).status = 0 THEN "COMPLETED" ELSE "FAILED")
    BY <1>4 DEF MainPoll
  <2>2. Names(queue) \in Seq(Requests) /\ Names(queue) # <<>> /\ Names(queue') = Tail(Names(queue))
        /\ Head(Names(queue)) = name
    BY <1>4, <2>1, NamesFacts DEF QueueType
  <2>3. Once(Names(queue')) /\ name \in Requests
        /\ \A r : InQueue(r)' <=> InQueue(r) /\ r # name
    BY <2>2, OnceTail DEF Distinct, InQueue
  <2>4. \A r \in Requests : /\ request'[r] = "PENDING" => request[r] = "PENDING"
                            /\ request'[r] = "RUNNING" => request[r] = "RUNNING" /\ r # name
    BY <2>1, <2>3 DEF Settle, RequestType
  <2> HIDE DEF name
  <2> QED BY <1>1, <1>2, <2>3, <2>4 DEF Distinct, HeldOK, Held
<1> QED BY <1>3, <1>4

\* The worker takes a request nobody holds, passes one over, or ends.
LEMMA BeginCustody == ASSUME Inv, WorkerBegin PROVE Distinct' /\ HeldOK'
<1> USE DEF Inv, Types, completions, executor
<1>1. tasks' = tasks /\ queue' = queue /\ closed' = closed /\ pool' = pool
  BY DEF WorkerBegin
<1>2. \A r : /\ InTasks(r)' = InTasks(r) /\ InQueue(r)' = InQueue(r) /\ AtPool(r)' = AtPool(r)
             /\ ~AtWorker(r)
  BY <1>1 DEF WorkerBegin, InTasks, InQueue, AtPool, PoolBusy, AtWorker, WorkerHolds
<1>3. CASE worker.i <= N /\ request[worker.i] = "PENDING"
  <2>1. /\ worker.i \in Requests
        /\ \A r : AtWorker(r)' <=> r = worker.i
        /\ request' = [request EXCEPT ![worker.i] = "RUNNING"]
    BY <1>3, RuntimeAssumption DEF WorkerBegin, AtWorker, WorkerHolds, WorkerType, Requests
  <2>2. \A r \in Requests \ {worker.i} : request'[r] = request[r]
    BY <2>1 DEF RequestType
  <2>3. request'[worker.i] = "RUNNING" /\ ~Held(worker.i)
    BY <1>3, <2>1 DEF RequestType, HeldOK
  <2> QED BY <1>1, <1>2, <2>1, <2>2, <2>3 DEF Distinct, HeldOK, Held
<1>4. CASE ~(worker.i <= N /\ request[worker.i] = "PENDING")
  <2>1. request' = request /\ \A r : ~AtWorker(r)'
    BY <1>4 DEF WorkerBegin, NextRequest, AtWorker, WorkerHolds, WorkerType
  <2>2. \A r : AtWorker(r)' = AtWorker(r)
    BY <1>2, <2>1 DEF AtWorker, WorkerHolds
  <2> QED BY <1>1, <1>2, <2>1, <2>2, Unmoved
<1> QED BY <1>3, <1>4

\* The worker's request goes to the executor, or stays to be rejected.
LEMMA DispatchCustody == ASSUME Inv, WorkerDispatch PROVE Distinct' /\ HeldOK'
<1> USE DEF Inv, Types, completions, executor
<1>1. queue' = queue /\ closed' = closed /\ request' = request /\ worker.i \in Requests
  BY DEF WorkerDispatch, HoldersOK, WorkerHolds
<1>2. \A r : InQueue(r)' = InQueue(r) /\ (AtWorker(r) <=> r = worker.i)
  BY <1>1 DEF WorkerDispatch, InQueue, AtWorker, WorkerHolds
<1>3. CASE worker' = NextRequest /\ pool.thread = "none"
  <2>1. tasks' = tasks /\ \A r : ~AtPool(r) /\ (AtPool(r)' <=> r = worker.i) /\ ~AtWorker(r)'
    BY <1>3 DEF WorkerDispatch, NextRequest, AtPool, PoolBusy, AtWorker, WorkerHolds, WorkerType, PoolType
  <2>2. \A r : InTasks(r)' = InTasks(r)
    BY <2>1 DEF InTasks
  <2> QED BY <1>1, <1>2, <2>1, <2>2 DEF Distinct, HeldOK, Held
<1>4. CASE worker' = NextRequest /\ pool.thread # "none"
  <2>1. tasks' = Append(tasks, worker.i) /\ pool' = pool
    BY <1>4 DEF WorkerDispatch, NextRequest, WorkerType
  <2>2. \A r : AtPool(r)' = AtPool(r) /\ ~AtWorker(r)'
    BY <1>4, <2>1 DEF NextRequest, AtPool, PoolBusy, AtWorker, WorkerHolds, WorkerType
  <2>3. ~InTasks(worker.i)
    BY <1>1, <1>2 DEF Distinct
  <2>4. Once(tasks') /\ \A r : InTasks(r)' <=> InTasks(r) \/ r = worker.i
    BY <1>1, <2>1, <2>3, OnceAppend DEF Distinct, InTasks, TasksType
  <2> QED BY <1>1, <1>2, <2>2, <2>4 DEF Distinct, HeldOK, Held
<1>5. CASE worker' = [worker EXCEPT !.pc = "reject"]
  <2>1. tasks' = tasks /\ pool' = pool
    BY <1>5 DEF WorkerDispatch, NextRequest, WorkerType
  <2>2. \A r : AtPool(r)' = AtPool(r) /\ AtWorker(r)' = AtWorker(r)
    BY <1>2, <1>5, <2>1 DEF AtPool, PoolBusy, AtWorker, WorkerHolds, WorkerType
  <2> QED BY <1>1, <2>1, <2>2, Unmoved
<1> QED BY <1>3, <1>4, <1>5 DEF WorkerDispatch

\* A request that cannot be dispatched is settled.
LEMMA DispatchFailsCustody == ASSUME Inv, WorkerDispatchFails PROVE Distinct' /\ HeldOK'
<1> USE DEF Inv, Types, completions, executor
<1>1. tasks' = tasks /\ queue' = queue /\ closed' = closed /\ pool' = pool /\ worker.i \in Requests
  BY DEF WorkerDispatchFails, HoldersOK, WorkerHolds
<1>2. \A r : /\ InTasks(r)' = InTasks(r) /\ InQueue(r)' = InQueue(r) /\ AtPool(r)' = AtPool(r)
             /\ (AtWorker(r) <=> r = worker.i) /\ ~AtWorker(r)'
  BY <1>1 DEF WorkerDispatchFails, InTasks, InQueue, AtPool, PoolBusy, AtWorker, WorkerHolds,
              NextRequest, WorkerType
<1>3. \A r \in Requests : /\ request'[r] = "PENDING" => request[r] = "PENDING"
                          /\ request'[r] = "RUNNING" => request[r] = "RUNNING" /\ r # worker.i
  BY <1>1 DEF WorkerDispatchFails, Settle, RequestType
<1> QED BY <1>1, <1>2, <1>3 DEF Distinct, HeldOK, Held

\* A record enters the queue, or finds it closed.
LEMMA PublishCustody ==
    ASSUME Inv, NEW name \in Requests, NEW result \in {0, -1, -2}, Publish(name, result), ~InQueue(name)
    PROVE  /\ closed' = closed
           /\ Once(Names(queue'))
           /\ \/ closed /\ \A r : InQueue(r)' = InQueue(r)
              \/ \A r : InQueue(r)' <=> InQueue(r) \/ r = name
<1>1. QueueType /\ Once(Names(queue))
  BY DEF Inv, Types, Distinct
<1>2. CASE closed /\ queue' = queue
  BY <1>1, <1>2, Published DEF InQueue
<1>3. CASE \E record \in Records : record.request = name /\ queue' = Append(queue, record)
  <2>1. Names(queue') = Append(Names(queue), name) /\ Names(queue) \in Seq(Requests)
    BY <1>1, <1>3, NamesFacts DEF QueueType
  <2> QED BY <1>1, <2>1, OnceAppend, Published DEF InQueue
<1> QED BY <1>1, <1>2, <1>3, Published

\* The rejected request goes from the worker to the queue.
LEMMA RejectCustody == ASSUME Inv, WorkerReject PROVE Distinct' /\ HeldOK'
<1>1. /\ tasks' = tasks /\ pool' = pool /\ request' = request /\ worker.i \in Requests
      /\ Publish(worker.i, -2)
  BY DEF WorkerReject, Inv, HoldersOK, WorkerHolds, executor
<1>2. \A r : /\ InTasks(r)' = InTasks(r) /\ AtPool(r)' = AtPool(r)
             /\ (AtWorker(r) <=> r = worker.i) /\ ~AtWorker(r)'
  BY <1>1 DEF WorkerReject, InTasks, AtPool, PoolBusy, AtWorker, WorkerHolds, NextRequest,
              WorkerType, Inv, Types
<1>3. ~InQueue(worker.i)
  BY <1>1, <1>2 DEF Inv, Distinct
<1>4. /\ closed' = closed /\ Once(Names(queue'))
      /\ \/ closed /\ \A r : InQueue(r)' = InQueue(r)
         \/ \A r : InQueue(r)' <=> InQueue(r) \/ r = worker.i
  BY <1>1, <1>3, PublishCustody
<1> QED BY <1>1, <1>2, <1>4 DEF Inv, Distinct, HeldOK, Held

\* The executor's thread takes the first task.
LEMMA TakeCustody == ASSUME Inv, PoolTake PROVE Distinct' /\ HeldOK'
<1>1. /\ queue' = queue /\ closed' = closed /\ request' = request /\ worker' = worker
      /\ tasks # <<>> /\ tasks' = Tail(tasks) /\ tasks \in Seq(Requests)
  BY DEF PoolTake, completions, Inv, Types, TasksType
<1>2. \A r : InQueue(r)' = InQueue(r) /\ AtWorker(r)' = AtWorker(r)
  BY <1>1 DEF InQueue, AtWorker, WorkerHolds
<1>3. \A r : ~AtPool(r) /\ (AtPool(r)' <=> r = Head(tasks))
  BY DEF PoolTake, AtPool, PoolBusy, PoolType, Inv, Types
<1>4. Once(tasks') /\ Head(tasks) \in Requests /\ InTasks(Head(tasks))
      /\ \A r : InTasks(r)' <=> InTasks(r) /\ r # Head(tasks)
  BY <1>1, OnceTail DEF Inv, Distinct, InTasks
<1> QED BY <1>1, <1>2, <1>3, <1>4 DEF Inv, Distinct, HeldOK, Held

\* The executor's request goes to the queue.
LEMMA PoolPublishCustody == ASSUME Inv, PoolPublish PROVE Distinct' /\ HeldOK'
<1>1. /\ tasks' = tasks /\ worker' = worker /\ request' = request
      /\ pool.request \in Requests /\ pool.status \in {0, -1, -2}
      /\ Publish(pool.request, pool.status)
  BY DEF PoolPublish, Inv, Types, PoolType, HoldersOK, PoolBusy
<1>2. \A r : /\ InTasks(r)' = InTasks(r) /\ AtWorker(r)' = AtWorker(r)
             /\ (AtPool(r) <=> r = pool.request) /\ ~AtPool(r)'
  BY <1>1 DEF PoolPublish, InTasks, AtPool, PoolBusy, AtWorker, WorkerHolds, PoolType, Inv, Types
<1>3. ~InQueue(pool.request)
  BY <1>1, <1>2 DEF Inv, Distinct
<1>4. /\ closed' = closed /\ Once(Names(queue'))
      /\ \/ closed /\ \A r : InQueue(r)' = InQueue(r)
         \/ \A r : InQueue(r)' <=> InQueue(r) \/ r = pool.request
  BY <1>1, <1>3, PublishCustody
<1> QED BY <1>1, <1>2, <1>4 DEF Inv, Distinct, HeldOK, Held

--------------------------------------------------------------------------------
\* Every step preserves the invariant.
LEMMA InvStep == Inv /\ [Next]_vars => Inv'
<1> SUFFICES ASSUME Inv, [Next]_vars PROVE Inv'
    OBVIOUS
<1>1. CASE Next
  <2>1. Types'
    BY <1>1, MainTypes, OtherControl, ThreadTypes, TasksTypes, QueueTypes DEF Types, Next
  <2>2. Distinct' /\ HeldOK'
    BY <1>1, QuietCustody, AwaitCustody, PollCustody, BeginCustody, DispatchCustody,
       DispatchFailsCustody, RejectCustody, TakeCustody, PoolPublishCustody
       DEF Next, Bootstrap, Main, Worker, Pool
  <2> QED BY <1>1, <2>1, <2>2, HoldersStep, LifecycleStep, CountStep DEF Inv
<1>2. CASE UNCHANGED vars
  <2>1. \A r : /\ InTasks(r)' = InTasks(r) /\ InQueue(r)' = InQueue(r)
               /\ AtPool(r)' = AtPool(r) /\ AtWorker(r)' = AtWorker(r)
    BY <1>2 DEF vars, InTasks, InQueue, AtPool, AtWorker, PoolBusy, WorkerHolds
  <2>2. Distinct' /\ HeldOK'
    BY <1>2, <2>1 DEF vars, Inv, Distinct, HeldOK, Held
  <2> QED BY <1>2, <2>2 DEF vars, Inv, Types, MainType, ControlType, WorkerType, RequestType,
                            PoolType, TasksType, QueueType, HoldersOK, Lifecycle, CountOK,
                            Done, PoolBusy, WorkerHolds
<1> QED BY <1>1, <1>2

\* The invariant holds in every reachable state.
LEMMA InvAlways == Spec => []Inv
BY InvInit, InvStep, PTL DEF Spec

\* Two places of one request are the same place, and it has one when it is held.
LEMMA OneHolder ==
    ASSUME Inv, NEW r \in Requests
    PROVE  /\ \A a, b \in Holders(r) : a = b
           /\ Held(r) => Holders(r) # {}
<1>1. \A a \in Holders(r) :
        \/ a = <<"worker", 1>> /\ AtWorker(r)
        \/ a = <<"pool", 1>> /\ AtPool(r)
        \/ \E k \in DOMAIN tasks : a = <<"task", k>> /\ tasks[k] = r
        \/ \E k \in DOMAIN queue : a = <<"record", k>> /\ queue[k].request = r
  BY DEF Holders, AtWorker, AtPool, WorkerHolds
<1>2. \A k \in DOMAIN queue : Names(queue)[k] = queue[k].request
  BY DEF Names
<1>3. DOMAIN Names(queue) = DOMAIN queue
  BY DEF Names
<1>4. /\ (\E k \in DOMAIN tasks : tasks[k] = r) <=> InTasks(r)
      /\ (\E k \in DOMAIN queue : queue[k].request = r) <=> InQueue(r)
  BY <1>2, <1>3 DEF InTasks, InQueue, Occurs
<1>5. /\ \A i, j \in DOMAIN tasks : tasks[i] = r /\ tasks[j] = r => i = j
      /\ \A i, j \in DOMAIN queue : queue[i].request = r /\ queue[j].request = r => i = j
  BY <1>2, <1>3 DEF Inv, Distinct, Once
<1>6. \A a, b \in Holders(r) : a = b
  BY <1>1, <1>4, <1>5 DEF Inv, Distinct
<1>7. ASSUME Held(r) PROVE Holders(r) # {}
  <2>1. AtWorker(r) => <<"worker", 1>> \in Holders(r)
    BY DEF Holders, AtWorker, WorkerHolds
  <2>2. AtPool(r) => <<"pool", 1>> \in Holders(r)
    BY DEF Holders, AtPool
  <2>3. \A k \in DOMAIN tasks : tasks[k] = r => <<"task", k>> \in Holders(r)
    BY DEF Holders
  <2>4. \A k \in DOMAIN queue : queue[k].request = r => <<"record", k>> \in Holders(r)
    BY DEF Holders
  <2> QED BY <1>4, <1>7, <2>1, <2>2, <2>3, <2>4 DEF Held
<1> QED BY <1>6, <1>7

\* From ck_request_begin to ck_runtime_poll_completion a request is in one place,
\* for any number of requests and any capacities: the worker, the executor and
\* the queue hand it on, and only a closed queue may drop it.
THEOREM CustodyKept == Spec => []Custody
<1>1. ASSUME Inv PROVE Custody
  <2> SUFFICES ASSUME NEW r \in Requests
               PROVE  /\ Cardinality(Holders(r)) <= 1
                      /\ request[r] = "RUNNING" /\ ~closed => Cardinality(Holders(r)) = 1
      BY DEF Custody
  <2>1. CASE Holders(r) = {}
    <3>1. Cardinality(Holders(r)) = 0 /\ ~Held(r)
      BY <1>1, <2>1, OneHolder, FS_EmptySet
    <3> QED BY <1>1, <3>1 DEF Inv, HeldOK
  <2>2. CASE Holders(r) # {}
    <3>1. PICK a : a \in Holders(r)
      BY <2>2
    <3>2. Holders(r) = {a}
      BY <1>1, <3>1, OneHolder
    <3> QED BY <3>2, FS_Singleton
  <2> QED BY <2>1, <2>2
<1> QED BY <1>1, InvAlways, PTL

\* main reports success only for N completed requests, whoever cancels and
\* whichever call fails.
THEOREM SuccessEarned == Spec => []SuccessMeansCompleted
<1>1. ASSUME Inv PROVE SuccessMeansCompleted
  BY <1>1, DoneFacts DEF Inv, CountOK, SuccessMeansCompleted, Done
<1> QED BY <1>1, InvAlways, PTL

\* The completion queue is released when neither worker nor executor can reach
\* it any more, on every path through ck_runtime_init and ck_runtime_shutdown.
THEOREM QueueReleasedLast == Spec => []QueueOutlivesPublishers
<1>1. Inv => QueueOutlivesPublishers
  BY DEF Inv, Lifecycle, QueueOutlivesPublishers
<1> QED BY <1>1, InvAlways, PTL

\* The queues stay within their capacities and main counts no further than N.
THEOREM TypeCorrect == Spec => []TypeOK
<1>1. Inv => TypeOK
  BY DoneFacts DEF Inv, Types, MainType, ControlType, WorkerType, RequestType, PoolType,
                   TasksType, QueueType, Records, CountOK, TypeOK
<1> QED BY <1>1, InvAlways, PTL

================================================================================

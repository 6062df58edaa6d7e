-------------------------------- MODULE Runtime --------------------------------
(***************************************************************************)
(* A run of the server process: main.c, the bootstrap thread and the       *)
(* dispatching worker of ck_jni_runtime.c, and the executor of             *)
(* CkartaRuntime.java.  Main starts the Java VM, has the worker hand its   *)
(* requests to Java, takes the completions from the queue, and shuts down. *)
(*                                                                         *)
(* The parts with modules of their own appear by what they promise there:  *)
(* the completion queue is BoundedFifo with a descriptor that is readable  *)
(* after a publication, and a call of ck_request.c is one step.            *)
(***************************************************************************)
EXTENDS Integers, Sequences, FiniteSets

CONSTANTS
    N,                  \* how many requests main dispatches
    ExecutorCapacity,   \* EXECUTOR_QUEUE_CAPACITY
    CompletionCapacity, \* CK_COMPLETION_QUEUE_CAPACITY
    Cancellable,        \* the requests somebody may cancel
    MethodFound,        \* does CkartaRuntime have the dispatchAsync C asks for
    MayFail             \* may calls of JNI, of pthreads and of epoll fail

Requests == 1 .. N

ASSUME RuntimeAssumption ==
    /\ N \in Nat \ {0}
    /\ ExecutorCapacity \in Nat \ {0}
    /\ CompletionCapacity \in Nat \ {0}
    /\ Cancellable \subseteq Requests
    /\ MethodFound \in BOOLEAN /\ MayFail \in BOOLEAN

VARIABLES
    main,       \* [pc, completed, ok]: the main thread
    boot,       \* the bootstrap thread's place
    status,     \* bootstrap_done and bootstrap_status
    shutdown,   \* [requested, ok]: shutdown_requested, shutdown_status
    worker,     \* [pc, i, pending]: the worker, and has it a Java exception pending
    request,    \* the state of each request
    pool,       \* [thread, request, status, down]: the executor and its one thread
    tasks,      \* the executor's queue
    queue,      \* the completion queue, of [request, status] records
    closed,
    notified,   \* is the queue's eventfd readable
    destroyed   \* has ck_runtime_destroy released the queue

vars == <<main, boot, status, shutdown, worker, request, pool, tasks, queue,
          closed, notified, destroyed>>
completions == <<queue, closed, notified>>
executor == <<pool, tasks>>
bootstrap == <<boot, status>>

NoRequest == 0

Init ==
    /\ main = [pc |-> "init", completed |-> 0, ok |-> FALSE]
    /\ boot = "create"
    /\ status = "unknown"
    /\ shutdown = [requested |-> FALSE, ok |-> TRUE]
    /\ worker = [pc |-> "none", i |-> 1, pending |-> FALSE]
    /\ request = [r \in Requests |-> "PENDING"]
    /\ pool = [thread |-> "none", request |-> NoRequest, status |-> 0, down |-> FALSE]
    /\ tasks = <<>>
    /\ queue = <<>>
    /\ closed = FALSE
    /\ notified = FALSE
    /\ destroyed = FALSE

-------------------------------------------------------------------------------
(* ck_request.c                                                            *)

Settle(r, state) == request' = [request EXCEPT ![r] = IF @ = "RUNNING" THEN state ELSE @]

\* ck_request_cancel
Cancel(r) ==
    /\ request[r] \in {"PENDING", "RUNNING"}
    /\ request' = [request EXCEPT ![r] = "CANCELLING"]
    /\ UNCHANGED <<main, bootstrap, shutdown, worker, executor, completions, destroyed>>

-------------------------------------------------------------------------------
(* The completion queue                                                    *)

\* A slip: a closed queue is waited for like an open one.
PublishWaits(r, result) ==
    /\ Len(queue) < CompletionCapacity
    /\ IF closed THEN UNCHANGED completions
       ELSE /\ queue' = Append(queue, [request |-> r, status |-> result])
            /\ notified' = TRUE
            /\ UNCHANGED closed

\* publishCompletion waits for room; a closed queue drops the record, and both
\* callers take the answer 2 for success.
Publish(r, result) ==
    \/ closed /\ UNCHANGED completions
    \/ /\ ~closed
       /\ Len(queue) < CompletionCapacity
       /\ queue' = Append(queue, [request |-> r, status |-> result])
       /\ notified' = TRUE
       /\ UNCHANGED closed

\* ck_completion_queue_close; a second call changes nothing.
CloseQueue ==
    /\ closed' = TRUE
    /\ notified' = (notified \/ ~closed)
    /\ UNCHANGED queue

-------------------------------------------------------------------------------
(* ck_bootstrap_main                                                       *)

BootCreate ==
    /\ boot = "create"
    /\ \/ boot' = "start" /\ UNCHANGED status
       \/ MayFail /\ boot' = "done" /\ status' = "failed"
    /\ UNCHANGED <<main, shutdown, worker, request, executor, completions, destroyed>>

\* ck_call_start and, under the lock, its outcome for ck_runtime_init.
BootStart ==
    /\ boot = "start"
    /\ \/ boot' = "park" /\ status' = "ok" /\ UNCHANGED shutdown
       \/ /\ MayFail
          /\ boot' = "destroyVM" /\ status' = "failed"
          /\ shutdown' = [shutdown EXCEPT !.ok = FALSE]
    /\ UNCHANGED <<main, worker, request, executor, completions, destroyed>>

\* The wait on the condition ends with a shutdown; the queue is closed.
BootWake ==
    /\ boot = "park"
    /\ shutdown.requested
    /\ CloseQueue
    /\ boot' = "stop"
    /\ UNCHANGED <<main, status, shutdown, worker, request, executor, destroyed>>

\* CkartaRuntime.stop shuts the executor down; the call itself may fail.
BootStop ==
    /\ boot = "stop"
    /\ \/ /\ boot' = "await"
          /\ pool' = [pool EXCEPT !.down = TRUE]
          /\ UNCHANGED shutdown
       \/ /\ MayFail
          /\ boot' = "destroyVM"
          /\ shutdown' = [shutdown EXCEPT !.ok = FALSE]
          /\ UNCHANGED pool
    /\ UNCHANGED <<main, status, worker, request, tasks, completions, destroyed>>

PoolBusy == pool.thread \in {"run", "publish"}

\* awaitTermination succeeds, or times out and shutdownNow drops the tasks.
BootAwait ==
    /\ boot = "await"
    /\ boot' = "destroyVM"
    /\ \/ ~PoolBusy /\ tasks = <<>> /\ UNCHANGED tasks
       \/ tasks' = <<>>
    /\ UNCHANGED <<main, status, shutdown, worker, request, pool, completions, destroyed>>

\* A slip: the executor's thread is a daemon, for which the VM does not wait.
BootDestroyVMDaemon ==
    /\ boot = "destroyVM"
    /\ boot' = "done"
    /\ UNCHANGED <<main, status, shutdown, worker, request, executor, completions, destroyed>>

\* DestroyJavaVM waits for the executor's thread, which is no daemon and stays
\* until its executor has been shut down and has nothing left to do.
BootDestroyVM ==
    /\ boot = "destroyVM"
    /\ \/ pool.thread = "none"
       \/ pool.down /\ ~PoolBusy /\ tasks = <<>>
    /\ \/ UNCHANGED shutdown
       \/ MayFail /\ shutdown' = [shutdown EXCEPT !.ok = FALSE]
    /\ boot' = "done"
    /\ UNCHANGED <<main, status, worker, request, executor, completions, destroyed>>

Bootstrap ==
    BootCreate \/ BootStart \/ BootWake \/ BootStop \/ BootAwait \/ BootDestroyVM

-------------------------------------------------------------------------------
(* main, with the calls of ck_jni_runtime.c it is in                       *)

MainGo(pc) == main' = [main EXCEPT !.pc = pc]

\* The rest of ck_runtime_init: wait for the bootstrap, join it if it failed.
MainInit ==
    /\ main.pc = "init"
    /\ \/ status = "ok" /\ MainGo("dispatch") /\ UNCHANGED destroyed
       \/ status = "failed" /\ boot = "done" /\ MainGo("exit") /\ destroyed' = TRUE
    /\ UNCHANGED <<bootstrap, shutdown, worker, request, executor, completions>>

\* ck_runtime_dispatch_async_smoke starts the worker ...
MainDispatch ==
    /\ main.pc = "dispatch"
    /\ \/ MainGo("joinWorker") /\ worker' = [worker EXCEPT !.pc = "attach"]
       \/ MayFail /\ MainGo("shutdown") /\ UNCHANGED worker
    /\ UNCHANGED <<bootstrap, shutdown, request, executor, completions, destroyed>>

\* ... and joins it, whatever the worker's own result; then main sets up its
\* event loop.
MainJoinWorker ==
    /\ main.pc = "joinWorker"
    /\ worker.pc = "done"
    /\ MainGo("wait") \/ (MayFail /\ MainGo("shutdown"))
    /\ UNCHANGED <<bootstrap, shutdown, worker, request, executor, completions, destroyed>>

\* A slip: the loop ends one completion early.
MainWaitShort ==
    /\ main.pc = "wait"
    /\ \/ main.completed >= N - 1 /\ main' = [main EXCEPT !.pc = "shutdown", !.ok = TRUE]
       \/ main.completed < N - 1 /\ notified /\ MainGo("drain")
    /\ UNCHANGED <<bootstrap, shutdown, worker, request, executor, completions, destroyed>>

\* while (completed_count < 2): wait for the eventfd, without a timeout.
MainWait ==
    /\ main.pc = "wait"
    /\ \/ main.completed = N /\ main' = [main EXCEPT !.pc = "shutdown", !.ok = TRUE]
       \/ main.completed < N /\ notified /\ MainGo("drain")
    /\ UNCHANGED <<bootstrap, shutdown, worker, request, executor, completions, destroyed>>

\* ck_event_loop_wait fails, or the drain after it: main gives up.
MainWaitFails ==
    /\ main.pc \in {"wait", "drain"}
    /\ main.completed < N
    /\ MayFail
    /\ MainGo("shutdown")
    /\ UNCHANGED <<bootstrap, shutdown, worker, request, executor, completions, destroyed>>

MainDrain ==
    /\ main.pc = "drain"
    /\ notified' = FALSE
    /\ MainGo("poll")
    /\ UNCHANGED <<bootstrap, shutdown, worker, request, executor, queue, closed, destroyed>>

\* ck_runtime_poll_completion: an empty queue ends the round; a completion is
\* counted when it settles its request, and ignored (2) when something else
\* has; the first failure (-2) ends the loop.
MainPoll ==
    /\ main.pc = "poll"
    /\ \/ queue = <<>> /\ MainGo("wait") /\ UNCHANGED <<queue, request>>
       \/ /\ queue # <<>>
          /\ queue' = Tail(queue)
          /\ LET r == Head(queue).request
                 good == Head(queue).status = 0
                 first == request[r] = "RUNNING"
             IN  /\ Settle(r, IF good THEN "COMPLETED" ELSE "FAILED")
                 /\ \/ first /\ good /\ main' = [main EXCEPT !.completed = @ + 1]
                    \/ first /\ ~good /\ MainGo("shutdown")
                    \/ ~first /\ UNCHANGED main
    /\ UNCHANGED <<bootstrap, shutdown, worker, executor, closed, notified, destroyed>>

\* ck_runtime_shutdown up to its join ...
MainShutdown ==
    /\ main.pc = "shutdown"
    /\ shutdown' = [shutdown EXCEPT !.requested = TRUE]
    /\ CloseQueue
    /\ MainGo("joinBootstrap")
    /\ UNCHANGED <<bootstrap, worker, request, executor, destroyed>>

\* A call of the lock, the queue, the condition or the join fails on the way:
\* ck_runtime_shutdown returns at once and has not set shutdown_complete, so
\* ck_runtime_destroy leaves the queue alone.
MainShutdownFails ==
    /\ MayFail
    /\ \/ main.pc = "shutdown" /\ UNCHANGED <<shutdown, completions>>
       \/ /\ main.pc = "shutdown"
          /\ shutdown' = [shutdown EXCEPT !.requested = TRUE]
          /\ CloseQueue \/ UNCHANGED completions
       \/ main.pc = "joinBootstrap" /\ UNCHANGED <<shutdown, completions>>
    /\ main' = [main EXCEPT !.pc = "exit", !.ok = FALSE]
    /\ UNCHANGED <<bootstrap, worker, request, executor, destroyed>>

\* ... and from it, with ck_runtime_destroy.
MainExit ==
    /\ main.pc = "joinBootstrap"
    /\ boot = "done"
    /\ main' = [main EXCEPT !.pc = "exit", !.ok = @ /\ shutdown.ok]
    /\ destroyed' = TRUE
    /\ UNCHANGED <<bootstrap, shutdown, worker, request, executor, completions>>

Main ==
    \/ MainInit \/ MainDispatch \/ MainJoinWorker \/ MainWait \/ MainDrain
    \/ MainPoll \/ MainShutdown \/ MainExit
MainFails == MainWaitFails \/ MainShutdownFails

-------------------------------------------------------------------------------
(* ck_worker_main and CkartaRuntime.dispatchAsync                          *)

WorkerAttach ==
    /\ worker.pc = "attach"
    /\ \/ worker' = [worker EXCEPT !.pc = "begin"]
       \/ MayFail /\ worker' = [worker EXCEPT !.pc = "done"]
    /\ UNCHANGED <<main, bootstrap, shutdown, request, executor, completions, destroyed>>

NextRequest == [worker EXCEPT !.pc = "begin", !.i = @ + 1]

\* The head of the worker's loop, with ck_request_begin.
WorkerBegin ==
    /\ worker.pc = "begin"
    /\ \/ worker.i > N /\ worker' = [worker EXCEPT !.pc = "done"] /\ UNCHANGED request
       \/ /\ worker.i <= N
          /\ request[worker.i] = "PENDING"
          /\ request' = [request EXCEPT ![worker.i] = "RUNNING"]
          /\ worker' = [worker EXCEPT !.pc = "dispatch"]
       \/ /\ worker.i <= N
          /\ request[worker.i] # "PENDING"
          /\ worker' = NextRequest
          /\ UNCHANGED request
    /\ UNCHANGED <<main, bootstrap, shutdown, executor, completions, destroyed>>

\* dispatchAsync gives the request to the executor: to a new thread, to its
\* queue, or, when that is full, to nobody.
WorkerDispatch ==
    /\ worker.pc = "dispatch"
    /\ MethodFound /\ ~worker.pending
    /\ \/ /\ pool.thread = "none"
          /\ pool' = [pool EXCEPT !.thread = "run", !.request = worker.i]
          /\ worker' = NextRequest
          /\ UNCHANGED tasks
       \/ /\ pool.thread # "none"
          /\ Len(tasks) < ExecutorCapacity
          /\ tasks' = Append(tasks, worker.i)
          /\ worker' = NextRequest
          /\ UNCHANGED pool
       \/ /\ pool.thread # "none"
          /\ Len(tasks) = ExecutorCapacity
          /\ worker' = [worker EXCEPT !.pc = "reject"]
          /\ UNCHANGED executor
    /\ UNCHANGED <<main, bootstrap, shutdown, request, completions, destroyed>>

\* ck_call_dispatch_async fails with a Java exception, which nobody clears; the
\* worker fails the request and goes on.
WorkerDispatchFails ==
    /\ worker.pc = "dispatch"
    /\ ~MethodFound \/ worker.pending \/ MayFail
    /\ Settle(worker.i, "FAILED")
    /\ worker' = [NextRequest EXCEPT !.pending = TRUE]
    /\ UNCHANGED <<main, bootstrap, shutdown, executor, completions, destroyed>>

\* A slip: the rejection is caught and nothing comes of it.
WorkerRejectSilent ==
    /\ worker.pc = "reject"
    /\ worker' = NextRequest
    /\ UNCHANGED <<main, bootstrap, shutdown, request, executor, completions, destroyed>>

\* The rejected request is completed with -2 on the worker's own thread.
WorkerReject ==
    /\ worker.pc = "reject"
    /\ Publish(worker.i, -2)
    /\ worker' = NextRequest
    /\ UNCHANGED <<main, bootstrap, shutdown, request, executor, destroyed>>

Worker == WorkerAttach \/ WorkerBegin \/ WorkerDispatch \/ WorkerDispatchFails \/ WorkerReject

-------------------------------------------------------------------------------
(* The executor's thread                                                   *)

PoolTake ==
    /\ pool.thread = "idle"
    /\ tasks # <<>>
    /\ pool' = [pool EXCEPT !.thread = "run", !.request = Head(tasks)]
    /\ tasks' = Tail(tasks)
    /\ UNCHANGED <<main, bootstrap, shutdown, worker, request, completions, destroyed>>

\* The task looks at the request; whatever it throws becomes status -1.
PoolRun ==
    /\ pool.thread = "run"
    /\ \E result \in {0, -1} : pool' = [pool EXCEPT !.thread = "publish", !.status = result]
    /\ UNCHANGED <<main, bootstrap, shutdown, worker, request, tasks, completions, destroyed>>

PoolPublish ==
    /\ pool.thread = "publish"
    /\ Publish(pool.request, pool.status)
    /\ pool' = [pool EXCEPT !.thread = "idle", !.request = NoRequest, !.status = 0]
    /\ UNCHANGED <<main, bootstrap, shutdown, worker, request, tasks, destroyed>>

Pool == PoolTake \/ PoolRun \/ PoolPublish

-------------------------------------------------------------------------------
Next == Main \/ MainFails \/ Bootstrap \/ Worker \/ Pool \/ \E r \in Cancellable : Cancel(r)

Spec == Init /\ [][Next]_vars

\* Every thread of the process is scheduled; nobody is obliged to cancel, and
\* main's calls are not obliged to fail.
Fairness == WF_vars(Main) /\ WF_vars(Bootstrap) /\ WF_vars(Worker) /\ WF_vars(Pool)

FairSpec == Spec /\ Fairness

-------------------------------------------------------------------------------
TypeOK ==
    /\ main \in [pc : {"init", "dispatch", "joinWorker", "wait", "drain", "poll",
                       "shutdown", "joinBootstrap", "exit"},
                 completed : 0 .. N, ok : BOOLEAN]
    /\ boot \in {"create", "start", "park", "stop", "await", "destroyVM", "done"}
    /\ status \in {"unknown", "ok", "failed"}
    /\ shutdown \in [requested : BOOLEAN, ok : BOOLEAN]
    /\ worker \in [pc : {"none", "attach", "begin", "dispatch", "reject", "done"},
                   i : 1 .. N + 1, pending : BOOLEAN]
    /\ request \in [Requests -> {"PENDING", "RUNNING", "CANCELLING", "COMPLETED", "FAILED"}]
    /\ pool \in [thread : {"none", "idle", "run", "publish"},
                 request : Requests \cup {NoRequest}, status : {0, -1}, down : BOOLEAN]
    /\ tasks \in Seq(Requests) /\ Len(tasks) <= ExecutorCapacity
    /\ queue \in Seq([request : Requests, status : {0, -1, -2}])
    /\ Len(queue) <= CompletionCapacity
    /\ closed \in BOOLEAN /\ notified \in BOOLEAN /\ destroyed \in BOOLEAN

\* The places between ck_request_begin and ck_runtime_poll_completion where r is.
Holders(r) ==
    {<<"worker", 1>> : x \in {y \in {r} : worker.pc \in {"dispatch", "reject"} /\ worker.i = y}}
    \cup {<<"pool", 1>> : x \in {y \in {r} : PoolBusy /\ pool.request = y}}
    \cup {<<"task", k>> : k \in {j \in DOMAIN tasks : tasks[j] = r}}
    \cup {<<"record", k>> : k \in {j \in DOMAIN queue : queue[j].request = r}}

\* A request is handed on, never copied and never dropped: it is in at most one
\* place at a time, and a running one is in exactly one until the queue closes.
Custody ==
    \A r \in Requests :
        /\ Cardinality(Holders(r)) <= 1
        /\ request[r] = "RUNNING" /\ ~closed => Cardinality(Holders(r)) = 1

\* main reports success (CKARTA_SMOKE_OK) only when every request was completed.
SuccessMeansCompleted ==
    main.ok => \A r \in Requests : request[r] = "COMPLETED"

\* No thread can still publish into the completion queue when
\* ck_runtime_destroy, or the failure path of ck_runtime_init, releases it.
QueueOutlivesPublishers ==
    destroyed => ~PoolBusy /\ tasks = <<>> /\ worker.pc \in {"none", "done"}

\* ck_runtime_shutdown returns, although the executor may be waiting for room in
\* a queue nobody empties any more, unless CkartaRuntime.stop itself failed.
ShutdownEnds == (main.pc = "joinBootstrap") ~> (main.pc = "exit" \/ ~shutdown.ok)

\* The smoke run ends (tests/smoke_bootstrap.sh waits for its output): main
\* leaves its event loop and the process exits.
MainExits == <>(main.pc = "exit")
================================================================================

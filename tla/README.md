# Ckarta: a TLA+ model of the native core and its Java boundary

Ckarta is a C data plane and a Java Servlet container joined by JNI. The code
that is hard to test is of two kinds. Some of it is shared by several threads
without being in one function: a packed atomic word that decides how a connection
ends, a slot table with generation handles, a lock-free body ring, a bounded
completion queue with an eventfd, a request's state word, the callbacks of a
Servlet input stream, the life of one asynchronous cycle across two languages, and
the start and stop of the process around them. The rest is cut into pieces by the
network: requests that arrive in any fragmentation, responses that leave in
partial sends, and the turn from one request of a connection to the next. This
directory models those parts, model-checks them with TLC and proves the safety of
nine of them with TLAPS.

## The system and its modules

| part of the system | source | module | proofs |
|---|---|---|---|
| connection lifecycle word | `c/connection/ck_connection.c` | `Connection` implements `TerminalOutcome` | `ConnectionProofs` |
| connection registry, handles, pins | `c/connection/ck_connection_registry.c` | `ConnectionRegistry` | `ConnectionRegistryProofs` |
| request-body ring | `c/http/ck_http_request_body.c` | `RequestBody` | `RequestProofs` |
| completion queue, eventfd, event loop | `c/completion`, `c/event/ck_completion_notification.c`, `main.c` | `CompletionQueue` implements `BoundedFifo` | `CompletionQueueProofs` |
| request state and error record | `c/jni/ck_request.c` | `Request` | `RequestProofs` |
| asynchronous cycle, Java and native | `java/org/ckarta/servlet`, `c/jni/ck_async_bridge.c` | `AsyncCycle` implements `TerminalOutcome` | `AsyncCycleProofs` |
| main, bootstrap, worker, executor | `c/core/main.c`, `c/jni/ck_jni_runtime.c`, `CkartaRuntime.java` | `Runtime` | `RuntimeProofs` |
| request header parser | `c/http/ck_http_parser.c` | `HttpParser` | |
| chunked decoder | `c/http/ck_http_chunked.c` | `HttpChunked` | |
| input state of a request | `c/http/ck_http_input.c` | `HttpInput` (the two above) | |
| connection reader | `c/http/ck_http_connection_reader.c` | `ConnectionReader` (over `HttpInput`) | |
| response, output writer | `c/output` | `HttpOutput` | `HttpOutputProofs` |
| one connection, request after request | `ck_connection_http_recycle` | `Exchange` (reader, queue, output) | |
| Servlet input stream | `CkartaServletInputStream.java` | `ServletInputStream` | `ServletInputStreamProofs` |

How they interact. `main` starts the bootstrap thread, which creates the Java VM
and parks. A worker begins each request (`Request`) and calls into Java, whose
executor runs it and publishes a completion record (`CompletionQueue`); the
event loop is woken by the eventfd, takes the record and settles the request.
Connections live in the registry's slots (`ConnectionRegistry`); everybody
outside the registry holds a handle. The connection's lifecycle word
(`Connection`) decides which of several racing terminal events ended it, and the
Java `AsyncContext` asks that word before it publishes an outcome of its own
(`AsyncCycle`). On each connection the owner drives the reader, which parses what
the socket gave and passes body bytes through the ring of `RequestBody` to the
Servlet side, where `ServletInputStream` turns readiness into callbacks; the
response goes out through the writer, and when both sides are done the connection
is recycled for the next request (`Exchange`).

Composition follows promises. `TerminalOutcome` says what any owner of an end
promises: one event, never rewritten, resources reclaimed once and last.
`Connection` is shown to implement it, and so is the Java side in `AsyncCycle`.
`BoundedFifo` says what the completion queue promises; `CompletionQueue` is
shown to implement it and `Runtime` uses the queue at that level of detail, as it
uses a call of `ck_request.c` as one step, which `Request` justifies. In the same way
`Exchange` uses the body queue as a bounded queue with all-or-nothing writes and a
read that looks at the flags after it has seen the queue empty, which `RequestBody`
has load by load, and `ServletInputStream` uses a body source that
becomes ready, ends or fails.

### How state and actions correspond to the code

- `Connection`: `lifecycle` is the 64-bit word, packed and unpacked as in the
  code (state in the low byte, event in the next, the cycle id above, modulo
  `CycleModulus`). A load, a compare-and-swap and each step of the cleanup are
  actions of one thread, so a thread acts on what it loaded earlier. A weak
  compare-and-swap may fail for no reason (`TryTerminalRetry`, `CloseRetry`).
- `ConnectionRegistry`: every function runs under the registry's mutex and is
  one action. `pin` is who holds a borrowed reader or writer, `fdOwner` is who
  owns each descriptor number; the kernel hands closed numbers out again
  (`AcceptFd`). `reuse`, `issued` and `claims` are history.
- `RequestBody`: every atomic load and store and the copy of every byte is a
  step of the producer or of the consumer.
- `CompletionQueue`: a locked section is one step, up to a wait on the condition
  variable. The eventfd write inside the lock may fail and roll the store back;
  the drain is not under the lock and has steps of its own. `Leave` is the end of
  main's loop: it has what it waited for, or a call of the loop failed. The queue is
  closed only after that, by the shutdown.
- `Request`: the loads, swaps and the plain stores of the error record are
  steps, so that a half-written record is a state.
- `AsyncCycle`: every atomic field of the Java objects is a step, and so is a
  call of the registry. The event crosses JNI as an ordinal (`Ordinal`,
  `AsNative`).
- `Runtime`: four threads with a program counter each. The code dispatches two
  requests; here it is `N`, so that the queues fill up. `MethodFound` says
  whether `GetStaticMethodID` finds `dispatchAsync`. With the descriptor as it is
  written it does not (see the findings), and then nothing else happens; with
  `TRUE` the rest of the design is checked. `MainShutdownFails` has the early error
  returns of `ck_runtime_shutdown`, after which the queue is never released.
- `HttpParser`, `HttpChunked`, `HttpInput`: operators. A feed takes a state and the
  bytes there are and gives the new state, what was consumed and the result. The
  text of one header line is a single byte beside CR and LF. The constants
  `RequestLine` and `Field` give its parts, cut at blanks, at the colon and at the
  commas of a list, and `Number` the value of a digit string; which members of a list
  are visited, what is refused and what a list amounts to are operators (`Listed`,
  `ParseContentLength`, ...). Chunked framing is byte by byte. A
  body span is a position in the reader's buffer, as in the code.
- `ConnectionReader`: `call` is the running `drive` with its two budgets. What it
  does between two accesses to the socket or the queue is one step, so the consumer
  and the peer act in between. The consumer's read sees the queue empty in one step
  (`ReadLook`) and the flags in a later one (`ReadEnd`).
- `HttpOutput`: `response` is the staged response, `buffer` and `begin` are the
  writer's. A header is one byte that carries status, length and close. `earlier`
  (what was queued of the responses before this one) and `output` are history.
- `Exchange`: the owner makes one call at a time. `Recycle` is
  `ck_connection_http_recycle` with its guards and no others, so a finished response
  that was not queued, or not wholly, can be turned over unsent.
- `ServletInputStream`: a step is what a thread does up to the next field or answer
  of the source that another thread may change; `th` has each thread's place and
  locals. The application reads in its callback as long as `isReady()` allows, or on
  a thread of its own (`style`).

Definitions whose comment begins with "A slip" are variants of the definition
after them with one plausible mistake. No specification uses them; putting one in
the place of the definition it precedes must violate a property, which is how the
properties were shown to be able to fail.

## Runs

Each run is `tlc -config <cfg> <module>`.

| run | configuration | what it shows |
|---|---|---|
| connection | `MCConnection.cfg` | threads race every event, start and close: one terminal owner, one cleanup, no reply that turns out false; the word implements `TerminalOutcome`; a closed connection is cleaned up whatever `close(2)` reports |
| registry | `MCConnectionRegistry.cfg` | two slots, generations that wrap, failing registrations, pins: a stale handle misses, a pin protects what it borrows, a descriptor has one owner |
| body_eof | `MCRequestBodyEof.cfg` | *violated*: EOF can be returned with bytes still queued |
| completion_queue | `MCCompletionQueue.cfg` | nothing lost, no lost wakeup, no producer asleep beside a free cell; `BoundedFifo` is implemented; completions arrive while main is in its loop |
| async | `MCAsyncCycle.cfg` | one outcome for sink and listeners, none before the registry has one, a completion and a shutdown the same on both sides, asynchronous mode ends with the cycle, `TerminalOutcome` is implemented; a context that has left ACTIVE is completed and its binding invalidated |
| async_event | `MCAsyncEvent.cfg` | *violated*: Java publishes another event than the registry holds |
| process | `MCProcess.cfg` | three parts that share no state, side by side. `Runtime`: a running request is in exactly one place, success means all completed, the queue outlives its publishers; shutdown returns unless `CkartaRuntime.stop` failed. `Request`: one of finish, fail and cancel wins, no error record is seen before it is whole, a claimed failure is published. `RequestBody`: order, disjoint copies, a whole body when the end was marked before the read began; a consumer that keeps reading gets the bytes and the end |
| runtime_lookup | `MCRuntimeLookup.cfg` | *violated*: with the descriptor as written, main waits for ever |
| exchange | `MCExchange.cfg` | for every fragmentation and every cut of the budgets: bodies are decoded as framed, messages keep their boundaries, accepted and refused as the framing policy says, the queue's ends are true; what is queued of the responses leaves in order; and every exchange ends, or the connection stops for good or in one of two named states |
| exchange_budget | `MCExchangeBudget.cfg` | *violated*: a budget that ends between CR and LF can make a complete message a broken one |
| exchange_blank | `MCExchangeBlank.cfg` | *violated*: a `Content-Length` without a number is read as none |
| input_stream | `MCServletInputStream.cfg` | the listener hears a legal sequence of callbacks, a read that `isReady()` allowed in a callback is not refused, and no callback is lost |

### Bounds, and why they are enough

- `Connection`: two threads give a winner and a loser with the same event or
  another, each of which calls again and may close; the proofs hold for any
  number of threads. `Cycles = {0, 1, 4}` with
  `CycleModulus = 4` has the invalid id 0, a valid id and one that is too large
  for its field.
- `ConnectionRegistry`: `GenMax = 2` and `MaxReuse = 3` let a generation wrap
  past 0 and the next registration follow; one descriptor number is the harshest
  reuse.
- `RequestBody`: a ring of 3, spans up to the whole ring and 8 bytes wrap it more
  than twice, with reads that split a span and reads without room.
- `CompletionQueue`: two cells are the smallest ring in which order can go wrong;
  three producers with two records each wrap it, fill it, and have one asleep while
  another takes the cell it was woken for. `NotifyMax = 1` makes eventfd writes
  coalesce; main waits for two records (`Expected`), as in the code, and may fail at
  any call. Larger rings are covered by the proofs.
- `Request`: three threads, each of which may call any operation again, are one
  for each of finish, fail and cancel.
- `AsyncCycle`: three threads and the native owner, all five events.
- `Runtime`: four requests, one executor cell and two completion cells fill both
  queues, reject, and cancel.
- `Exchange`: a behaviour begins with one of 47 sequences of messages (`MCWires`):
  every kind of request line, header field and chunk the code tells apart, just
  within a limit and just beyond it, and pipelined pairs. The reference for what a
  message means (`accept`, `body`, `close`) is stated with the message, from the
  header fields and the framing policy and independently of the parser's control
  flow; in it a list may end in an empty member, as the parser has it, and a blank
  `Content-Length` is refused, which the parser does not do (`MCBlankWires`, the run
  exchange_blank). Buffer, budgets and queue of 4 are smaller than most messages, so
  that every message is cut in every place, the buffer is compacted, and bodies of 5,
  by length and in a chunk, meet a full queue. A chunked message with a line end every
  third byte has the processing budget end between CR and LF in call after call, until
  the buffer is full behind it. `QueueBytes >= ProcessBudget` (`ReaderBounds`), as in
  the code (65536 and 32768): the header and the first body span are fed in one call,
  and a span refused then would lose the bytes the header consumed. A writer of 2
  cannot hold the largest response at once.
- `ServletInputStream`: two executor threads let one callback begin while another
  ends; a body of two bytes has a byte that arrives while the first is read.

Symmetry is used only where no liveness is checked. Deadlock is not checked where
the system may stop: a request settled, a queue closed, a process that has
exited.

### Fairness

A thread inside a call is scheduled until the call returns (weak fairness of the
steps of a call); nobody is obliged to make a call, send a byte, end a body,
cancel, or report an event. Beyond that:

- `Connection` needs strong fairness of the successful compare-and-swap: a weak
  one may fail spuriously, but not for ever, and the word changes only three
  times.
- `RequestBody` lets the consumer come back with room for a byte again and again
  until it was told the end, as the readers of a Servlet input stream do.
- `CompletionQueue` keeps the event loop running until it leaves, and a producer that
  was woken returns from its wait. Nobody is obliged to leave or to close.
- In `Runtime` every thread of the process is scheduled; a failing wait is
  possible and never owed.
- `Exchange`: a running `drive` goes on until it returns. The owner calls it again
  when the socket has bytes or the connection is new or just turned over (`Due`):
  readiness is level-triggered, but it is the socket's, and bytes that are left in the
  reader's buffer wake nobody. Readiness means that, time and again, the socket gives
  or takes at least a byte (strong fairness of `ReaderReceives` and of the steps that
  answer). The handler commits and finishes; the consumer reads on. The peer may
  close, the socket may fail and the handler may ask for a close at any time, and
  `ExchangesEnd` counts those as ends. It excepts two states, and fails without either
  exception: the reader came back with bytes in its buffer while the socket has none
  (`Stalled`), and the consumer was told the end before it had the last bytes
  (`Deserted`, the first of the findings below, seen from the connection).
- `MCProcess` asks for the fairness of the part that is running.
- `ServletInputStream`: the executor runs its tasks, and a thread inside a call goes
  on. Nobody is obliged to send, to end the body, to read on a thread of its own or
  to close.

## What is proved

TLAPS checks, for every value of the constants that satisfies the named
assumptions (`ConnectionAssumption`, `RegistryAssumption`,
`RequestBodyAssumption`, `CompletionQueueAssumption`, `FiniteProducers`,
`RuntimeAssumption`, `OutputBounds`, `StreamAssumption`, `PoolAssumption`; `Request`
and `AsyncCycle` have none):

- `ConnectionProofs`: `TypeCorrect`, `TerminalOwnerUnique`, `CleanupAtMostOnce`,
  `RepliesTruthful`, `WordMonotone`, `OutcomeImplemented`. The lemma `PackUnpack`
  (the three fields do not overlap) turns word arithmetic into facts about state,
  event and cycle. The invariant adds that a word carries an event exactly when
  it is terminal (`WordOK`), that a loaded terminal word has the event the
  connection still has (`LoadedOK`), and that the thread in the cleanup has
  everything still to release (`CleanupOwner`): without the second a late swap
  could not be related to the present word.
- `ConnectionRegistryProofs`: `TypeCorrect`, `StaleHandlesMiss`, `PinsProtect`,
  `PinsReleasable`, `DescriptorsOwned`, `ClaimsUnique`, `SlotsTakenWhenIdle`. The
  key is `GenerationInStep`: a slot's generation and its number of reuses advance
  together, so that an equal generation within one round means the same
  registration. The pin counters are shown to be the cardinalities of the pins
  that are out.
- `RequestProofs`, about the request's state: `RequestTypeCorrect`, `WinnerUnique`,
  `ErrorsWhole`, `OutcomeFinal`, for any threads. The invariant `Publishers` says who
  may write the error record.
- `RequestProofs`, about the request's body: `TypeCorrect`, `BodyInOrder`,
  `CopiesNeverMeet`, `SettledEnd`, for every ring size, span and read length. The
  invariant says that
  the span being written and the bytes not yet read fit the ring together
  (`Bounded`), that what the consumer loaded lies behind what was published
  (`ConsumerBehind`), and that every cell from tail to the last byte copied holds
  the byte of its position; `CellsDiffer` is the one fact about remainders.
- `CompletionQueueProofs`: `TypeCorrect`, `RecordsKept`, `WakeupKept`,
  `NobodyStranded`, `FifoImplemented`, for every capacity and any finite set of
  producers. The refinement maps the ring from `head` on, `count` cells, to the
  sequence of the abstract queue. `NobodyStranded` counts: as long as a producer
  sleeps, the free cells are no more than the producers that were woken and have not
  yet looked. A pop frees a cell and wakes a sleeper, a store by a woken producer uses
  up both, and a store by another one only takes a cell.
- `AsyncCycleProofs`: `OutcomeUnique`, `NativeDecidesFirst`, `AsyncModeEnds`,
  `CycleImplementsOutcome`, for any threads and listeners. The outcome is told in
  several steps by one thread, so the invariant says who that is: at most one thread
  is between the swap of the state and the invalidation of the binding, and sink and
  listeners have heard what its place says (`PublisherInv`, `HistoryInv`); at most
  one is past the second flag of `startAsync` (`StartInv`). For `NativeDecidesFirst`
  it adds that a thread past the gate carries the event whose number the registry
  holds (`GateInv`), which survives until the publication because the registry's event
  is never rewritten; `NumberFacts` has the events that both sides number alike.
- `RuntimeProofs`: `CustodyKept`, `SuccessEarned`, `QueueReleasedLast`, `TypeCorrect`,
  for any number of requests and any capacities. `Custody` is not inductive: the
  invariant adds that a request nobody has begun is nowhere and that the executor's
  and the completion queue have no repetition (`Distinct`, `HeldOK`), how far the four
  threads can be apart (`Lifecycle`), and that main counts the completed requests
  (`CountOK`).
- `HttpOutputProofs`: `ResponsesInOrder`, for every buffer size, every split into
  queue calls and every pattern of partial sends: what was sent and what the writer
  holds is what was queued of the earlier responses and of this one, byte for byte.
  `StagedOK` ties what was queued to the response, whose serialisation no longer
  changes once it is finished. The theorem is about `OutputSpec`, the output side with
  a handler and an owner of its own; `Exchange` uses the same actions.
- `ServletInputStreamProofs`: `CallbacksLegal`, `ReadsAllowed`, `CallbacksOneAtATime`,
  for any number of executor threads and any body. The invariant says that a data
  callback is queued or on one thread, and then the flag is up (`OneCallback`), that
  the end and the error are one task each and not yet told while it is under way
  (`OneEnd`, `OneError`), that a thread that goes to tell the end has seen it
  (`EndSeen`), that there is no callback before there is a listener (`Registered`), and
  that within the callback the window is open and what `isReady()` saw is there
  (`Window`). The last one needs the first: only the thread in the callback takes bytes
  or closes the window. `MoveKeeps` is what a step of one thread owes the others, and
  every action is shown to pay it.

The type invariants, the finality of a request's outcome, `PinsReleasable`,
`WordMonotone`, `ClaimsUnique` and `SlotsTakenWhenIdle` are theorems only; no run
repeats them.

Only model-checked: every liveness property (the prover does not handle fairness
and ENABLED) and the input side of `Exchange` (the decoder is a recursive operator,
and what it computes for every input would need induction over data).

## Where the code and its documents disagree

1. **EOF before the last bytes** (`ck_http_request_body.c:116`). `read` loads
   `head`, finds nothing, and then looks at `eof`. A write and `mark_eof` in
   between make it return EOF although bytes are queued.
   `docs/SERVLET_INPUT_STREAM_MODEL.md:39` says there are none. The proof
   of `SettledEnd` shows the condition under which it is right: the end was marked
   before the read loaded `head`.
2. **The dispatch method is not found** (`ck_jni_runtime.c:272` against
   `CkartaRuntime.java:100`). The failed requests leave no completion record and
   main waits without a timeout.
3. **A budget that is a limit** (`ck_http_connection_reader.c:173`). With one byte of
   the processing budget left and a CR next, the feed makes no progress and the call
   goes to the socket. If the peer has sent everything and closed, `recv` gives 0,
   and the message is reported `EOF_INCOMPLETE` with an error on its body queue,
   although all of it is in the buffer. `docs/HTTP_CONNECTION_READER.md:41` says that
   a spent budget means `INCOMPLETE` and is no limit of HTTP semantics. `EndIsTrue`
   shows that this is the only way in which a complete message becomes broken.
   The same turn of the loop can receive more than the call processed. When that
   happens in call after call the buffer fills up behind the CR and the message is
   refused as `TOO_LARGE`, which is the exception `VerdictAsPolicy` states and the
   exchange run reaches. With the code's sizes it takes a chunked body of about a
   gigabyte with line ends in all the right places.
4. **Two numberings of one event** (`CkartaNativeAsyncBridge.java:63`,
   `ck_connection.h:21`). The event crosses JNI as `event.ordinal()` and is cast to an
   enumeration in another order, so that Java's timeout is a client disconnect in the
   registry. Both sides then report different outcomes, and a native disconnect that
   has won answers `ALREADY_SAME` to a timeout. `docs/CONNECTION_OWNERSHIP.md:278` says
   that Java must not establish a second terminal outcome when a different event has
   won. `NativeFirst` states what is true all the same: Java never publishes before
   the registry has an outcome, and for the two events with the same number,
   completion and shutdown, both sides have the same one.
5. **A `Content-Length` without a number** (`ck_http_parser.c:182`). The loop over the
   value is not entered, so the field is not refused and does not count as present, and
   the message is completed without a body. `docs/HTTP_FRAMING_POLICY.md`, sections 5
   and 6, has ambiguous framing rejected and illegal numbers validated. (A blank
   `Transfer-Encoding` is refused.)

Other observations, which no run states:

- When the response cannot be allocated, `ck_connection_init` frees reader and writer
  and not the body queue (`ck_connection.c:85`).
- After a failed dispatch the worker goes on to JNI calls with the exception pending
  (`ck_jni_runtime.c:273`).
- A rejected request is published by the worker, which waits for room while main,
  the only consumer, is joined on the worker. With at least two requests more than
  the executor's queue holds, and more than the completion queue holds, both wait
  for ever. The program dispatches two requests and the queues hold 64.
- `ck_connection_http_recycle` asks that the response is finished and the writer empty,
  and not that the response was queued: between the two, or between the pieces of a
  response larger than the writer, the next request replaces a response that was never
  or only partly sent. Likewise it asks that the body queue is drained and not that its
  consumer has seen the end. A consumer that comes for the end after the recycle gets
  the next request's bytes.
- After `INCOMPLETE` for a spent budget and after `BODY_BACKPRESSURE` the rest of a
  message may be in the reader's buffer. `docs/HTTP_CONNECTION_READER.md:41` has a later
  readiness or dispatch go on with it, but if the socket has nothing more there is no
  readiness; the owner has to come back by itself.
- `BAD_REQUEST`, `TOO_LARGE` and `IO_ERROR` leave the body queue without an end; an
  idle connection that the peer closes is reported `EOF_INCOMPLETE`.
- A source that fails before `setErrorInterest` was called has nobody to report to:
  registration asks it whether it is ready or finished and not whether it has failed
  (`CkartaServletInputStream.java:123`), so the listener does not hear of the error
  unless a read meets it. `ListenerIsTold` counts errors that were reported.
- An application that reads on a thread of its own can have a read refused that
  `isReady()` had allowed, since the end of a callback takes the permission back, and
  can miss the callback for bytes that arrive inside `isReady()`
  (`CkartaServletInputStream.java:97`). `onDataAvailable` can follow
  `onAllDataRead`. `ReadyMeansReadable` and `ListenerIsTold` are therefore about the
  listener that reads in its callback.
- `NativeRequest.java:61` expects a header of 13 bytes; `ck_request_init_http` writes
  12.

## Not modelled

Left out of the modelled parts: the `AsyncContext` without a native bridge, the
difference between the reasons for which a binding fails, a failing publication in
`Runtime` (it is in `CompletionQueue`), the synchronous dispatch, allocation of
the request table, a body sink other than the connection's queue, the tokenising
inside one header line, and all printing. `BodySource` has no implementation in the
repository outside its tests; what it promises is taken from its comments and from how
the stream uses it.

Left out whole: `CkartaServletAsyncContext` (delegates to the context that
`AsyncCycle` models), the metadata of `ck_request_init_http` and `NativeRequest`
(stateless, and without a round trip while the two headers differ), `ck_config.c`
(a sequential parser that runs once), `ck_error.c` (a record), `ck_event_loop.c`,
`ck_tcp_listener.c`, `ck_socket.c` and `ck_io_uring_probe.c` (wrappers of system
calls), `bench` and `tools`.

## Running it

    tlc -workers 2 -config MCConnection.cfg MCConnection
    tlapm ConnectionProofs.tla

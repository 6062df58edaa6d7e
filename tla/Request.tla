-------------------------------- MODULE Request --------------------------------
(***************************************************************************)
(* The lifecycle of one native request (ck_request.c).  The worker begins  *)
(* it, and from then on completion, failure and cancellation race on the   *)
(* atomic state word; a failure also publishes an error record that other  *)
(* threads read without a lock.  Every atomic access is a step, and so are *)
(* the plain write and the plain read of the error record.                 *)
(***************************************************************************)
EXTENDS Integers

CONSTANTS
    Threads         \* the threads that use the request

VARIABLES
    state,          \* the atomic state word
    requestError,   \* whose failure the error record describes
    pc,             \* per thread: the step of its call it is at
    current,        \* per thread: the state ck_request_cancel loaded
    began,          \* history: threads whose ck_request_begin returned 0
    winner,         \* history: [thread, outcome] calls whose swap succeeded
    read            \* history: per thread, the error it last read

requestVars == <<state, requestError, pc, current, began, winner, read>>

States == {"PENDING", "RUNNING", "CANCELLING", "FAILING", "COMPLETED", "FAILED"}
Open == {"PENDING", "RUNNING"}
Settled == {"CANCELLING", "COMPLETED", "FAILED"}

NoThread == "no thread"     \* the cleared record of ck_error_init
Torn == "torn"              \* a record that is half written

\* ck_request_init
RequestInit ==
    /\ state = "PENDING"
    /\ requestError = NoThread
    /\ pc = [t \in Threads |-> "idle"]
    /\ current = [t \in Threads |-> "PENDING"]
    /\ began = {}
    /\ winner = {}
    /\ read = [t \in Threads |-> NoThread]

Go(t, step) == pc' = [pc EXCEPT ![t] = step]
Win(t, outcome) == winner' = winner \cup {[thread |-> t, outcome |-> outcome]}

-----------------------------------------------------------------------------
\* ck_request_begin; a request that is no longer pending is left alone.
Begin(t) ==
    /\ pc[t] = "idle"
    /\ state = "PENDING"
    /\ state' = "RUNNING"
    /\ began' = began \cup {t}
    /\ UNCHANGED <<requestError, pc, current, winner, read>>

\* ck_request_cancel loads the state and is done when the request is decided ...
CancelLoad(t) ==
    /\ pc[t] \in {"idle", "cancelLoad"}
    /\ current' = [current EXCEPT ![t] = state]
    /\ Go(t, IF state \in Open THEN "cancelSwap" ELSE "idle")
    /\ UNCHANGED <<state, requestError, began, winner, read>>

\* A slip: a plain store where the swap is.
CancelSwapStore(t) ==
    /\ pc[t] = "cancelSwap"
    /\ state' = "CANCELLING"
    /\ Win(t, "CANCELLING")
    /\ Go(t, "idle")
    /\ UNCHANGED <<requestError, current, began, read>>

\* ... and otherwise swaps it ...
CancelSwap(t) ==
    /\ pc[t] = "cancelSwap"
    /\ state = current[t]
    /\ state' = "CANCELLING"
    /\ Win(t, "CANCELLING")
    /\ Go(t, "idle")
    /\ UNCHANGED <<requestError, current, began, read>>

\* ... or starts over: the word has changed, or the weak swap failed anyway.
CancelRetry(t) ==
    /\ pc[t] = "cancelSwap"
    /\ Go(t, "cancelLoad")
    /\ UNCHANGED <<state, requestError, current, began, winner, read>>

\* A slip: the failure is visible before its record is written.
FailClaimVisible(t) ==
    /\ pc[t] = "idle"
    /\ state = "RUNNING"
    /\ state' = "FAILED"
    /\ Win(t, "FAILED")
    /\ Go(t, "failWrite")
    /\ UNCHANGED <<requestError, current, began, read>>

\* ck_request_fail takes the request with one swap ...
FailClaim(t) ==
    /\ pc[t] = "idle"
    /\ state = "RUNNING"
    /\ state' = "FAILING"
    /\ Win(t, "FAILED")
    /\ Go(t, "failWrite")
    /\ UNCHANGED <<requestError, current, began, read>>

\* ... starts to write the error record ...
FailWrite(t) ==
    /\ pc[t] = "failWrite"
    /\ requestError' = Torn
    /\ Go(t, "failWritten")
    /\ UNCHANGED <<state, current, began, winner, read>>

\* A slip: the call returns with its claim unpublished.
FailWrittenReturns(t) ==
    /\ pc[t] = "failWritten"
    /\ requestError' = t
    /\ Go(t, "idle")
    /\ UNCHANGED <<state, current, began, winner, read>>

FailWritten(t) ==
    /\ pc[t] = "failWritten"
    /\ requestError' = t
    /\ Go(t, "failPublish")
    /\ UNCHANGED <<state, current, began, winner, read>>

\* ... and publishes it with the state.
FailPublish(t) ==
    /\ pc[t] = "failPublish"
    /\ state' = "FAILED"
    /\ Go(t, "idle")
    /\ UNCHANGED <<requestError, current, began, winner, read>>

\* ck_request_finish
Finish(t) ==
    /\ pc[t] = "idle"
    /\ state = "RUNNING"
    /\ state' = "COMPLETED"
    /\ Win(t, "COMPLETED")
    /\ UNCHANGED <<requestError, pc, current, began, read>>

\* ck_request_error hands the record out once the state is FAILED ...
ErrorLoad(t) ==
    /\ pc[t] = "idle"
    /\ state = "FAILED"
    /\ Go(t, "read")
    /\ UNCHANGED <<state, requestError, current, began, winner, read>>

\* ... and the caller reads it.
ErrorRead(t) ==
    /\ pc[t] = "read"
    /\ read' = [read EXCEPT ![t] = requestError]
    /\ Go(t, "idle")
    /\ UNCHANGED <<state, requestError, current, began, winner>>

Publication(t) == FailWrite(t) \/ FailWritten(t) \/ FailPublish(t)

RequestNext ==
    \E t \in Threads :
        \/ Begin(t) \/ Finish(t)
        \/ CancelLoad(t) \/ CancelSwap(t) \/ CancelRetry(t)
        \/ FailClaim(t) \/ Publication(t)
        \/ ErrorLoad(t) \/ ErrorRead(t)

RequestSpec == RequestInit /\ [][RequestNext]_requestVars

\* A thread that has claimed the failure goes on to publish it.
RequestFairness == \A t \in Threads : WF_requestVars(Publication(t))

RequestFairSpec == RequestSpec /\ RequestFairness

-------------------------------------------------------------------------------
RequestTypeOK ==
    /\ state \in States
    /\ requestError \in Threads \cup {NoThread, Torn}
    /\ pc \in [Threads -> {"idle", "cancelLoad", "cancelSwap", "failWrite",
                           "failWritten", "failPublish", "read"}]
    /\ current \in [Threads -> States]
    /\ began \subseteq Threads
    /\ winner \subseteq [thread : Threads, outcome : Settled]
    /\ read \in [Threads -> Threads \cup {NoThread, Torn}]

\* However begin, finish, fail and cancel race, one call at most decides the
\* request, and the state every later caller sees is the outcome of that call.
OneWinner ==
    \A w \in winner :
        /\ \A v \in winner : v = w
        /\ state = w.outcome \/ (state = "FAILING" /\ w.outcome = "FAILED")

\* The worker runs a request at most once: two threads cannot both begin it.
BegunOnce == \A t, u \in began : t = u

\* A thread that is handed the error record reads the whole record of the call
\* that won, never a cleared or a half written one.
ErrorWhole ==
    \A t \in Threads :
        /\ pc[t] = "read" => [thread |-> requestError, outcome |-> "FAILED"] \in winner
        /\ read[t] # NoThread => [thread |-> read[t], outcome |-> "FAILED"] \in winner

\* "Once CANCELLING is entered it may not be overwritten by COMPLETED, FAILING
\* or FAILED" (docs/JNI_ABI.md), and the same for the other outcomes.
SettledForGood == [][(state \in Settled) => (state' = state)]_requestVars

\* FAILING is a passing state: the failure becomes visible.
FailurePublished == (state = "FAILING") ~> (state = "FAILED")
================================================================================

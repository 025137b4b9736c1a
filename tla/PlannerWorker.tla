--------------------------- MODULE PlannerWorker ---------------------------
(***************************************************************************)
(* One planner worker process and its parent side: the thread that submits,    *)
(* polls, abandons and closes, and the collector thread.  Both hold the lock   *)
(* for a whole call or message, so each is one action.  The process is the     *)
(* third actor; it may die or hang.                                         *)
(*                                                                          *)
(* The driver knows one request, the newest it submitted: the supervisor of     *)
(* PlannerRecovery drops every other id.                                     *)
(***************************************************************************)
EXTENDS Integers, Sequences, FiniteSets

CONSTANTS
    Capacity,       \* PlannerProcessConfig.result_buffer_capacity
    Timeout,        \* transport_timeout_ns
    MaxRequests,    \* bound of the model: requests
    MaxTime         \* bound of the model: the clock

ASSUME WorkerAssumption ==
    /\ Capacity \in Nat \ {0}
    /\ Timeout \in Nat
    /\ MaxRequests \in Nat
    /\ MaxTime \in Nat

Requests == 1 .. MaxRequests
None == 0

VARIABLES
    last,           \* the newest request; _next_id is one more
    running,        \* _running
    pending,        \* _pending
    buffer,         \* the keys of _buffer
    abandoned,      \* _abandoned
    requestQueue,   \* _request_queue
    resultQueue,    \* _result_queue
    computing,      \* the request the process works on
    process,        \* the worker process is alive
    error,          \* _collector_error
    collecting,     \* the collector thread lives
    closing,        \* close(): not called, called, returned
    now,            \* the clock
    submitted,      \* _WorkItem.submit_ns
    held,           \* history: when the running request went to the process
    polled          \* history: the last poll that found nothing and no fault

parentVars == <<last, running, pending, buffer, abandoned>>
processVars == <<resultQueue, computing, process>>
clockVars == <<now, submitted, held, polled>>
vars == <<parentVars, requestQueue, processVars, error, collecting, closing, clockVars>>

Errors == {"NONE", "WORKER_FAILED", "WORKER_EXITED", "TRANSPORT_TIMEOUT",
           "TRANSPORT_FAILED", "BUFFER_FULL"}

TypeOK ==
    /\ last \in Requests \cup {None}
    /\ running \in Requests \cup {None}
    /\ pending \in Requests \cup {None}
    /\ buffer \subseteq Requests
    /\ abandoned \subseteq Requests
    /\ requestQueue \in Seq(Requests) /\ Len(requestQueue) <= 1
    /\ resultQueue \in Seq([id : Requests, ok : BOOLEAN]) /\ Len(resultQueue) <= Capacity
    /\ computing \in Requests \cup {None}
    /\ process \in BOOLEAN
    /\ error \in Errors
    /\ collecting \in BOOLEAN
    /\ closing \in {"NO", "BEGUN", "DONE"}
    /\ now \in 0 .. MaxTime
    /\ submitted \in [Requests -> 0 .. MaxTime]
    /\ held \in 0 .. MaxTime
    /\ polled \in 0 .. MaxTime

(* The constructor returns with the process ready and the collector running.   *)
Init ==
    /\ last = None
    /\ running = None
    /\ pending = None
    /\ buffer = {}
    /\ abandoned = {}
    /\ requestQueue = <<>>
    /\ resultQueue = <<>>
    /\ computing = None
    /\ process = TRUE
    /\ error = "NONE"
    /\ collecting = TRUE
    /\ closing = "NO"
    /\ now = 0
    /\ submitted = [r \in Requests |-> 0]
    /\ held = 0
    /\ polled = 0

-----------------------------------------------------------------------------
(* submit and take_completion raise on a closed, failed or dead worker.      *)
Usable == closing = "NO" /\ error = "NONE" /\ process

(* _dispatch_locked: the queue has room for one item.                        *)
Dispatch(r) ==
    IF Len(requestQueue) < 1
    THEN /\ requestQueue' = Append(requestQueue, r)
         /\ running' = r
         /\ held' = now
         /\ UNCHANGED error
    ELSE /\ error' = "TRANSPORT_FAILED"
         /\ UNCHANGED <<requestQueue, running, held>>

(* Mutant: an answer nobody took stays when a request is submitted. *)
MutKept == buffer

Kept == {}

Busy == running # None

Submit ==
    /\ Usable
    /\ last < MaxRequests
    /\ now + Timeout < MaxTime      \* bound of the model: the watchdog can still fire
    /\ last' = last + 1
    /\ submitted' = [submitted EXCEPT ![last'] = now]
    /\ buffer' = Kept
    /\ IF Busy
       THEN /\ abandoned' = abandoned \cup {running}
            /\ pending' = last'
            /\ UNCHANGED <<running, requestQueue, held, error>>
       ELSE /\ Dispatch(last')
            /\ UNCHANGED <<abandoned, pending>>
    /\ UNCHANGED <<processVars, collecting, closing, now, polled>>

(* Mutant: the watchdog looks at the newest request instead of the running one. *)
MutWatched == IF pending # None THEN pending ELSE running

Watched == running

(* Mutant: a poll does not look at the age of what the process holds. *)
MutOverdue == FALSE

Overdue == Watched # None /\ now - submitted[Watched] > Timeout

(* take_completion of the newest request: the answer, a timeout, nothing.     *)
TakeAnswer ==
    /\ Usable
    /\ last \in buffer
    /\ buffer' = buffer \ {last}
    /\ UNCHANGED <<last, running, pending, abandoned, requestQueue, processVars, error,
                   collecting, closing, clockVars>>

PollNothing ==
    /\ Usable
    /\ last # None
    /\ last \notin buffer
    /\ IF Overdue
       THEN error' = "TRANSPORT_TIMEOUT" /\ UNCHANGED polled
       ELSE polled' = now /\ UNCHANGED error
    /\ UNCHANGED <<parentVars, requestQueue, processVars, collecting, closing, now,
                   submitted, held>>

Poll == TakeAnswer \/ PollNothing

Abandon ==
    /\ closing = "NO"
    /\ last # None
    /\ buffer' = buffer \ {last}
    /\ pending' = IF pending = last THEN None ELSE pending
    /\ abandoned' = IF running = last THEN abandoned \cup {last} ELSE abandoned
    /\ UNCHANGED <<last, running, requestQueue, processVars, error, collecting, closing,
                   clockVars>>

(* close(): marked under the lock; then the process is stopped, or killed,     *)
(* and the collector waited for.                                            *)
Close ==
    /\ closing = "NO"
    /\ closing' = "BEGUN"
    /\ UNCHANGED <<parentVars, requestQueue, processVars, error, collecting, clockVars>>

FinishClose ==
    /\ closing = "BEGUN"
    /\ closing' = "DONE"
    /\ process' = FALSE
    /\ computing' = None
    /\ collecting' = FALSE
    /\ buffer' = {}
    /\ abandoned' = {}
    /\ running' = None
    /\ pending' = None
    /\ requestQueue' = <<>>
    /\ resultQueue' = <<>>
    /\ UNCHANGED <<last, error, clockVars>>

-----------------------------------------------------------------------------
(* The process.                                                             *)
WorkerTakes ==
    /\ process
    /\ computing = None
    /\ requestQueue # <<>>
    /\ computing' = Head(requestQueue)
    /\ requestQueue' = Tail(requestQueue)
    /\ UNCHANGED <<parentVars, resultQueue, process, error, collecting, closing, clockVars>>

WorkerAnswers ==
    /\ process
    /\ computing # None
    /\ Len(resultQueue) < Capacity
    /\ \E ok \in BOOLEAN : resultQueue' = Append(resultQueue, [id |-> computing, ok |-> ok])
    /\ computing' = None
    /\ UNCHANGED <<parentVars, requestQueue, process, error, collecting, closing, clockVars>>

WorkerDies ==
    /\ process
    /\ process' = FALSE
    /\ computing' = None
    /\ UNCHANGED <<parentVars, requestQueue, resultQueue, error, collecting, closing, clockVars>>

-----------------------------------------------------------------------------
(* The collector thread.                                                    *)

(* Mutant: the answer to an abandoned request is kept. *)
MutDiscarded(r) == FALSE

Discarded(r) == r \in abandoned

NextWork == {pending} \ {None}

Accept(r) ==
    /\ abandoned' = abandoned \ {r}
    /\ pending' = None
    /\ buffer' = IF Discarded(r) THEN buffer ELSE buffer \cup {r}
    /\ \/ \E next \in NextWork : Dispatch(next)
       \/ /\ NextWork = {}
          /\ running' = None
          /\ UNCHANGED <<requestQueue, held, error>>
    /\ collecting' = (error' # "TRANSPORT_FAILED")

BufferFull(r) == ~Discarded(r) /\ Cardinality(buffer) >= Capacity

Fault(reason) ==
    /\ error' = reason
    /\ collecting' = FALSE
    /\ UNCHANGED <<pending, requestQueue, held>>

Collect ==
    /\ collecting
    /\ resultQueue # <<>>
    /\ resultQueue' = Tail(resultQueue)
    /\ LET message == Head(resultQueue) IN
         \/ /\ message.id # running
            /\ UNCHANGED <<running, pending, buffer, abandoned, requestQueue, held, error,
                           collecting>>
         \/ /\ message.id = running /\ ~message.ok
            /\ Fault("WORKER_FAILED")
            /\ UNCHANGED <<running, buffer, abandoned>>
         \/ /\ message.id = running /\ message.ok /\ BufferFull(running)
            /\ Fault("BUFFER_FULL")
            /\ running' = None
            /\ UNCHANGED <<buffer, abandoned>>
         \/ /\ message.id = running /\ message.ok /\ ~BufferFull(running)
            /\ Accept(running)
    /\ UNCHANGED <<last, computing, process, closing, now, submitted, polled>>

(* The queue stayed empty for a while and the process is gone.               *)
CollectorNoticesExit ==
    /\ collecting
    /\ resultQueue = <<>>
    /\ ~process
    /\ collecting' = FALSE
    /\ error' = IF closing = "NO" /\ error = "NONE" THEN "WORKER_EXITED" ELSE error
    /\ UNCHANGED <<parentVars, requestQueue, processVars, closing, clockVars>>

Tick ==
    /\ now < MaxTime
    /\ now' = now + 1
    /\ UNCHANGED <<parentVars, requestQueue, processVars, error, collecting, closing,
                   submitted, held, polled>>

-----------------------------------------------------------------------------
Next ==
    \/ Submit
    \/ Poll
    \/ Abandon
    \/ Close
    \/ FinishClose
    \/ WorkerTakes
    \/ WorkerAnswers
    \/ WorkerDies
    \/ Collect
    \/ CollectorNoticesExit
    \/ Tick

Spec == Init /\ [][Next]_vars

(* Time passes, the driver polls every tick, the collector polls its queue.    *)
(* Nothing is assumed of the process.                                       *)
FairSpec == Spec /\ WF_vars(Tick) /\ WF_vars(Poll) /\ WF_vars(Collect \/ CollectorNoticesExit)

-----------------------------------------------------------------------------
(* One queue place and one buffered answer are enough, whatever the order of    *)
(* submissions, abandonments and answers: the two overflow errors, which take   *)
(* a healthy worker down, do not happen.                                    *)
SlotsSuffice == error \notin {"TRANSPORT_FAILED", "BUFFER_FULL"}

(* "Superseding requests must not reset a hung worker's watchdog": a poll finds *)
(* nothing wrong only while what the process holds is not overdue.            *)
HungIsNoticed ==
    error = "NONE" /\ closing = "NO" /\ running # None => polled <= held + Timeout

UsablePort == closing = "NO" /\ error = "NONE"

Slot ==
    CASE ~UsablePort -> "NONE"
      [] UsablePort /\ last \in buffer -> "ANSWERED"
      [] UsablePort /\ (pending = last \/ (running = last /\ last \notin abandoned))
           /\ last # None /\ last \notin buffer -> "ASKED"
      [] OTHER -> "NONE"

Port == INSTANCE RolloutPort WITH slot <- Slot, up <- UsablePort

(* Two slots, a buffer, a set of abandoned ids and two queues behave like one   *)
(* slot for the newest request.                                             *)
ImplementsPort == Port!Spec

(* A polled request does not stay open for ever, be the worker hung or dead.    *)
RequestsEnd ==
    \A r \in Requests : (last = r /\ Slot = "ASKED") ~> (last # r \/ Slot # "ASKED")
=============================================================================

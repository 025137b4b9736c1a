-------------------------- MODULE PlannerRecovery --------------------------
(***************************************************************************)
(* The recovery supervisor of the trajectory planner's worker process.       *)
(*                                                                          *)
(* Two threads share its state under one lock: the control thread, which      *)
(* submits, polls, abandons and closes, and a recovery thread, which lives     *)
(* while `recovering` holds and replaces a failed worker.  The recovery        *)
(* thread writes under the lock and lets go of it between sections; each       *)
(* section is an action.  The control thread's calls are atomic here but for    *)
(* close: it is the only one to start a recovery, and while none runs nobody    *)
(* else writes what it reads.                                               *)
(***************************************************************************)
EXTENDS Integers, FiniteSets

CONSTANTS
    MaxAttempts,    \* PlannerRecoveryPolicy.max_attempts
    MaxWorkers,     \* bound of the model: workers that ever start
    MaxRequests     \* bound of the model: requests that are ever submitted

ASSUME RecoveryAssumption ==
    /\ MaxAttempts \in Nat \ {0}
    /\ MaxWorkers \in Nat \ {0}
    /\ MaxRequests \in Nat

Workers == 1 .. MaxWorkers
Requests == 1 .. MaxRequests
None == 0

VARIABLES
    worker,     \* each worker process: not yet started, up, down, closed
    backend,    \* _backend
    recovering, \* _recovering
    failed,     \* _failed
    closed,     \* _closed, and with it _recovery_stop
    latest,     \* _latest_request_id
    present,    \* the keys of _request_states
    inner,      \* _RequestState.inner_request_id: the worker it was handed to
    early,      \* history: submitted while no recovery ran
    produced,   \* _produced_count
    accepted,   \* _accepted_count
    superseded, \* _superseded_count
    closing,    \* where close() is, and the backend it took
    rpc,        \* where the recovery thread is
    attempt,    \* its attempt
    candidate,  \* the backend it closes or starts
    wanted      \* the request it saw as the latest

requestVars == <<latest, present, inner, early, produced, accepted, superseded>>
threadVars == <<rpc, attempt, candidate, wanted>>
vars == <<worker, backend, recovering, failed, closed, requestVars, closing, threadVars>>

RecoverySteps == {"NONE", "CLOSE_OLD", "START", "LOOK", "INSTALL", "HAND", "PUBLISH",
                  "GIVE_UP"}

TypeOK ==
    /\ worker \in [Workers -> {"UNBORN", "UP", "DOWN", "CLOSED"}]
    /\ backend \in Workers \cup {None}
    /\ recovering \in BOOLEAN
    /\ failed \in BOOLEAN
    /\ closed \in BOOLEAN
    /\ latest \in Requests \cup {None}
    /\ present \subseteq Requests
    /\ inner \in [Requests -> Workers \cup {None}]
    /\ early \subseteq Requests
    /\ produced \in 0 .. MaxRequests
    /\ accepted \in 0 .. MaxRequests
    /\ superseded \in 0 .. MaxRequests
    /\ closing \in [step : {"NO", "BACKEND", "DONE"}, backend : Workers \cup {None}]
    /\ rpc \in RecoverySteps
    /\ attempt \in 0 .. MaxAttempts
    /\ candidate \in Workers \cup {None}
    /\ wanted \in Requests \cup {None}

(* Construction starts the first worker, or fails as a whole.               *)
Init ==
    /\ worker = [w \in Workers |-> IF w = 1 THEN "UP" ELSE "UNBORN"]
    /\ backend = 1
    /\ recovering = FALSE
    /\ failed = FALSE
    /\ closed = FALSE
    /\ latest = None
    /\ present = {}
    /\ inner = [r \in Requests |-> None]
    /\ early = {}
    /\ produced = 0
    /\ accepted = 0
    /\ superseded = 0
    /\ closing = [step |-> "NO", backend |-> None]
    /\ rpc = "NONE"
    /\ attempt = 0
    /\ candidate = None
    /\ wanted = None

-----------------------------------------------------------------------------
Open == ~closed /\ ~failed

(* A worker process dies, or its collector reports an error.                *)
WorkerFails(w) ==
    /\ worker[w] = "UP"
    /\ worker' = [worker EXCEPT ![w] = "DOWN"]
    /\ UNCHANGED <<backend, recovering, failed, closed, requestVars, closing, threadVars>>

(* _detach_for_recovery_locked: the newest request stays, without a worker.  *)
Detach ==
    /\ recovering' = TRUE
    /\ backend' = None
    /\ rpc' = "CLOSE_OLD"
    /\ candidate' = backend
    /\ attempt' = 0
    /\ UNCHANGED wanted

CountSuperseded == superseded + Cardinality(present \cap {latest})

(* Submit: registered first; handed over unless a recovery runs.            *)
Submit ==
    /\ closing.step = "NO"
    /\ Open
    /\ produced < MaxRequests
    /\ produced' = produced + 1
    /\ latest' = produced'
    /\ present' = (present \ {latest}) \cup {produced'}
    /\ superseded' = CountSuperseded
    /\ early' = IF recovering THEN early ELSE early \cup {produced'}
    /\ \/ /\ recovering
          /\ UNCHANGED <<inner, recovering, backend, threadVars>>
       \/ /\ ~recovering
          /\ worker[backend] = "UP"
          /\ inner' = [inner EXCEPT ![produced'] = backend]
          /\ UNCHANGED <<recovering, backend, threadVars>>
       \/ /\ ~recovering
          /\ Detach
          /\ UNCHANGED inner
    /\ UNCHANGED <<worker, failed, closed, accepted, closing>>

(* take_completion finds a result.                                          *)
TakeResult ==
    /\ closing.step = "NO"
    /\ Open
    /\ ~recovering
    /\ latest \in present
    /\ inner[latest] # None
    /\ worker[backend] = "UP"
    /\ present' = present \ {latest}
    /\ latest' = None
    /\ accepted' = accepted + 1
    /\ UNCHANGED <<worker, backend, recovering, failed, closed, inner, early, produced,
                   superseded, closing, threadVars>>

(* take_completion or the health probe meets a failed worker.               *)
NoticeFailure ==
    /\ closing.step = "NO"
    /\ Open
    /\ ~recovering
    /\ worker[backend] = "DOWN"
    /\ Detach
    /\ inner' = [r \in Requests |-> IF r \in present THEN None ELSE inner[r]]
    /\ UNCHANGED <<worker, failed, closed, latest, present, early, produced, accepted,
                   superseded, closing>>

(* The caller gives a request up: replaced, cancelled, or overdue.          *)
Abandon ==
    /\ closing.step = "NO"
    /\ latest # None
    /\ present' = present \ {latest}
    /\ superseded' = CountSuperseded
    /\ latest' = None
    /\ UNCHANGED <<worker, backend, recovering, failed, closed, inner, early, produced,
                   accepted, closing, threadVars>>

(* close(): first under the lock.                                           *)
Close ==
    /\ closing.step = "NO"
    /\ closed' = TRUE
    /\ backend' = None
    /\ closing' = [step |-> "BACKEND", backend |-> backend]
    /\ UNCHANGED <<worker, recovering, failed, requestVars, threadVars>>

ClosedWorker(w) == IF w = None THEN worker ELSE [worker EXCEPT ![w] = "CLOSED"]

(* close(): the worker it took is closed, the recovery thread is waited for  *)
(* for a while, the requests are forgotten.                                 *)
FinishClose ==
    /\ closing.step = "BACKEND"
    /\ worker' = ClosedWorker(closing.backend)
    /\ closing' = [step |-> "DONE", backend |-> None]
    /\ latest' = None
    /\ present' = {}
    /\ UNCHANGED <<backend, recovering, failed, closed, inner, early, produced, accepted,
                   superseded, threadVars>>

-----------------------------------------------------------------------------
(* The recovery thread.                                                     *)
CloseOld ==
    /\ rpc = "CLOSE_OLD"
    /\ worker' = ClosedWorker(candidate)
    /\ candidate' = None
    /\ rpc' = "START"
    /\ UNCHANGED <<backend, recovering, failed, closed, requestVars, closing, attempt, wanted>>

ThreadEnds == rpc' = "NONE" /\ candidate' = None

(* Mutant: a failed start is not counted. *)
MutNextAttempt == attempt

NextAttempt == attempt + 1

AttemptsLeft == attempt < MaxAttempts

StartWorker ==
    /\ rpc = "START"
    /\ \/ /\ closed
          /\ ThreadEnds
          /\ UNCHANGED <<worker, attempt>>
       \/ /\ ~closed
          /\ AttemptsLeft
          /\ \E w \in Workers :
               /\ worker[w] = "UNBORN"
               /\ \A v \in 1 .. w - 1 : worker[v] # "UNBORN"
               /\ worker' = [worker EXCEPT ![w] = "UP"]
               /\ candidate' = w
          /\ attempt' = NextAttempt
          /\ rpc' = "LOOK"
       \/ /\ ~closed
          /\ AttemptsLeft
          /\ attempt' = NextAttempt
          /\ UNCHANGED <<worker, rpc, candidate>>
       \/ /\ ~AttemptsLeft
          /\ rpc' = "GIVE_UP"
          /\ UNCHANGED <<worker, attempt, candidate>>
    /\ UNCHANGED <<backend, recovering, failed, closed, requestVars, closing, wanted>>

(* Mutant: the retained request is forgotten. *)
MutPendingNow == None

PendingNow == IF latest \in present THEN latest ELSE None

(* Under the lock: is there a request to hand over?                         *)
Look ==
    /\ rpc = "LOOK"
    /\ \/ /\ closed
          /\ worker' = ClosedWorker(candidate)
          /\ ThreadEnds
          /\ UNCHANGED wanted
       \/ /\ ~closed
          /\ wanted' = PendingNow
          /\ rpc' = IF PendingNow = None THEN "INSTALL" ELSE "HAND"
          /\ UNCHANGED <<worker, candidate>>
    /\ UNCHANGED <<backend, recovering, failed, closed, requestVars, closing, attempt>>

(* Under the lock again: there was none.                                    *)
Install ==
    /\ rpc = "INSTALL"
    /\ backend' = candidate
    /\ recovering' = FALSE
    /\ ThreadEnds
    /\ UNCHANGED <<worker, failed, closed, requestVars, closing, attempt, wanted>>

(* Mutant: a candidate that refuses the request is dropped, not closed. *)
MutRefused(w) == worker

Refused(w) == ClosedWorker(w)

(* candidate.submit, without the lock.                                      *)
Hand ==
    /\ rpc = "HAND"
    /\ \/ /\ worker[candidate] = "UP"
          /\ rpc' = "PUBLISH"
          /\ UNCHANGED <<worker, candidate>>
       \/ /\ worker' = Refused(candidate)
          /\ candidate' = None
          /\ rpc' = "START"
    /\ UNCHANGED <<backend, recovering, failed, closed, requestVars, closing, attempt, wanted>>

StillLatest == ~closed /\ wanted = latest /\ wanted \in present

Publish ==
    /\ rpc = "PUBLISH"
    /\ \/ /\ StillLatest
          /\ inner' = [inner EXCEPT ![wanted] = candidate]
          /\ backend' = candidate
          /\ recovering' = FALSE
          /\ ThreadEnds
       \/ /\ ~StillLatest
          /\ rpc' = "LOOK"
          /\ UNCHANGED <<inner, backend, recovering, candidate>>
    /\ UNCHANGED <<worker, failed, closed, latest, present, early, produced, accepted,
                   superseded, closing, attempt, wanted>>

GiveUp ==
    /\ rpc = "GIVE_UP"
    /\ IF closed THEN UNCHANGED <<backend, recovering, failed>>
       ELSE backend' = None /\ recovering' = FALSE /\ failed' = TRUE
    /\ ThreadEnds
    /\ UNCHANGED <<worker, closed, requestVars, closing, attempt, wanted>>

(* Everything is over: a session that was closed, or one that never calls.   *)
Over ==
    /\ closing.step = "DONE"
    /\ rpc = "NONE"
    /\ UNCHANGED vars

-----------------------------------------------------------------------------
RecoveryStep ==
    \/ CloseOld
    \/ StartWorker
    \/ Look
    \/ Install
    \/ Hand
    \/ Publish
    \/ GiveUp

Next ==
    \/ \E w \in Workers : WorkerFails(w)
    \/ Submit
    \/ TakeResult
    \/ NoticeFailure
    \/ Abandon
    \/ Close
    \/ FinishClose
    \/ RecoveryStep
    \/ Over

Spec == Init /\ [][Next]_vars

(* A started thread runs.                                                   *)
FairSpec == Spec /\ WF_vars(RecoveryStep)

-----------------------------------------------------------------------------
(* While the supervisor is open, a worker that was started and not closed is   *)
(* the published one or in the hands of the recovery thread.                 *)
NoWorkerIsLost ==
    ~closed => \A w \in Workers : worker[w] \in {"UP", "DOWN"} => w \in {backend, candidate}

(* The request a failed worker leaves behind has a worker again as soon as     *)
(* the recovery is over.                                                    *)
RetainedIsHandedOver ==
    Open /\ ~recovering => \A r \in present \cap early : inner[r] = backend

(* A recovery ends: in a new worker, in FAILED after its last attempt, or with *)
(* close().  RESTARTING, which suspends the caller's transport watchdog, does   *)
(* not last for ever.                                                       *)
RecoveryEnds == recovering ~> (~recovering \/ closed)
=============================================================================

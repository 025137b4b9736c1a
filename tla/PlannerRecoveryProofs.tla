----------------------- MODULE PlannerRecoveryProofs -----------------------
(***************************************************************************)
(* Proofs about PlannerRecovery, for any number of attempts, workers and      *)
(* requests.                                                                *)
(***************************************************************************)
EXTENDS PlannerRecovery, FiniteSetTheorems, TLAPS

(* Who may hold a worker: the recovery thread between its start of one and its   *)
(* end, the supervisor while no recovery runs.                               *)
OwnerInv ==
    /\ rpc \in {"NONE", "START", "GIVE_UP"} => candidate = None
    /\ rpc \in {"LOOK", "INSTALL", "HAND", "PUBLISH"} => candidate # None
    /\ recovering => backend = None
    /\ ~closed => (recovering <=> rpc # "NONE")
    /\ Open /\ ~recovering => backend # None

(* The newest request is the only one that is kept; nothing is handed over by an  *)
(* idle recovery, and nothing that is early is registered after Look.          *)
RequestInv ==
    /\ present \subseteq {latest}
    /\ early \subseteq 1 .. produced
    /\ latest <= produced
    /\ rpc = "INSTALL" /\ ~closed => present \cap early = {}
    /\ closing.step = "NO" <=> ~closed

(* Every request ends in exactly one way: accepted, or superseded (also when    *)
(* given up), or it is the one that is still kept.                            *)
RequestsAreAccounted ==
    ~closed => produced = accepted + superseded + Cardinality(present)

RecoveryInv ==
    TypeOK /\ OwnerInv /\ RequestInv /\ NoWorkerIsLost /\ RetainedIsHandedOver
           /\ RequestsAreAccounted

-----------------------------------------------------------------------------
LEMMA SizeOfPresent ==
    ASSUME NEW S, NEW r, S \subseteq {r}
    PROVE  /\ Cardinality(S) \in {0, 1}
           /\ Cardinality(S) = 0 <=> S = {}
           /\ r \in S => Cardinality(S) = 1
           /\ r \notin S => Cardinality(S) = 0
<1>1. S = {} \/ S = {r}
  OBVIOUS
<1>2. Cardinality({}) = 0 /\ Cardinality({r}) = 1
  BY FS_EmptySet, FS_Singleton
<1>3. QED
  BY <1>1, <1>2

LEMMA CountedOnce ==
    ASSUME RequestInv, TypeOK
    PROVE  /\ CountSuperseded = superseded + Cardinality(present)
           /\ Cardinality(present) \in {0, 1}
<1>1. present \cap {latest} = present
  BY DEF RequestInv
<1>2. QED
  BY <1>1, SizeOfPresent DEF RequestInv, CountSuperseded

LEMMA InitInv == Init => RecoveryInv
<1> SUFFICES ASSUME Init PROVE RecoveryInv
  OBVIOUS
<1>0. 1 \in Workers /\ None \notin Workers
  BY RecoveryAssumption DEF Workers, None
<1>1. TypeOK
  <2>1. /\ worker \in [Workers -> {"UNBORN", "UP", "DOWN", "CLOSED"}]
        /\ inner \in [Requests -> Workers \cup {None}]
        /\ closing \in [step : {"NO", "BACKEND", "DONE"}, backend : Workers \cup {None}]
    BY DEF Init
  <2>2. /\ produced \in 0 .. MaxRequests /\ accepted \in 0 .. MaxRequests
        /\ superseded \in 0 .. MaxRequests /\ attempt \in 0 .. MaxAttempts
    BY RecoveryAssumption DEF Init
  <2>3. QED
    BY <1>0, <2>1, <2>2 DEF Init, TypeOK, RecoverySteps
<1>2. OwnerInv /\ RequestInv
  BY <1>0 DEF Init, OwnerInv, RequestInv, None, Open
<1>3. NoWorkerIsLost /\ RetainedIsHandedOver
  BY <1>0 DEF Init, NoWorkerIsLost, RetainedIsHandedOver
<1>4. RequestsAreAccounted
  BY FS_EmptySet DEF Init, RequestsAreAccounted
<1>5. QED
  BY <1>1, <1>2, <1>3, <1>4 DEF RecoveryInv

-----------------------------------------------------------------------------
(* The steps of the control thread.                                          *)
LEMMA SubmitInv ==
    ASSUME RecoveryInv, Submit
    PROVE  RecoveryInv'
<1> DEFINE r == produced + 1
<1>0. TypeOK /\ OwnerInv /\ RequestInv /\ NoWorkerIsLost /\ RetainedIsHandedOver /\ RequestsAreAccounted
  BY DEF RecoveryInv
<1>1. /\ closing.step = "NO" /\ ~closed /\ ~failed
      /\ r \in Requests /\ produced' = r /\ latest' = r /\ present' = {r}
      /\ accepted' = accepted /\ closed' = closed /\ failed' = failed
      /\ closing' = closing /\ worker' = worker
  <2>1. /\ closing.step = "NO" /\ Open /\ produced < MaxRequests
        /\ produced' = r /\ latest' = produced' /\ present' = (present \ {latest}) \cup {produced'}
        /\ UNCHANGED <<worker, failed, closed, accepted, closing>>
    BY DEF Submit
  <2>2. present \ {latest} = {}
    BY <1>0 DEF RequestInv
  <2>3. r \in Requests
    BY <1>0, <2>1, RecoveryAssumption DEF TypeOK, Requests
  <2>4. QED
    BY <2>1, <2>2, <2>3 DEF Open
<1>2. RequestsAreAccounted'
  <2>1. superseded' = superseded + Cardinality(present) /\ Cardinality(present) \in {0, 1}
    BY <1>0, CountedOnce DEF Submit
  <2>2. Cardinality(present') = 1
    BY <1>1, FS_Singleton
  <2>3. QED
    BY <1>0, <1>1, <2>1, <2>2 DEF RequestsAreAccounted, TypeOK
<1>3. superseded' \in 0 .. MaxRequests
  <2>1. superseded' = superseded + Cardinality(present) /\ Cardinality(present) \in {0, 1}
    BY <1>0, CountedOnce DEF Submit
  <2>2. produced = accepted + superseded + Cardinality(present) /\ produced + 1 <= MaxRequests
    BY <1>0, <1>1 DEF RequestsAreAccounted, Requests
  <2>3. accepted \in Nat /\ superseded \in Nat /\ produced \in Nat /\ MaxRequests \in Nat
    BY <1>0, RecoveryAssumption DEF TypeOK
  <2>4. QED
    BY <2>1, <2>2, <2>3
<1>4. early' \subseteq early \cup {r} /\ (recovering => early' = early)
  BY <1>1 DEF Submit
<1>5. \/ UNCHANGED <<recovering, backend, threadVars>>
      \/ ~recovering /\ Detach
  BY DEF Submit
<1>6. inner' \in [Requests -> Workers \cup {None}]
  BY <1>0, <1>1 DEF Submit, TypeOK
<1>7. TypeOK'
  <2>1. /\ recovering' \in BOOLEAN
        /\ backend' \in Workers \cup {None}
        /\ rpc' \in RecoverySteps
        /\ attempt' \in 0 .. MaxAttempts
        /\ candidate' \in Workers \cup {None}
        /\ wanted' = wanted
    <3>1. CASE UNCHANGED <<recovering, backend, threadVars>>
      BY <1>0, <3>1 DEF TypeOK, threadVars
    <3>2. CASE Detach
      BY <1>0, <3>2, RecoveryAssumption DEF TypeOK, Detach, RecoverySteps, None
    <3>3. QED
      BY <1>5, <3>1, <3>2
  <2>2. present' \subseteq Requests /\ early' \subseteq Requests /\ produced' \in 0 .. MaxRequests
    BY <1>0, <1>1, <1>4 DEF TypeOK, Requests
  <2>3. QED
    BY <1>0, <1>1, <1>3, <1>6, <2>1, <2>2 DEF TypeOK
<1>8. OwnerInv'
  BY <1>0, <1>1, <1>5 DEF OwnerInv, Detach, threadVars, Open, None
<1>9. RequestInv'
  BY <1>0, <1>1, <1>4, <1>5 DEF RequestInv, OwnerInv, Detach, threadVars, TypeOK, Requests
<1>10. NoWorkerIsLost'
  BY <1>0, <1>1, <1>5 DEF NoWorkerIsLost, OwnerInv, Detach, threadVars, Workers, None
<1>11. RetainedIsHandedOver'
  <2> SUFFICES ASSUME ~recovering' PROVE \A q \in present' : inner'[q] = backend'
    BY DEF RetainedIsHandedOver
  <2>1. ~recovering /\ inner' = [inner EXCEPT ![r] = backend] /\ backend' = backend
    BY <1>1 DEF Submit, Detach
  <2>2. QED
    BY <1>0, <1>1, <2>1 DEF TypeOK
<1>12. QED
  BY <1>2, <1>7, <1>8, <1>9, <1>10, <1>11 DEF RecoveryInv

LEMMA AbandonInv ==
    ASSUME RecoveryInv, TakeResult \/ Abandon
    PROVE  RecoveryInv'
<1>0. TypeOK /\ OwnerInv /\ RequestInv /\ NoWorkerIsLost /\ RetainedIsHandedOver /\ RequestsAreAccounted
  BY DEF RecoveryInv
<1>1. /\ ~closed /\ present' = {} /\ latest' = None
      /\ UNCHANGED <<worker, backend, recovering, failed, closed, inner, early, produced,
                     closing, threadVars>>
  BY <1>0 DEF TakeResult, Abandon, RequestInv
<1>2. Cardinality(present) \in {0, 1} /\ Cardinality(present') = 0
  BY <1>0, <1>1, CountedOnce, FS_EmptySet
<1>3. accepted' + superseded' = accepted + superseded + Cardinality(present)
      /\ accepted' \in Nat /\ superseded' \in Nat
  <2>1. CASE TakeResult
    <3>1. Cardinality(present) = 1
      BY <1>0, <2>1, SizeOfPresent DEF TakeResult, RequestInv
    <3>2. QED
      BY <1>0, <2>1, <3>1 DEF TakeResult, TypeOK
  <2>2. CASE Abandon
    BY <1>0, <1>2, <2>2, CountedOnce DEF Abandon, TypeOK
  <2>3. QED
    BY <2>1, <2>2
<1>4. RequestsAreAccounted'
  BY <1>0, <1>1, <1>2, <1>3 DEF RequestsAreAccounted, TypeOK
<1>5. TypeOK'
  <2>1. accepted' \in 0 .. MaxRequests /\ superseded' \in 0 .. MaxRequests
    BY <1>0, <1>1, <1>2, <1>3, RecoveryAssumption DEF RequestsAreAccounted, TypeOK
  <2>2. QED
    BY <1>0, <1>1, <2>1 DEF TypeOK, threadVars
<1>6. OwnerInv' /\ NoWorkerIsLost' /\ RetainedIsHandedOver'
  BY <1>0, <1>1 DEF OwnerInv, NoWorkerIsLost, RetainedIsHandedOver, threadVars, Open
<1>7. RequestInv'
  BY <1>0, <1>1 DEF RequestInv, threadVars, TypeOK, None
<1>8. QED
  BY <1>4, <1>5, <1>6, <1>7 DEF RecoveryInv

LEMMA NoticeInv ==
    ASSUME RecoveryInv, NoticeFailure
    PROVE  RecoveryInv'
<1>0. TypeOK /\ OwnerInv /\ RequestInv /\ NoWorkerIsLost /\ RetainedIsHandedOver /\ RequestsAreAccounted
  BY DEF RecoveryInv
<1>1. /\ ~closed /\ ~recovering /\ Detach
      /\ UNCHANGED <<worker, failed, closed, latest, present, early, produced, accepted,
                     superseded, closing>>
  BY DEF NoticeFailure, Open
<1>2. inner' \in [Requests -> Workers \cup {None}]
  BY <1>0 DEF NoticeFailure, TypeOK
<1>3. TypeOK'
  BY <1>0, <1>1, <1>2, RecoveryAssumption DEF TypeOK, Detach, RecoverySteps
<1>4. OwnerInv' /\ RetainedIsHandedOver' /\ RequestsAreAccounted'
  BY <1>0, <1>1 DEF OwnerInv, RetainedIsHandedOver, RequestsAreAccounted, Detach, Open
<1>5. RequestInv'
  BY <1>0, <1>1 DEF RequestInv, Detach
<1>6. NoWorkerIsLost'
  BY <1>0, <1>1 DEF NoWorkerIsLost, OwnerInv, Detach, Workers, None
<1>7. QED
  BY <1>3, <1>4, <1>5, <1>6 DEF RecoveryInv

LEMMA CloseInv ==
    ASSUME RecoveryInv, Close \/ FinishClose
    PROVE  RecoveryInv'
<1>0. TypeOK /\ OwnerInv /\ RequestInv /\ NoWorkerIsLost /\ RetainedIsHandedOver /\ RequestsAreAccounted
  BY DEF RecoveryInv
<1>1. closed' /\ closing'.step # "NO"
  BY <1>0 DEF Close, FinishClose, RequestInv
<1>2. worker' \in [Workers -> {"UNBORN", "UP", "DOWN", "CLOSED"}]
  BY <1>0 DEF Close, FinishClose, ClosedWorker, TypeOK
<1>3. /\ UNCHANGED <<recovering, failed, inner, early, produced, accepted, superseded, rpc,
                     attempt, candidate, wanted>>
      /\ closed' \in BOOLEAN
      /\ backend' \in {backend, None}
      /\ closing' \in [step : {"NO", "BACKEND", "DONE"}, backend : Workers \cup {None}]
      /\ (latest' = latest /\ present' = present) \/ (latest' = None /\ present' = {})
  <2>1. CASE Close
    BY <1>0, <2>1 DEF Close, TypeOK, requestVars, threadVars
  <2>2. CASE FinishClose
    BY <1>0, <2>2 DEF FinishClose, TypeOK, threadVars
  <2>3. QED
    BY <2>1, <2>2
<1>4. TypeOK'
  BY <1>0, <1>2, <1>3 DEF TypeOK
<1>5. OwnerInv'
  BY <1>0, <1>1, <1>3 DEF OwnerInv, Open
<1>6. RequestInv'
  <2>1. 0 <= produced /\ 0 <= produced'
    BY <1>0, <1>3 DEF TypeOK
  <2>2. present' \subseteq {latest'} /\ latest' <= produced' /\ early' \subseteq 1 .. produced'
    BY <1>0, <1>3, <2>1 DEF RequestInv, None
  <2>3. QED
    BY <1>1, <2>2 DEF RequestInv
<1>7. NoWorkerIsLost' /\ RetainedIsHandedOver' /\ RequestsAreAccounted'
  BY <1>1 DEF NoWorkerIsLost, RetainedIsHandedOver, RequestsAreAccounted, Open
<1>8. QED
  BY <1>4, <1>5, <1>6, <1>7 DEF RecoveryInv

-----------------------------------------------------------------------------
(* The steps of the recovery thread and of the workers.                        *)
LEMMA WorkerInv ==
    ASSUME RecoveryInv, NEW w \in Workers, WorkerFails(w)
    PROVE  RecoveryInv'
<1>0. TypeOK /\ OwnerInv /\ RequestInv /\ NoWorkerIsLost /\ RetainedIsHandedOver /\ RequestsAreAccounted
  BY DEF RecoveryInv
<1>1. TypeOK' /\ OwnerInv' /\ RequestInv' /\ RetainedIsHandedOver' /\ RequestsAreAccounted'
  BY <1>0 DEF WorkerFails, TypeOK, OwnerInv, RequestInv, RetainedIsHandedOver,
              RequestsAreAccounted, requestVars, threadVars, Open
<1>2. NoWorkerIsLost'
  BY <1>0 DEF WorkerFails, TypeOK, NoWorkerIsLost, threadVars
<1>3. QED
  BY <1>1, <1>2 DEF RecoveryInv

(* A step of the recovery thread that hands nothing over leaves the requests.   *)
LEMMA ThreadInv ==
    ASSUME RecoveryInv, RecoveryStep
    PROVE  RecoveryInv'
<1>0. TypeOK /\ OwnerInv /\ RequestInv /\ NoWorkerIsLost /\ RetainedIsHandedOver /\ RequestsAreAccounted
  BY DEF RecoveryInv
<1>1. rpc # "NONE" /\ UNCHANGED <<closed, latest, present, early, produced, accepted, superseded, closing>>
  BY DEF RecoveryStep, CloseOld, StartWorker, Look, Install, Hand, Publish, GiveUp, requestVars
<1>2. RequestsAreAccounted'
  BY <1>0, <1>1 DEF RequestsAreAccounted
<1>3. CASE CloseOld
  <2>1. TypeOK'
    BY <1>0, <1>3 DEF CloseOld, ClosedWorker, TypeOK, requestVars, RecoverySteps, None
  <2>2. OwnerInv' /\ RequestInv' /\ RetainedIsHandedOver'
    BY <1>0, <1>1, <1>3 DEF CloseOld, OwnerInv, RequestInv, RetainedIsHandedOver, requestVars, Open
  <2>3. NoWorkerIsLost'
    BY <1>0, <1>3 DEF CloseOld, ClosedWorker, NoWorkerIsLost, TypeOK
  <2>4. QED
    BY <1>2, <2>1, <2>2, <2>3 DEF RecoveryInv
<1>4. CASE StartWorker
  <2>1. TypeOK'
    BY <1>0, <1>4, RecoveryAssumption
    DEF StartWorker, ThreadEnds, NextAttempt, AttemptsLeft, TypeOK, requestVars, RecoverySteps, None
  <2>2. OwnerInv' /\ RequestInv' /\ RetainedIsHandedOver'
    BY <1>0, <1>1, <1>4
    DEF StartWorker, ThreadEnds, OwnerInv, RequestInv, RetainedIsHandedOver, requestVars, Open,
        Workers, None
  <2>3. NoWorkerIsLost'
    <3> SUFFICES ASSUME ~closed, NEW w \in Workers, worker'[w] \in {"UP", "DOWN"}
                 PROVE  w \in {backend', candidate'}
      BY <1>1 DEF NoWorkerIsLost
    <3>1. backend' = backend /\ candidate = None /\ None \notin Workers
      BY <1>0, <1>4 DEF StartWorker, OwnerInv, Workers, None
    <3>2. CASE worker' = worker
      BY <1>0, <3>1, <3>2 DEF NoWorkerIsLost
    <3>3. CASE worker' # worker
      <4>1. PICK v \in Workers : worker' = [worker EXCEPT ![v] = "UP"] /\ candidate' = v
        BY <1>4, <3>3 DEF StartWorker
      <4>2. QED
        BY <1>0, <3>1, <4>1 DEF NoWorkerIsLost, TypeOK
    <3>4. QED
      BY <3>2, <3>3
  <2>4. QED
    BY <1>2, <2>1, <2>2, <2>3 DEF RecoveryInv
<1>5. CASE Look
  <2>1. TypeOK'
    BY <1>0, <1>5 DEF Look, ThreadEnds, ClosedWorker, PendingNow, TypeOK, requestVars, RecoverySteps, None
  <2>2. OwnerInv' /\ RetainedIsHandedOver'
    BY <1>0, <1>1, <1>5
    DEF Look, ThreadEnds, OwnerInv, RetainedIsHandedOver, requestVars, Open
  <2>3. RequestInv'
    <3>1. rpc' = "INSTALL" => present = {}
      BY <1>0, <1>5 DEF Look, ThreadEnds, PendingNow, RequestInv, TypeOK, None, Requests
    <3>2. QED
      BY <1>0, <1>1, <3>1 DEF RequestInv
  <2>4. NoWorkerIsLost'
    BY <1>0, <1>5 DEF Look, ThreadEnds, NoWorkerIsLost
  <2>5. QED
    BY <1>2, <2>1, <2>2, <2>3, <2>4 DEF RecoveryInv
<1>6. CASE Install
  <2>1. TypeOK'
    BY <1>0, <1>6 DEF Install, ThreadEnds, TypeOK, requestVars, RecoverySteps, None
  <2>2. OwnerInv' /\ RequestInv' /\ RetainedIsHandedOver'
    BY <1>0, <1>1, <1>6
    DEF Install, ThreadEnds, OwnerInv, RequestInv, RetainedIsHandedOver, requestVars, Open
  <2>3. NoWorkerIsLost'
    BY <1>0, <1>6 DEF Install, ThreadEnds, NoWorkerIsLost, OwnerInv, Workers, None
  <2>4. QED
    BY <1>2, <2>1, <2>2, <2>3 DEF RecoveryInv
<1>7. CASE Hand
  <2>1. TypeOK'
    BY <1>0, <1>7 DEF Hand, Refused, ClosedWorker, TypeOK, requestVars, RecoverySteps, None
  <2>2. OwnerInv' /\ RequestInv' /\ RetainedIsHandedOver'
    BY <1>0, <1>1, <1>7
    DEF Hand, OwnerInv, RequestInv, RetainedIsHandedOver, requestVars, Open
  <2>3. NoWorkerIsLost'
    BY <1>0, <1>7 DEF Hand, Refused, ClosedWorker, NoWorkerIsLost, TypeOK
  <2>4. QED
    BY <1>2, <2>1, <2>2, <2>3 DEF RecoveryInv
<1>8. CASE Publish
  <2>1. TypeOK'
    BY <1>0, <1>8 DEF Publish, StillLatest, ThreadEnds, TypeOK, RecoverySteps, None
  <2>2. OwnerInv' /\ RequestInv'
    BY <1>0, <1>1, <1>8 DEF Publish, StillLatest, ThreadEnds, OwnerInv, RequestInv, Open
  <2>3. RetainedIsHandedOver'
    <3> SUFFICES ASSUME Open, ~recovering' PROVE \A r \in present' : inner'[r] = backend'
      BY <1>1, <1>8 DEF Publish, RetainedIsHandedOver, Open
    <3>1. recovering
      BY <1>0, <1>1 DEF OwnerInv, Open
    <3>2. /\ wanted = latest /\ inner' = [inner EXCEPT ![wanted] = candidate]
          /\ backend' = candidate
      BY <1>8, <3>1 DEF Publish, StillLatest
    <3>3. QED
      BY <1>0, <1>1, <3>2 DEF RequestInv, TypeOK
  <2>4. NoWorkerIsLost'
    BY <1>0, <1>8 DEF Publish, StillLatest, ThreadEnds, NoWorkerIsLost, OwnerInv, Workers, None
  <2>5. QED
    BY <1>2, <2>1, <2>2, <2>3, <2>4 DEF RecoveryInv
<1>9. CASE GiveUp
  <2>1. TypeOK'
    BY <1>0, <1>9 DEF GiveUp, ThreadEnds, TypeOK, requestVars, RecoverySteps, None
  <2>2. OwnerInv' /\ RequestInv' /\ RetainedIsHandedOver'
    BY <1>0, <1>1, <1>9
    DEF GiveUp, ThreadEnds, OwnerInv, RequestInv, RetainedIsHandedOver, requestVars, Open
  <2>3. NoWorkerIsLost'
    BY <1>0, <1>9 DEF GiveUp, ThreadEnds, NoWorkerIsLost, OwnerInv, Workers, None
  <2>4. QED
    BY <1>2, <2>1, <2>2, <2>3 DEF RecoveryInv
<1>10. QED
  BY <1>3, <1>4, <1>5, <1>6, <1>7, <1>8, <1>9 DEF RecoveryStep

LEMMA StepInv ==
    ASSUME RecoveryInv, [Next]_vars
    PROVE  RecoveryInv'
<1>1. CASE UNCHANGED vars
  BY <1>1 DEF RecoveryInv, TypeOK, OwnerInv, RequestInv, NoWorkerIsLost, RetainedIsHandedOver,
              RequestsAreAccounted, Open, vars, requestVars, threadVars
<1>2. CASE Next
  BY <1>1, <1>2, SubmitInv, AbandonInv, NoticeInv, CloseInv, WorkerInv, ThreadInv DEF Next, Over
<1>3. QED
  BY <1>1, <1>2

(* RecoveryInv holds in every reachable state.                               *)
THEOREM Inductive == Spec => []RecoveryInv
<1>1. Init => RecoveryInv
  BY InitInv
<1>2. RecoveryInv /\ [Next]_vars => RecoveryInv'
  BY StepInv
<1>3. QED
  BY <1>1, <1>2, PTL DEF Spec

(* Every variable of the supervisor keeps its type.                           *)
THEOREM TypeCorrect == Spec => []TypeOK
<1>1. RecoveryInv => TypeOK
  BY DEF RecoveryInv
<1>2. QED
  BY <1>1, Inductive, PTL

(* Whatever dies and whenever, a worker process of an open supervisor is the      *)
(* published one or in the hands of the recovery thread (_recover_worker).     *)
THEOREM WorkersKept == Spec => []NoWorkerIsLost
<1>1. RecoveryInv => NoWorkerIsLost
  BY DEF RecoveryInv
<1>2. QED
  BY <1>1, Inductive, PTL

(* The request a dead worker left has a worker again when the recovery is over    *)
(* (_detach_for_recovery_locked, _recover_worker).                            *)
THEOREM RetainedHandedOver == Spec => []RetainedIsHandedOver
<1>1. RecoveryInv => RetainedIsHandedOver
  BY DEF RecoveryInv
<1>2. QED
  BY <1>1, Inductive, PTL

(* No request is counted twice or forgotten by the diagnostics, whatever the       *)
(* recovery was doing when it was submitted (submit, take_completion, abandon).  *)
THEOREM Accounted == Spec => []RequestsAreAccounted
<1>1. RecoveryInv => RequestsAreAccounted
  BY DEF RecoveryInv
<1>2. QED
  BY <1>1, Inductive, PTL
=============================================================================

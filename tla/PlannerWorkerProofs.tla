------------------------ MODULE PlannerWorkerProofs ------------------------
(***************************************************************************)
(* Proofs about PlannerWorker, for any number of requests, any capacity and     *)
(* timeout, and a process that hangs, fails or dies at any time.             *)
(***************************************************************************)
EXTENDS PlannerWorker, SequenceTheorems, FiniteSetTheorems, TLAPS

(* The process side holds the running request at most, and at one place.        *)
TokenInv ==
    /\ running = None => requestQueue = <<>> /\ computing = None /\ resultQueue = <<>>
    /\ requestQueue # <<>> =>
          Head(requestQueue) = running /\ computing = None /\ resultQueue = <<>>
    /\ computing # None => computing = running /\ requestQueue = <<>> /\ resultQueue = <<>>
    /\ resultQueue # <<>> => Head(resultQueue).id = running /\ Tail(resultQueue) = <<>>

(* The newest request is at one place of the parent at most; what runs and is not  *)
(* the newest is abandoned.                                                 *)
SlotInv ==
    /\ buffer \subseteq {last} /\ (running # None => buffer = {})
    /\ abandoned \subseteq {running} \ {None}
    /\ pending # None => running # None /\ running \in abandoned /\ pending = last
    /\ running # None /\ running \notin abandoned => running = last
    /\ running <= last

ClockInv ==
    /\ polled <= now /\ held <= now
    /\ \A r \in Requests : submitted[r] <= now
    /\ running # None => submitted[running] <= held

WorkerInv == TypeOK /\ TokenInv /\ SlotInv /\ ClockInv /\ SlotsSuffice /\ HungIsNoticed

-----------------------------------------------------------------------------
LEMMA OneElement ==
    ASSUME NEW S, NEW s \in Seq(S), Len(s) <= 1, s # <<>>
    PROVE  Head(s) \in S /\ Tail(s) = <<>>
<1>1. Len(s) = 1
  <2>1. Len(s) \in Nat
    OBVIOUS
  <2>2. Len(s) # 0
    BY EmptySeq
  <2>3. QED
    BY <2>1, <2>2
<1>2. Len(Tail(s)) = 0 /\ Tail(s) \in Seq(S)
  BY <1>1, HeadTailProperties
<1>3. QED
  BY <1>2, HeadTailProperties, EmptySeq

LEMMA FirstElement ==
    ASSUME NEW S, NEW x \in S
    PROVE  /\ Append(<<>>, x) \in Seq(S) /\ Len(Append(<<>>, x)) = 1
           /\ Append(<<>>, x) # <<>> /\ Head(Append(<<>>, x)) = x /\ Tail(Append(<<>>, x)) = <<>>
<1>1. <<>> \in Seq(S) /\ Len(<<>>) = 0
  BY EmptySeq
<1>2. Append(<<>>, x) \in Seq(S) /\ Len(Append(<<>>, x)) = 1 /\ Append(<<>>, x)[1] = x
  BY <1>1, AppendProperties
<1>3. Append(<<>>, x) # <<>>
  BY <1>1, <1>2
<1>4. QED
  BY <1>2, <1>3, OneElement, HeadTailProperties

LEMMA NoElement ==
    ASSUME NEW S, NEW s \in Seq(S), Len(s) < 1
    PROVE  s = <<>>
BY EmptySeq, LenProperties

LEMMA InitInv == Init => WorkerInv
<1> SUFFICES ASSUME Init PROVE WorkerInv
  OBVIOUS
<1>1. MaxTime \in Nat /\ Capacity \in Nat /\ Timeout \in Nat
  BY WorkerAssumption
<1>2. <<>> \in Seq(Requests) /\ <<>> \in Seq([id : Requests, ok : BOOLEAN]) /\ Len(<<>>) = 0
  BY EmptySeq
<1>3. TypeOK
  BY <1>1, <1>2 DEF Init, TypeOK, Errors
<1>4. TokenInv /\ SlotInv /\ ClockInv /\ SlotsSuffice /\ HungIsNoticed
  BY <1>1 DEF Init, TokenInv, SlotInv, ClockInv, SlotsSuffice, HungIsNoticed, None
<1>5. QED
  BY <1>3, <1>4 DEF WorkerInv

-----------------------------------------------------------------------------
(* A request goes to a process that holds none: there is room.                  *)
LEMMA DispatchStep ==
    ASSUME TypeOK, requestQueue = <<>>, NEW r \in Requests, Dispatch(r)
    PROVE  /\ requestQueue' \in Seq(Requests) /\ Len(requestQueue') <= 1
           /\ requestQueue' # <<>> /\ Head(requestQueue') = r
           /\ running' = r /\ held' = now /\ error' = error
<1>1. Len(requestQueue) < 1
  BY EmptySeq
<1>2. requestQueue' = Append(<<>>, r) /\ running' = r /\ held' = now /\ error' = error
  BY <1>1 DEF Dispatch
<1>3. QED
  BY <1>2, FirstElement

LEMMA SubmitStep ==
    ASSUME WorkerInv, Submit
    PROVE  WorkerInv'
<1>0. /\ TypeOK /\ TokenInv /\ SlotInv /\ ClockInv /\ SlotsSuffice /\ HungIsNoticed
      /\ MaxRequests \in Nat /\ MaxTime \in Nat /\ Timeout \in Nat
  BY WorkerAssumption DEF WorkerInv
<1>1. /\ UNCHANGED <<resultQueue, computing, process, collecting, closing, now, polled>>
      /\ last' = last + 1 /\ buffer' = {}
      /\ submitted' = [submitted EXCEPT ![last'] = now]
  BY DEF Submit, processVars, Kept
<1>2. last \in Nat /\ last' \in Requests /\ last' # last /\ running # last' /\ running \in Nat
  BY <1>0, <1>1 DEF Submit, TypeOK, Requests, None, SlotInv
<1>3. /\ submitted' \in [Requests -> 0..MaxTime] /\ submitted'[last'] = now
      /\ \A r \in Requests : r # last' => submitted'[r] = submitted[r]
      /\ \A r \in Requests : submitted'[r] <= now
  BY <1>0, <1>1, <1>2 DEF TypeOK, ClockInv
<1>4. CASE running # None
  <2>1. /\ abandoned' = abandoned \cup {running} /\ pending' = last'
        /\ UNCHANGED <<running, requestQueue, held, error>>
    BY <1>4 DEF Submit, Busy
  <2>2. TypeOK'
    BY <1>0, <1>1, <1>2, <1>3, <1>4, <2>1 DEF TypeOK
  <2>3. TokenInv'
    BY <1>0, <1>1, <2>1 DEF TokenInv
  <2>4. SlotInv'
    BY <1>0, <1>1, <1>2, <1>4, <2>1 DEF SlotInv
  <2>5. ClockInv'
    BY <1>0, <1>1, <1>2, <1>3, <1>4, <2>1 DEF ClockInv, TypeOK
  <2>6. SlotsSuffice' /\ HungIsNoticed'
    BY <1>0, <1>1, <2>1 DEF SlotsSuffice, HungIsNoticed
  <2>7. QED
    BY <2>2, <2>3, <2>4, <2>5, <2>6 DEF WorkerInv
<1>5. CASE running = None
  <2>1. /\ requestQueue = <<>> /\ computing = None /\ resultQueue = <<>>
        /\ abandoned = {} /\ pending = None
    BY <1>0, <1>5 DEF TokenInv, SlotInv
  <2>2. Dispatch(last') /\ UNCHANGED <<abandoned, pending>>
    BY <1>5 DEF Submit, Busy
  <2>3. /\ requestQueue' \in Seq(Requests) /\ Len(requestQueue') <= 1
        /\ requestQueue' # <<>> /\ Head(requestQueue') = last'
        /\ running' = last' /\ held' = now /\ error' = error
    BY <1>0, <1>2, <2>1, <2>2, DispatchStep
  <2>4. TypeOK'
    BY <1>0, <1>1, <1>2, <1>3, <2>2, <2>3 DEF TypeOK
  <2>5. TokenInv'
    BY <1>1, <1>2, <2>1, <2>3 DEF TokenInv, Requests, None
  <2>6. SlotInv'
    BY <1>1, <1>2, <2>1, <2>2, <2>3 DEF SlotInv, None
  <2>7. ClockInv'
    BY <1>0, <1>1, <1>3, <2>3 DEF ClockInv, TypeOK
  <2>8. SlotsSuffice' /\ HungIsNoticed'
    BY <1>0, <1>1, <2>3 DEF SlotsSuffice, HungIsNoticed, ClockInv, TypeOK
  <2>9. QED
    BY <2>4, <2>5, <2>6, <2>7, <2>8 DEF WorkerInv
<1>6. QED
  BY <1>4, <1>5

-----------------------------------------------------------------------------
(* The other calls.                                                          *)
LEMMA CallStep ==
    ASSUME WorkerInv, Poll \/ Abandon \/ Close \/ FinishClose
    PROVE  WorkerInv'
<1>0. /\ TypeOK /\ TokenInv /\ SlotInv /\ ClockInv /\ SlotsSuffice /\ HungIsNoticed
      /\ MaxRequests \in Nat /\ MaxTime \in Nat /\ Timeout \in Nat
  BY WorkerAssumption DEF WorkerInv
<1>1. CASE TakeAnswer
  <2>1. /\ UNCHANGED <<last, running, pending, abandoned, requestQueue, resultQueue, computing, process,
                       error, collecting, closing, now, submitted, held, polled>>
        /\ buffer' \subseteq buffer
    BY <1>1 DEF TakeAnswer, processVars, clockVars
  <2>2. TypeOK' /\ TokenInv' /\ ClockInv'
    BY <1>0, <2>1 DEF TypeOK, TokenInv, ClockInv
  <2>3. SlotInv'
    BY <1>0, <2>1 DEF SlotInv
  <2>4. SlotsSuffice' /\ HungIsNoticed'
    BY <1>0, <2>1 DEF SlotsSuffice, HungIsNoticed
  <2>5. QED
    BY <2>2, <2>3, <2>4 DEF WorkerInv
<1>2. CASE PollNothing
  <2>1. /\ UNCHANGED <<last, running, pending, buffer, abandoned, requestQueue, resultQueue, computing,
                       process, collecting, closing, now, submitted, held>>
        /\ \/ error' = "TRANSPORT_TIMEOUT" /\ polled' = polled
           \/ error' = error /\ polled' = now /\ ~Overdue
    BY <1>2 DEF PollNothing, parentVars, processVars
  <2>2. TypeOK' /\ TokenInv'
    BY <1>0, <2>1 DEF TypeOK, TokenInv, Errors
  <2>3. SlotInv' /\ ClockInv'
    BY <1>0, <2>1 DEF SlotInv, ClockInv, TypeOK
  <2>4. SlotsSuffice'
    BY <1>0, <2>1 DEF SlotsSuffice
  <2>5. HungIsNoticed'
    <3>1. ASSUME ~Overdue, running # None
          PROVE  now <= held + Timeout
      <4>1. now - submitted[running] <= Timeout /\ submitted[running] <= held
        BY <1>0, <3>1 DEF Overdue, Watched, ClockInv, TypeOK
      <4>2. submitted[running] \in Nat /\ now \in Nat /\ held \in Nat
        BY <1>0, <3>1 DEF TypeOK
      <4>3. QED
        BY <1>0, <4>1, <4>2
    <3>2. QED
      BY <1>0, <2>1, <3>1 DEF HungIsNoticed
  <2>6. QED
    BY <2>2, <2>3, <2>4, <2>5 DEF WorkerInv
<1>3. CASE Abandon
  <2>1. /\ UNCHANGED <<last, running, requestQueue, resultQueue, computing, process,
                       error, collecting, closing, now, submitted, held, polled>>
        /\ last # None
        /\ buffer' \subseteq buffer
        /\ pending' = IF pending = last THEN None ELSE pending
        /\ abandoned' = IF running = last THEN abandoned \cup {last} ELSE abandoned
    BY <1>3 DEF Abandon, processVars, clockVars
  <2>2. TypeOK' /\ TokenInv' /\ ClockInv'
    BY <1>0, <2>1 DEF TypeOK, TokenInv, ClockInv
  <2>3. SlotInv'
    BY <1>0, <2>1 DEF SlotInv
  <2>4. SlotsSuffice' /\ HungIsNoticed'
    BY <1>0, <2>1 DEF SlotsSuffice, HungIsNoticed
  <2>5. QED
    BY <2>2, <2>3, <2>4 DEF WorkerInv
<1>4. CASE Close
  <2>1. /\ UNCHANGED <<last, running, pending, buffer, abandoned, requestQueue, resultQueue, computing,
                       process, error, collecting, now, submitted, held, polled>>
        /\ closing' = "BEGUN"
    BY <1>4 DEF Close, parentVars, processVars, clockVars
  <2>2. TypeOK' /\ TokenInv' /\ SlotInv' /\ ClockInv'
    BY <1>0, <2>1 DEF TypeOK, TokenInv, SlotInv, ClockInv
  <2>3. SlotsSuffice' /\ HungIsNoticed'
    BY <1>0, <2>1 DEF SlotsSuffice, HungIsNoticed
  <2>4. QED
    BY <2>2, <2>3 DEF WorkerInv
<1>5. CASE FinishClose
  <2>1. /\ closing' = "DONE" /\ process' = FALSE /\ computing' = None /\ collecting' = FALSE
        /\ buffer' = {} /\ abandoned' = {} /\ running' = None /\ pending' = None
        /\ requestQueue' = <<>> /\ resultQueue' = <<>>
        /\ UNCHANGED <<last, error, now, submitted, held, polled>>
    BY <1>5 DEF FinishClose, clockVars
  <2>2. /\ requestQueue' \in Seq(Requests) /\ Len(requestQueue') <= 1
        /\ resultQueue' \in Seq([id : Requests, ok : BOOLEAN]) /\ Len(resultQueue') <= Capacity
    <3>1. <<>> \in Seq(Requests) /\ <<>> \in Seq([id : Requests, ok : BOOLEAN]) /\ Len(<<>>) = 0
      BY EmptySeq
    <3>2. Capacity \in Nat
      BY WorkerAssumption
    <3>3. QED
      BY <2>1, <3>1, <3>2
  <2>3. TypeOK'
    BY <1>0, <2>1, <2>2 DEF TypeOK
  <2>4. TokenInv' /\ SlotInv' /\ ClockInv'
    BY <1>0, <2>1 DEF TypeOK, TokenInv, SlotInv, ClockInv, None, Requests
  <2>5. SlotsSuffice' /\ HungIsNoticed'
    BY <1>0, <2>1 DEF SlotsSuffice, HungIsNoticed
  <2>6. QED
    BY <2>3, <2>4, <2>5 DEF WorkerInv
<1>6. QED
  BY <1>1, <1>2, <1>3, <1>4, <1>5 DEF Poll

(* The process.                                                             *)
LEMMA ProcessStep ==
    ASSUME WorkerInv, WorkerTakes \/ WorkerAnswers \/ WorkerDies
    PROVE  WorkerInv'
<1>0. TypeOK /\ TokenInv /\ SlotInv /\ ClockInv /\ SlotsSuffice /\ HungIsNoticed
  BY DEF WorkerInv
<1>1. UNCHANGED <<last, running, pending, buffer, abandoned, error, collecting, closing,
                  now, submitted, held, polled>>
  BY DEF WorkerTakes, WorkerAnswers, WorkerDies, parentVars, clockVars
<1>2. SlotInv' /\ ClockInv' /\ SlotsSuffice' /\ HungIsNoticed'
  BY <1>0, <1>1 DEF SlotInv, ClockInv, SlotsSuffice, HungIsNoticed
<1>3. CASE WorkerTakes
  <2>1. /\ requestQueue # <<>> /\ computing' = Head(requestQueue) /\ requestQueue' = Tail(requestQueue)
        /\ UNCHANGED <<resultQueue, process>>
    BY <1>3 DEF WorkerTakes
  <2>2. Head(requestQueue) \in Requests /\ requestQueue' = <<>>
    BY <1>0, <2>1, OneElement DEF TypeOK
  <2>3. <<>> \in Seq(Requests) /\ Len(<<>>) = 0
    BY EmptySeq
  <2>4. TypeOK'
    BY <1>0, <1>1, <2>1, <2>2, <2>3 DEF TypeOK
  <2>5. TokenInv'
    BY <1>0, <1>1, <2>1, <2>2 DEF TokenInv
  <2>6. QED
    BY <1>2, <2>4, <2>5 DEF WorkerInv
<1>4. CASE WorkerAnswers
  <2> DEFINE Message == [id : Requests, ok : BOOLEAN]
  <2>1. /\ computing # None /\ computing' = None /\ UNCHANGED <<requestQueue, process>>
        /\ computing \in Requests /\ resultQueue = <<>>
    BY <1>0, <1>4 DEF WorkerAnswers, TypeOK, TokenInv
  <2>2. PICK ok \in BOOLEAN : resultQueue' = Append(resultQueue, [id |-> computing, ok |-> ok])
    BY <1>4 DEF WorkerAnswers
  <2> DEFINE m == [id |-> computing, ok |-> ok]
  <2>3. m \in Message /\ m.id = computing
    BY <2>1, <2>2
  <2>4. resultQueue' = Append(<<>>, m)
    BY <2>1, <2>2
  <2> HIDE DEF m, Message
  <2>5. /\ resultQueue' \in Seq(Message) /\ Len(resultQueue') = 1 /\ resultQueue' # <<>>
        /\ Head(resultQueue') = m /\ Tail(resultQueue') = <<>>
    BY <2>3, <2>4, FirstElement
  <2>6. Capacity \in Nat /\ Capacity >= 1
    BY WorkerAssumption
  <2>7. TypeOK'
    BY <1>0, <1>1, <2>1, <2>5, <2>6 DEF TypeOK, Message
  <2>8. TokenInv'
    BY <1>0, <1>1, <2>1, <2>3, <2>5 DEF TokenInv
  <2>9. QED
    BY <1>2, <2>7, <2>8 DEF WorkerInv
<1>5. CASE WorkerDies
  <2>1. process' = FALSE /\ computing' = None /\ UNCHANGED <<requestQueue, resultQueue>>
    BY <1>5 DEF WorkerDies
  <2>2. TypeOK' /\ TokenInv'
    BY <1>0, <1>1, <2>1 DEF TypeOK, TokenInv
  <2>3. QED
    BY <1>2, <2>2 DEF WorkerInv
<1>6. QED
  BY <1>3, <1>4, <1>5

-----------------------------------------------------------------------------
(* The collector.                                                            *)
LEMMA CollectStep ==
    ASSUME WorkerInv, Collect
    PROVE  WorkerInv'
<1>0. /\ TypeOK /\ TokenInv /\ SlotInv /\ ClockInv /\ SlotsSuffice /\ HungIsNoticed
      /\ Capacity \in Nat /\ Capacity >= 1 /\ Timeout \in Nat
  BY WorkerAssumption DEF WorkerInv
<1>1. /\ resultQueue # <<>> /\ resultQueue' = <<>> /\ Head(resultQueue).id = running
      /\ requestQueue = <<>> /\ computing = None /\ running # None
      /\ UNCHANGED <<last, computing, process, closing, now, submitted, polled>>
  BY <1>0 DEF Collect, TokenInv
<1>2. resultQueue' \in Seq([id : Requests, ok : BOOLEAN]) /\ Len(resultQueue') <= Capacity
  BY <1>0, <1>1, EmptySeq
<1>3. buffer = {} /\ Cardinality(buffer) = 0
  BY <1>0, <1>1, FS_EmptySet DEF SlotInv
<1>4. CASE Fault("WORKER_FAILED") /\ UNCHANGED <<running, buffer, abandoned>>
  <2>1. /\ error' = "WORKER_FAILED" /\ collecting' = FALSE
        /\ UNCHANGED <<running, buffer, abandoned, pending, requestQueue, held>>
    BY <1>4 DEF Fault
  <2>2. TypeOK'
    BY <1>0, <1>1, <1>2, <2>1 DEF TypeOK, Errors
  <2>3. TokenInv' /\ SlotInv'
    BY <1>0, <1>1, <2>1 DEF TokenInv, SlotInv
  <2>4. ClockInv' /\ SlotsSuffice' /\ HungIsNoticed'
    BY <1>0, <1>1, <2>1 DEF ClockInv, SlotsSuffice, HungIsNoticed
  <2>5. QED
    BY <2>2, <2>3, <2>4 DEF WorkerInv
<1>5. CASE Accept(running)
  <2>1. /\ abandoned' = {} /\ pending' = None
        /\ buffer' = IF running \in abandoned THEN {} ELSE {running}
        /\ collecting' \in BOOLEAN
    BY <1>0, <1>3, <1>5 DEF Accept, Discarded, SlotInv
  <2>2. buffer' \subseteq Requests /\ buffer' \subseteq {last}
    BY <1>0, <1>1, <2>1 DEF SlotInv, TypeOK
  <2>3. CASE pending # None
    <3>1. pending \in Requests /\ pending = last /\ running \in abandoned /\ Dispatch(pending)
      BY <1>0, <1>5, <2>3 DEF Accept, NextWork, SlotInv, TypeOK
    <3>2. /\ requestQueue' \in Seq(Requests) /\ Len(requestQueue') <= 1
          /\ requestQueue' # <<>> /\ Head(requestQueue') = pending
          /\ running' = pending /\ held' = now /\ error' = error
      BY <1>0, <1>1, <3>1, DispatchStep
    <3>3. TypeOK'
      BY <1>0, <1>1, <1>2, <2>1, <2>2, <3>1, <3>2 DEF TypeOK
    <3>4. TokenInv'
      BY <1>1, <2>3, <3>2 DEF TokenInv
    <3>5. SlotInv'
      BY <1>0, <1>1, <2>1, <2>3, <3>1, <3>2 DEF SlotInv, TypeOK, Requests, None
    <3>6. ClockInv'
      BY <1>0, <1>1, <3>1, <3>2 DEF ClockInv, TypeOK
    <3>7. SlotsSuffice' /\ HungIsNoticed'
      BY <1>0, <1>1, <3>2 DEF SlotsSuffice, HungIsNoticed, ClockInv, TypeOK
    <3>8. QED
      BY <3>3, <3>4, <3>5, <3>6, <3>7 DEF WorkerInv
  <2>4. CASE pending = None
    <3>1. running' = None /\ UNCHANGED <<requestQueue, held, error>>
      BY <1>5, <2>4 DEF Accept, NextWork
    <3>2. TypeOK'
      BY <1>0, <1>1, <1>2, <2>1, <2>2, <3>1 DEF TypeOK
    <3>3. TokenInv'
      BY <1>0, <1>1, <3>1 DEF TokenInv
    <3>4. SlotInv'
      BY <1>0, <1>1, <2>1, <2>2, <3>1 DEF SlotInv, TypeOK, Requests, None
    <3>5. ClockInv' /\ SlotsSuffice' /\ HungIsNoticed'
      BY <1>0, <1>1, <3>1 DEF ClockInv, SlotsSuffice, HungIsNoticed
    <3>6. QED
      BY <3>2, <3>3, <3>4, <3>5 DEF WorkerInv
  <2>5. QED
    BY <2>3, <2>4
<1>6. ~BufferFull(running)
  BY <1>0, <1>3 DEF BufferFull
<1>7. QED
  BY <1>1, <1>4, <1>5, <1>6 DEF Collect

LEMMA ExitStep ==
    ASSUME WorkerInv, CollectorNoticesExit \/ Tick
    PROVE  WorkerInv'
<1>0. TypeOK /\ TokenInv /\ SlotInv /\ ClockInv /\ SlotsSuffice /\ HungIsNoticed /\ MaxTime \in Nat
  BY WorkerAssumption DEF WorkerInv
<1>1. CASE CollectorNoticesExit
  <2>1. /\ UNCHANGED <<last, running, pending, buffer, abandoned, requestQueue, resultQueue, computing,
                       process, closing, now, submitted, held, polled>>
        /\ collecting' = FALSE /\ error' \in {error, "WORKER_EXITED"}
        /\ error' # error => closing = "NO" /\ error = "NONE"
    BY <1>1 DEF CollectorNoticesExit, parentVars, processVars, clockVars
  <2>2. TypeOK' /\ TokenInv'
    BY <1>0, <2>1 DEF TypeOK, TokenInv, Errors
  <2>3. SlotInv' /\ ClockInv'
    BY <1>0, <2>1 DEF SlotInv, ClockInv
  <2>4. SlotsSuffice' /\ HungIsNoticed'
    BY <1>0, <2>1 DEF SlotsSuffice, HungIsNoticed
  <2>5. QED
    BY <2>2, <2>3, <2>4 DEF WorkerInv
<1>2. CASE Tick
  <2>1. /\ UNCHANGED <<last, running, pending, buffer, abandoned, requestQueue, resultQueue, computing,
                       process, error, collecting, closing, submitted, held, polled>>
        /\ now < MaxTime /\ now' = now + 1
    BY <1>2 DEF Tick, parentVars, processVars
  <2>2. TypeOK' /\ TokenInv'
    BY <1>0, <2>1 DEF TypeOK, TokenInv
  <2>3. SlotInv' /\ ClockInv'
    BY <1>0, <2>1 DEF SlotInv, ClockInv, TypeOK
  <2>4. SlotsSuffice' /\ HungIsNoticed'
    BY <1>0, <2>1 DEF SlotsSuffice, HungIsNoticed
  <2>5. QED
    BY <2>2, <2>3, <2>4 DEF WorkerInv
<1>3. QED
  BY <1>1, <1>2

LEMMA StepInv == WorkerInv /\ [Next]_vars => WorkerInv'
<1> SUFFICES ASSUME WorkerInv, [Next]_vars PROVE WorkerInv'
  OBVIOUS
<1>1. CASE UNCHANGED vars
  BY <1>1 DEF vars, parentVars, processVars, clockVars, WorkerInv, TypeOK, TokenInv, SlotInv, ClockInv,
     SlotsSuffice, HungIsNoticed
<1>2. CASE Next
  BY <1>2, SubmitStep, CallStep, ProcessStep, CollectStep, ExitStep DEF Next
<1>3. QED
  BY <1>1, <1>2

(* WorkerInv holds in every reachable state.                                   *)
THEOREM Inductive == Spec => []WorkerInv
<1>1. Init => WorkerInv
  BY InitInv
<1>2. QED
  BY <1>1, StepInv, PTL DEF Spec

(* Every variable of the port, the queues and the process keeps its type; no queue *)
(* grows beyond its capacity.                                                *)
THEOREM TypeCorrect == Spec => []TypeOK
<1>1. WorkerInv => TypeOK
  BY DEF WorkerInv
<1>2. QED
  BY <1>1, Inductive, PTL

(* Neither the request queue nor the buffer of answers overflows                *)
(* (_dispatch_locked, _collect).                                             *)
THEOREM SlotsAlwaysSuffice == Spec => []SlotsSuffice
<1>1. WorkerInv => SlotsSuffice
  BY DEF WorkerInv
<1>2. QED
  BY <1>1, Inductive, PTL

(* A poll that finds nothing wrong means that what the process holds is not       *)
(* overdue, however often it was superseded (take_completion).                 *)
THEOREM HungNoticed == Spec => []HungIsNoticed
<1>1. WorkerInv => HungIsNoticed
  BY DEF WorkerInv
<1>2. QED
  BY <1>1, Inductive, PTL

-----------------------------------------------------------------------------
(* The port as one slot for the newest request.                                *)
Asked == last # None /\ (pending = last \/ (running = last /\ last \notin abandoned))

LEMMA SlotValue ==
    /\ ~UsablePort => Slot = "NONE"
    /\ UsablePort /\ last \in buffer => Slot = "ANSWERED"
    /\ UsablePort /\ last \notin buffer /\ Asked => Slot = "ASKED"
    /\ UsablePort /\ last \notin buffer /\ ~Asked => Slot = "NONE"
BY DEF Slot, Asked

(* Two slots, a buffer, a set of abandoned ids and two queues implement one slot    *)
(* for the newest request (submit, take_completion, abandon, _collect).          *)
THEOREM Refinement == Spec => ImplementsPort
<1>1. Init => Port!Init
  <2> SUFFICES ASSUME Init PROVE Port!Init
    OBVIOUS
  <2>1. UsablePort /\ last \notin buffer /\ ~Asked /\ last = 0
    BY DEF Init, UsablePort, Asked, None
  <2>2. QED
    BY <2>1, SlotValue DEF Port!Init
<1>2. WorkerInv /\ [Next]_vars => [Port!Next]_Port!vars
  <2> SUFFICES ASSUME WorkerInv, [Next]_vars
               PROVE  [Port!Next]_Port!vars
    OBVIOUS
  <2>0. TypeOK /\ TokenInv /\ SlotInv
    BY DEF WorkerInv
  <2>1. /\ ~UsablePort' => Slot' = "NONE"
        /\ UsablePort' /\ last' \in buffer' => Slot' = "ANSWERED"
        /\ UsablePort' /\ last' \notin buffer' /\ Asked' => Slot' = "ASKED"
        /\ UsablePort' /\ last' \notin buffer' /\ ~Asked' => Slot' = "NONE"
    BY DEF Slot, Asked
  <2>2. ASSUME ~UsablePort', last' = last
        PROVE  Port!Next
    BY <2>1, <2>2 DEF Port!Next, Port!Fail
  <2>3. ASSUME UNCHANGED <<last, running, pending, buffer, abandoned, error, closing>>
        PROVE  UNCHANGED Port!vars
    BY <2>3 DEF Port!vars, Slot, UsablePort
  <2>4. CASE UsablePort' /\ ~(UNCHANGED <<last, running, pending, buffer, abandoned, error, closing>>)
    <3>1. CASE Submit
      <4>1. UsablePort /\ last < MaxRequests /\ last' = last + 1 /\ buffer' = {}
        BY <3>1 DEF Submit, Usable, UsablePort, Kept
      <4>2. last' # None
        BY <2>0, <4>1 DEF TypeOK, Requests, None
      <4>3. Asked'
        <5>1. CASE running # None
          BY <3>1, <4>2, <5>1 DEF Submit, Busy, Asked
        <5>2. CASE running = None
          <6>1. abandoned' = {} /\ running' = last'
            BY <2>0, <3>1, <4>1, <5>2, EmptySeq DEF Submit, Busy, Dispatch, SlotInv, TokenInv
          <6>2. QED
            BY <4>2, <6>1 DEF Asked
        <5>3. QED
          BY <5>1, <5>2
      <4>4. Slot' = "ASKED"
        BY <2>1, <2>4, <4>1, <4>3
      <4>5. QED
        BY <2>4, <4>1, <4>4 DEF Port!Next, Port!Submit
    <3>2. CASE TakeAnswer
      <4>1. /\ UsablePort /\ last \in buffer /\ last' = last /\ last' \notin buffer'
            /\ UNCHANGED <<running, pending, abandoned>>
        BY <3>2 DEF TakeAnswer, Usable, UsablePort
      <4>2. running = None /\ pending = None /\ last # None
        BY <2>0, <4>1 DEF SlotInv, TypeOK, Requests, None
      <4>3. ~Asked'
        BY <4>1, <4>2 DEF Asked
      <4>4. Slot = "ANSWERED" /\ Slot' = "NONE"
        BY <2>1, <2>4, <4>1, <4>3, SlotValue
      <4>5. QED
        BY <2>4, <4>1, <4>4 DEF Port!Next, Port!Take
    <3>3. CASE Abandon
      <4>1. /\ UsablePort /\ last' = last /\ last' \notin buffer' /\ pending' # last
            /\ running' = running /\ (running = last => last \in abandoned')
        BY <2>4, <3>3 DEF Abandon, UsablePort
      <4>2. ~Asked'
        BY <4>1 DEF Asked
      <4>3. Slot' = "NONE"
        BY <2>1, <2>4, <4>1, <4>2
      <4>4. QED
        BY <2>4, <4>1, <4>3 DEF Port!Next, Port!Abandon
    <3>4. CASE Collect
      <4>1. /\ Head(resultQueue).id = running /\ running # None /\ buffer = {} /\ requestQueue = <<>>
            /\ last' = last /\ last \in Requests
        BY <2>0, <3>4 DEF Collect, TokenInv, SlotInv, TypeOK, Requests, None
      <4>2. Accept(running)
        BY <2>4, <3>4, <4>1 DEF Collect, Fault, UsablePort
      <4>3. UsablePort
        BY <2>4, <3>4, <4>2, EmptySeq DEF Collect, UsablePort, Accept, Dispatch
      <4>4. abandoned' = {} /\ pending' = None
        BY <2>0, <4>2 DEF Accept, SlotInv
      <4>5. CASE running \in abandoned
        <5>1. last' \notin buffer' /\ last \notin buffer
          BY <4>1, <4>2, <4>5 DEF Accept, Discarded
        <5>2. running' = pending
          BY <4>1, <4>2, EmptySeq DEF Accept, NextWork, Dispatch
        <5>3. pending \in {None, last} /\ last # None
          BY <2>0, <4>1 DEF SlotInv, Requests, None
        <5>4. Asked' <=> Asked
          BY <4>1, <4>4, <4>5, <5>2, <5>3 DEF Asked
        <5>5. Slot' = Slot
          BY <2>1, <2>4, <4>3, <5>1, <5>4, SlotValue
        <5>6. QED
          BY <2>4, <4>1, <4>3, <5>5 DEF Port!vars
      <4>6. CASE running \notin abandoned
        <5>1. running = last /\ last' \in buffer' /\ last \notin buffer
          BY <2>0, <4>1, <4>2, <4>6 DEF SlotInv, Accept, Discarded
        <5>2. Asked
          BY <4>1, <4>6, <5>1 DEF Asked
        <5>3. Slot = "ASKED" /\ Slot' = "ANSWERED"
          BY <2>1, <2>4, <4>3, <5>1, <5>2, SlotValue
        <5>4. QED
          BY <2>4, <4>1, <4>3, <5>3 DEF Port!Next, Port!Answer
      <4>7. QED
        BY <4>5, <4>6
    <3>5. QED
      BY <2>4, <3>1, <3>2, <3>3, <3>4
      DEF Next, Poll, PollNothing, Close, FinishClose, WorkerTakes, WorkerAnswers, WorkerDies,
          CollectorNoticesExit, Tick, UsablePort, vars, parentVars, processVars, clockVars
  <2>5. last' = last \/ Submit
    BY DEF Next, Poll, TakeAnswer, PollNothing, Abandon, Close, FinishClose, WorkerTakes, WorkerAnswers,
           WorkerDies, Collect, CollectorNoticesExit, Tick, vars, parentVars, processVars, clockVars
  <2>6. Submit => UsablePort'
    <3>1. Submit => error' = error /\ closing' = closing /\ UsablePort
      BY <2>0, EmptySeq DEF Submit, Busy, Dispatch, TokenInv, Usable, UsablePort
    <3>2. QED
      BY <3>1 DEF UsablePort
  <2>7. QED
    BY <2>2, <2>3, <2>4, <2>5, <2>6
<1>3. QED
  BY <1>1, <1>2, Inductive, PTL DEF Spec, ImplementsPort, Port!Spec
=============================================================================

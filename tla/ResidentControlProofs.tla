------------------------ MODULE ResidentControlProofs ------------------------
(***************************************************************************)
(* Machine-checked properties of ResidentControl, for every set of devices  *)
(* and revisions, every preflight requirement and every clock, and, in the   *)
(* second part, of the RuntimeLoop that drives it, for every period.         *)
(***************************************************************************)
EXTENDS ResidentControl, RuntimeLoop, FiniteSetTheorems, TLAPS

(* The contexts a caller may pass are contexts. *)
LEMMA NextContextsType ==
    ASSUME TypeOK PROVE NextContexts \subseteq Contexts
<1>1. CASE lastContext = NoContext
  BY <1>1 DEF NextContexts, Contexts
<1>2. CASE lastContext # NoContext
  <2>1. lastContext.tick \in Nat /\ lastContext.ns \in Nat
    BY <1>2 DEF TypeOK, Contexts
  <2> SUFFICES ASSUME NEW dt \in TickSteps, NEW dn \in NsSteps
               PROVE  [tick |-> lastContext.tick + dt, ns |-> lastContext.ns + dn]
                        \in Contexts
    BY <1>2 DEF NextContexts
  <2>2. dt \in Nat /\ dn \in Nat
    BY ControlAssumption
  <2>3. lastContext.tick + dt \in Nat /\ lastContext.ns + dn \in Nat
    BY <2>1, <2>2
  <2> QED
    BY <2>3 DEF Contexts
<1> QED
  BY <1>1, <1>2

LEMMA CountedRevisionsType ==
    ASSUME TypeOK, NEW r \in Revisions
    PROVE  CountedRevisions(r) \in 0 .. Required
BY ControlAssumption DEF TypeOK, CountedRevisions

LEMMA ObservedType ==
    ASSUME TypeOK, NEW r \in Revisions
    PROVE  Observed(r) \in SUBSET Revisions
BY DEF TypeOK, Observed

LEMMA DecideType ==
    ASSUME NEW u, NEW h, NEW s, NEW q, NEW l
    PROVE  Decide(u, h, s, q, l) \in {"FAULT", "STOP", "ALLOW"}
BY DEF Decide

LEMMA CommitType ==
    ASSUME TypeOK, NEW ctx \in Contexts, NEW d, NEW q, Commit(ctx, d, q)
    PROVE  /\ lastContext' \in Contexts
           /\ latched' \in BOOLEAN
           /\ motor' \in MotorStates
BY DEF TypeOK, Commit, MotorStates

LEMMA FaultTickType ==
    ASSUME TypeOK, NEW ctx \in Contexts, RunFaultTick(ctx),
           shutdown' \in BOOLEAN
    PROVE  TypeOK'
<1>1. /\ lastContext' \in Contexts
      /\ latched' \in BOOLEAN
      /\ motor' \in MotorStates
  BY CommitType DEF RunFaultTick
<1> QED
  BY <1>1 DEF TypeOK, RunFaultTick, Lifecycles, preflightVars, history

LEMMA TypeStep ==
    ASSUME TypeOK, [Next]_vars PROVE TypeOK'
<1>0. NextContexts \subseteq Contexts
  BY NextContextsType
<1>1. CASE FaultedTick
  BY <1>0, <1>1, FaultTickType DEF FaultedTick, TypeOK
<1>2. CASE InputErrorTick
  BY <1>0, <1>2, FaultTickType DEF InputErrorTick, TypeOK
<1>3. CASE PreflightRequiredTick
  BY <1>0, <1>3, FaultTickType DEF PreflightRequiredTick, TypeOK
<1>4. CASE MotionTick
  <2> PICK ctx, d, q :
         /\ ctx \in NextContexts
         /\ Commit(ctx, d, q)
         /\ \/ EndFaulted
            \/ /\ active' = TRUE
               /\ lifecycle' = "ACTIVE"
               /\ rearmPending' = FALSE
               /\ established' = TRUE
               /\ ResetPreflight
               /\ evidence' = {}
               /\ UNCHANGED faulted
         /\ UNCHANGED <<writeFailed, shutdown>>
    BY <1>4 DEF MotionTick
  <2>1. /\ lastContext' \in Contexts
        /\ latched' \in BOOLEAN
        /\ motor' \in MotorStates
    BY <1>0, CommitType
  <2>2. CASE EndFaulted
    BY <2>1, <2>2 DEF TypeOK, EndFaulted, Lifecycles, preflightVars, history
  <2>3. CASE ~EndFaulted
    <3>1. 0 \in 0 .. Required
      BY ControlAssumption
    <3> QED
      BY <2>1, <2>3, <3>1 DEF TypeOK, ResetPreflight, Lifecycles
  <2> QED
    BY <2>2, <2>3
<1>5. CASE IdleTick
  <2> PICK ctx, health, sequence, d :
         /\ ctx \in NextContexts
         /\ sequence \in Revisions \cup {0}
         /\ Commit(ctx, d, "ZERO")
         /\ \/ EndFaulted
            \/ /\ active' = FALSE
               /\ lifecycle' = "IDLE"
               /\ Rearm
               /\ IF DevicesReady(health)
                  THEN RecordHealthyIdle(ctx, sequence)
                  ELSE ResetPreflight
               /\ evidence' = IF DevicesReady(health) /\ sequence # 0
                              THEN Observed(sequence) ELSE {}
               /\ UNCHANGED <<faulted, established>>
         /\ UNCHANGED <<writeFailed, shutdown>>
    BY <1>5 DEF IdleTick
  <2>1. /\ lastContext' \in Contexts
        /\ latched' \in BOOLEAN
        /\ motor' \in MotorStates
    BY <1>0, CommitType
  <2>2. sequence # 0 => /\ CountedRevisions(sequence) \in 0 .. Required
                        /\ Observed(sequence) \in SUBSET Revisions
    BY CountedRevisionsType, ObservedType
  <2>3. CASE EndFaulted
    BY <2>1, <2>3 DEF TypeOK, EndFaulted, Lifecycles, preflightVars, history
  <2>4. CASE ~EndFaulted
    <3>1. /\ preflight' \in Contexts \cup {NoContext}
          /\ lastRevision' \in Revisions \cup {0}
          /\ revisionCount' \in 0 .. Required
          /\ evidence' \in SUBSET Revisions
      BY <1>0, <2>2, <2>4, ControlAssumption
         DEF RecordHealthyIdle, ResetPreflight
    <3> QED
      BY <2>1, <2>4, <3>1 DEF TypeOK, Lifecycles, Rearm
  <2> QED
    BY <2>3, <2>4
<1>6. CASE ShutdownTick
  <2> PICK ctx, d :
         /\ ctx \in NextContexts
         /\ Commit(ctx, d, "ZERO")
         /\ active' = FALSE
         /\ shutdown' = TRUE
         /\ lifecycle' = IF d = "FAULT" THEN "FAULT" ELSE "SHUTDOWN"
         /\ UNCHANGED <<rearmPending, faulted, writeFailed, preflightVars,
                        history>>
    BY <1>6 DEF ShutdownTick
  <2>1. /\ lastContext' \in Contexts
        /\ latched' \in BOOLEAN
        /\ motor' \in MotorStates
    BY <1>0, CommitType
  <2> QED
    BY <2>1 DEF TypeOK, Lifecycles, preflightVars, history
<1>7. CASE ShutdownInputError
  BY <1>0, <1>7, FaultTickType DEF ShutdownInputError
<1>8. CASE WriterFailure
  BY <1>8 DEF WriterFailure, TypeOK, Lifecycles, MotorStates, preflightVars, history
<1>9. CASE UNCHANGED vars
  BY <1>9 DEF TypeOK, vars, flags, preflightVars, history
<1> QED
  BY <1>1, <1>2, <1>3, <1>4, <1>5, <1>6, <1>7, <1>8, <1>9 DEF Next

(* Every call keeps the variables in their types. *)
THEOREM TypeCorrect == Spec => []TypeOK
<1>1. Init => TypeOK
  <2>1. 0 \in 0 .. Required
    BY ControlAssumption
  <2> QED
    BY <2>1 DEF Init, TypeOK, Lifecycles, MotorStates
<1>2. TypeOK /\ [Next]_vars => TypeOK'
  BY TypeStep
<1> QED
  BY <1>1, <1>2, PTL DEF Spec

-----------------------------------------------------------------------------
(* The inductive invariant: the latch, the lifecycle and the end-of-session  *)
(* flags agree; only a live ACTIVE session drives; an interruption re-arms;  *)
(* the preflight bookkeeping matches the revisions really seen.             *)
Safety ==
    /\ LatchIsVisible
    /\ faulted \/ writeFailed => latched
    /\ DriveNeedsAuthority
    /\ EstablishedRearms

IInv == TypeOK /\ Safety /\ Bookkeeping

LEMMA FaultTickSafety ==
    ASSUME NEW ctx, RunFaultTick(ctx)
    PROVE  Safety'
BY DEF RunFaultTick, Commit, Safety, LatchIsVisible, DriveNeedsAuthority,
       EstablishedRearms, Alive

(* A latched gate decides FAULT whatever it is asked. *)
LEMMA LatchedDecision ==
    ASSUME latched, NEW u, NEW h, NEW s, NEW q, NEW l
    PROVE  Decide(u, h, s, q, l) = "FAULT"
BY DEF Decide

LEMMA SafetyStep ==
    ASSUME TypeOK, Safety, [Next]_vars PROVE Safety'
<1>1. CASE FaultedTick
  BY <1>1, FaultTickSafety DEF FaultedTick
<1>2. CASE InputErrorTick
  BY <1>2, FaultTickSafety DEF InputErrorTick
<1>3. CASE PreflightRequiredTick
  BY <1>3, FaultTickSafety DEF PreflightRequiredTick
<1>4. CASE MotionTick
  <2> PICK ctx, d, q :
         /\ latched => d = "FAULT"
         /\ Callable
         /\ Commit(ctx, d, q)
         /\ \/ d = "FAULT" /\ EndFaulted
            \/ /\ d # "FAULT"
               /\ active' = TRUE
               /\ lifecycle' = "ACTIVE"
               /\ established' = TRUE
               /\ UNCHANGED faulted
         /\ ~faulted
         /\ UNCHANGED <<writeFailed, shutdown>>
    BY <1>4, LatchedDecision DEF MotionTick
  <2>1. CASE d = "FAULT"
    BY <2>1 DEF Commit, EndFaulted, Safety, LatchIsVisible, DriveNeedsAuthority,
                EstablishedRearms, Alive
  <2>2. CASE d # "FAULT"
    <3>1. ~latched /\ ~latched' /\ ~faulted' /\ ~writeFailed' /\ ~shutdown'
      <4>1. ~latched
        BY <2>2
      <4>2. ~latched'
        BY <2>2, <4>1 DEF Commit
      <4>3. ~faulted' /\ ~writeFailed' /\ ~shutdown'
        BY <2>2 DEF Callable
      <4> QED
        BY <4>1, <4>2, <4>3
    <3>2. active' /\ established' /\ lifecycle' = "ACTIVE"
      BY <2>2
    <3> QED
      BY <3>1, <3>2 DEF Safety, LatchIsVisible, DriveNeedsAuthority,
                        EstablishedRearms, Alive
  <2> QED
    BY <2>1, <2>2
<1>5. CASE IdleTick
  <2> PICK ctx, d :
         /\ latched => d = "FAULT"
         /\ d # "ALLOW"
         /\ Callable
         /\ Commit(ctx, d, "ZERO")
         /\ \/ d = "FAULT" /\ EndFaulted
            \/ /\ d # "FAULT"
               /\ active' = FALSE
               /\ lifecycle' = "IDLE"
               /\ Rearm
               /\ UNCHANGED <<faulted, established>>
         /\ ~faulted
         /\ UNCHANGED <<writeFailed, shutdown>>
    <3>1. \A u, h : Decide(u, h, "IDLE", "ZERO", "CLEAR") # "ALLOW"
      BY DEF Decide
    <3> QED
      BY <1>5, <3>1, LatchedDecision DEF IdleTick
  <2>1. CASE d = "FAULT"
    BY <2>1 DEF Commit, EndFaulted, Safety, LatchIsVisible, DriveNeedsAuthority,
                EstablishedRearms, Alive
  <2>2. CASE d # "FAULT"
    <3>1. ~latched /\ ~latched' /\ ~faulted' /\ ~writeFailed' /\ ~shutdown'
      <4>1. ~latched
        BY <2>2
      <4>2. ~latched'
        BY <2>2, <4>1 DEF Commit
      <4>3. ~faulted' /\ ~writeFailed' /\ ~shutdown'
        BY <2>2 DEF Callable
      <4> QED
        BY <4>1, <4>2, <4>3
    <3>2. lifecycle' = "IDLE" /\ motor' = "LOW"
      BY <2>2 DEF Commit
    <3>3. established' => rearmPending'
      BY <2>2 DEF Safety, EstablishedRearms, Alive, Rearm, Callable
    <3> QED
      BY <3>1, <3>2, <3>3 DEF Safety, LatchIsVisible, DriveNeedsAuthority,
                              EstablishedRearms, Alive
  <2> QED
    BY <2>1, <2>2
<1>6. CASE ShutdownTick
  <2> PICK ctx, d :
         /\ latched => d = "FAULT"
         /\ Commit(ctx, d, "ZERO")
         /\ shutdown' = TRUE
         /\ lifecycle' = IF d = "FAULT" THEN "FAULT" ELSE "SHUTDOWN"
         /\ UNCHANGED <<faulted, writeFailed>>
    BY <1>6, LatchedDecision DEF ShutdownTick
  <2> QED
    BY DEF Commit, Safety, LatchIsVisible, DriveNeedsAuthority,
           EstablishedRearms, Alive
<1>7. CASE ShutdownInputError
  BY <1>7, FaultTickSafety DEF ShutdownInputError
<1>8. CASE WriterFailure
  BY <1>8 DEF WriterFailure, Safety, LatchIsVisible, DriveNeedsAuthority,
              EstablishedRearms, Alive
<1>9. CASE UNCHANGED vars
  BY <1>9 DEF vars, flags, history, Safety, LatchIsVisible, DriveNeedsAuthority,
              EstablishedRearms, Alive
<1> QED
  BY <1>1, <1>2, <1>3, <1>4, <1>5, <1>6, <1>7, <1>8, <1>9 DEF Next

-----------------------------------------------------------------------------
(* One more healthy idle tick: the count grows by at most one exactly when a *)
(* revision newer than every one seen in this run is added to the evidence.  *)
LEMMA RecordedEvidence ==
    ASSUME TypeOK, Bookkeeping, NEW r \in Revisions
    PROVE  /\ IsFiniteSet(Observed(r))
           /\ r \in Observed(r)
           /\ \A v \in Observed(r) : v <= r
           /\ CountedRevisions(r) <= Cardinality(Observed(r))
<1>1. r \in Nat /\ r # 0 /\ lastRevision \in Nat /\ revisionCount \in Nat
      /\ Required \in Nat /\ \A v \in evidence : v \in Nat
  BY ControlAssumption DEF TypeOK
<1>2. IsFiniteSet(evidence)
  BY DEF Bookkeeping
<1>3. /\ IsFiniteSet({r}) /\ Cardinality({r}) = 1
      /\ IsFiniteSet(evidence \cup {r})
      /\ Cardinality(evidence \cup {r}) = IF r \in evidence THEN Cardinality(evidence)
                                         ELSE Cardinality(evidence) + 1
      /\ Cardinality(evidence) \in Nat
  BY <1>2, FS_Singleton, FS_AddElement, FS_CardinalityType
<1>4. IsFiniteSet(Observed(r)) /\ r \in Observed(r)
  BY <1>3 DEF Observed
<1>5. \A v \in Observed(r) : v <= r
  BY <1>1 DEF Observed
<1>6. Cardinality(Observed(r)) >= 1
  <2>1. Cardinality(Observed(r)) \in Nat /\ Cardinality(Observed(r)) # 0
    BY <1>4, FS_CardinalityType, FS_EmptySet
  <2> QED
    BY <2>1
<1>7. CASE lastRevision = 0 \/ r < lastRevision
  <2>1. CountedRevisions(r) = 1
    BY <1>7 DEF CountedRevisions
  <2>2. CountedRevisions(r) <= Cardinality(Observed(r))
    BY <1>6, <2>1
  <2> QED
    BY <1>4, <1>5, <2>2
<1>8. CASE ~(lastRevision = 0 \/ r < lastRevision)
  <2>1. /\ lastRevision \in evidence
        /\ \A v \in evidence : v <= lastRevision
        /\ revisionCount <= Cardinality(evidence)
    BY <1>8 DEF Bookkeeping, EvidenceCounted
  <2>2. lastRevision <= r
    BY <1>1, <1>8
  <2>3. \A v \in evidence : ~(v > r)
    BY <1>1, <2>1, <2>2
  <2>4. Observed(r) = evidence \cup {r}
    BY <2>3 DEF Observed
  <2>5. CASE r = lastRevision
    <3>1. CountedRevisions(r) = revisionCount
      BY <1>1, <1>8, <2>5 DEF CountedRevisions
    <3>2. Observed(r) = evidence
      BY <2>1, <2>4, <2>5
    <3>3. CountedRevisions(r) <= Cardinality(Observed(r))
      BY <2>1, <3>1, <3>2
    <3> QED
      BY <1>4, <1>5, <3>3
  <2>6. CASE r # lastRevision
    <3>1. r > lastRevision
      BY <1>1, <2>2, <2>6
    <3>2. r \notin evidence
      BY <1>1, <2>1, <3>1
    <3>3. CountedRevisions(r) <= revisionCount + 1
      BY <1>1, <1>8, <3>1 DEF CountedRevisions
    <3>4. Cardinality(Observed(r)) = Cardinality(evidence) + 1
      BY <1>3, <2>4, <3>2
    <3>5. CountedRevisions(r) \in Nat
      BY CountedRevisionsType, ControlAssumption
    <3>6. CountedRevisions(r) <= Cardinality(Observed(r))
      BY <1>1, <1>3, <2>1, <3>3, <3>4, <3>5
    <3> QED
      BY <1>4, <1>5, <3>6
  <2> QED
    BY <2>5, <2>6
<1> QED
  BY <1>7, <1>8

(* A step that leaves the evidence alone while the session is over, or ends, *)
(* keeps the bookkeeping.                                                   *)
LEMMA BookkeepingFrame ==
    ASSUME Bookkeeping, UNCHANGED <<preflightVars, evidence>>, ~Alive'
    PROVE  Bookkeeping'
BY DEF Bookkeeping, EvidenceCounted, PreflightIsLatest, preflightVars, Alive

LEMMA BookkeepingReset ==
    ASSUME ResetPreflight, evidence' = {}
    PROVE  Bookkeeping'
BY FS_EmptySet
   DEF ResetPreflight, Bookkeeping, EvidenceCounted, PreflightIsLatest, Alive

LEMMA BookkeepingStep ==
    ASSUME TypeOK, Bookkeeping, [Next]_vars PROVE Bookkeeping'
<1>1. CASE FaultedTick
  BY <1>1, BookkeepingFrame DEF FaultedTick, RunFaultTick, Alive, history
<1>2. CASE InputErrorTick
  BY <1>2, BookkeepingFrame DEF InputErrorTick, RunFaultTick, Alive, history
<1>3. CASE PreflightRequiredTick
  BY <1>3, BookkeepingFrame DEF PreflightRequiredTick, RunFaultTick, Alive, history
<1>4. CASE MotionTick
  <2>1. \/ EndFaulted
        \/ ResetPreflight /\ evidence' = {}
    BY <1>4 DEF MotionTick
  <2> QED
    BY <2>1, BookkeepingFrame, BookkeepingReset DEF EndFaulted, Alive, history
<1>5. CASE IdleTick
  <2> PICK ctx, health, sequence, d :
         /\ ctx \in NextContexts
         /\ sequence \in Revisions \cup {0}
         /\ Commit(ctx, d, "ZERO")
         /\ \/ EndFaulted
            \/ /\ active' = FALSE
               /\ IF DevicesReady(health)
                  THEN RecordHealthyIdle(ctx, sequence)
                  ELSE ResetPreflight
               /\ evidence' = IF DevicesReady(health) /\ sequence # 0
                              THEN Observed(sequence) ELSE {}
    BY <1>5 DEF IdleTick
  <2>1. CASE EndFaulted
    BY <2>1, BookkeepingFrame DEF EndFaulted, Alive, history
  <2>2. CASE ~EndFaulted /\ ~(DevicesReady(health) /\ sequence # 0)
    BY <2>2, BookkeepingReset DEF RecordHealthyIdle
  <2>3. CASE ~EndFaulted /\ DevicesReady(health) /\ sequence # 0
    <3>1. /\ preflight' = ctx /\ lastContext' = ctx /\ ~active'
          /\ lastRevision' = sequence
          /\ revisionCount' = CountedRevisions(sequence)
          /\ evidence' = Observed(sequence)
      BY <2>3 DEF RecordHealthyIdle, Commit
    <3>2. preflight' # NoContext
      <4>1. ctx \in Contexts
        BY NextContextsType
      <4>2. ctx.tick \in Nat
        BY <4>1 DEF Contexts
      <4> QED
        BY <3>1, <4>2 DEF NoContext
    <3>3. sequence \in Revisions
      BY <2>3
    <3> QED
      BY <3>1, <3>2, <3>3, RecordedEvidence
         DEF Bookkeeping, EvidenceCounted, PreflightIsLatest
  <2> QED
    BY <2>1, <2>2, <2>3
<1>6. CASE ShutdownTick
  BY <1>6, BookkeepingFrame DEF ShutdownTick, Alive, history
<1>7. CASE ShutdownInputError
  BY <1>7, BookkeepingFrame DEF ShutdownInputError, RunFaultTick, Alive, history
<1>8. CASE WriterFailure
  BY <1>8, BookkeepingFrame DEF WriterFailure, Alive, history
<1>9. CASE UNCHANGED vars
  BY <1>9 DEF vars, flags, history, preflightVars, Bookkeeping, EvidenceCounted,
              PreflightIsLatest, Alive
<1> QED
  BY <1>1, <1>2, <1>3, <1>4, <1>5, <1>6, <1>7, <1>8, <1>9 DEF Next

LEMMA InitIInv == Init => IInv
<1> SUFFICES ASSUME Init PROVE IInv
  OBVIOUS
<1>1. TypeOK
  <2>1. 0 \in 0 .. Required
    BY ControlAssumption
  <2> QED
    BY <2>1 DEF Init, TypeOK, Lifecycles, MotorStates
<1>2. Safety
  BY DEF Init, Safety, LatchIsVisible, DriveNeedsAuthority, EstablishedRearms
<1>3. Bookkeeping
  BY FS_EmptySet DEF Init, Bookkeeping, EvidenceCounted, PreflightIsLatest
<1> QED
  BY <1>1, <1>2, <1>3 DEF IInv

(* The inductive invariant holds in every reachable state. *)
THEOREM Inductive == Spec => []IInv
<1>1. IInv /\ [Next]_vars => IInv'
  BY TypeStep, SafetyStep, BookkeepingStep DEF IInv
<1> QED
  BY <1>1, InitIInv, PTL DEF Spec

(* The revision count never runs ahead of the evidence, and a live preflight *)
(* is that of the tick just committed.                                      *)
THEOREM BookkeepingHolds == Spec => []Bookkeeping
<1>1. IInv => Bookkeeping
  BY DEF IInv
<1> QED
  BY <1>1, Inductive, PTL

(* A driving motor write needs a live, established ACTIVE session. *)
THEOREM DriveIsAuthorized == Spec => []DriveNeedsAuthority
<1>1. IInv => DriveNeedsAuthority
  BY DEF IInv, Safety
<1> QED
  BY <1>1, Inductive, PTL

(* The L12 latch and the lifecycle the loop polls never disagree. *)
THEOREM LatchVisible == Spec => []LatchIsVisible
<1>1. IInv => LatchIsVisible
  BY DEF IInv, Safety
<1> QED
  BY <1>1, Inductive, PTL

(* An interrupted established session always re-arms. *)
THEOREM SessionRearms == Spec => []EstablishedRearms
<1>1. IInv => EstablishedRearms
  BY DEF IInv, Safety
<1> QED
  BY <1>1, Inductive, PTL

(* ready_for_active is never published in vain. *)
THEOREM ReadyHonest == Spec => []ReadyIsHonest
<1>1. IInv => ReadyIsHonest
  <2> SUFFICES ASSUME IInv, ReadyForActive, NEW ctx \in NextContexts,
                      ~OrderFault(ctx), ctx.ns - lastContext.ns <= MaxAge
               PROVE  PreflightFresh(ctx)
    BY DEF ReadyIsHonest
  <2>1. PreflightComplete /\ preflight = lastContext /\ lastContext # NoContext
    BY DEF ReadyForActive, PreflightComplete, IInv, Bookkeeping,
           PreflightIsLatest, Alive
  <2>2. ctx.tick = lastContext.tick + 1 /\ ~(ctx.ns <= lastContext.ns)
    BY <2>1 DEF OrderFault
  <2>3. ctx \in Contexts /\ lastContext \in Contexts
    BY <2>1, NextContextsType DEF IInv, TypeOK
  <2>4. ctx.ns \in Nat /\ lastContext.ns \in Nat
    BY <2>3 DEF Contexts
  <2>5. ctx.ns - lastContext.ns > 0
    BY <2>2, <2>4
  <2> QED
    BY <2>1, <2>2, <2>5 DEF PreflightFresh
<1> QED
  BY <1>1, Inductive, PTL

(* The facts an activation rests on, from the invariant and the guard. *)
LEMMA FreshActivation ==
    ASSUME IInv, Alive, NEW ctx \in NextContexts, PreflightFresh(ctx)
    PROVE  /\ Cardinality(evidence) >= Required
           /\ ctx.tick = lastContext.tick + 1
           /\ ctx.ns > lastContext.ns
           /\ ctx.ns - lastContext.ns <= MaxAge
<1>1. preflight = lastContext /\ lastContext # NoContext
  BY DEF PreflightFresh, PreflightComplete, IInv, Bookkeeping, PreflightIsLatest
<1>2. revisionCount >= Required /\ revisionCount <= Cardinality(evidence)
  BY DEF PreflightFresh, PreflightComplete, IInv, Bookkeeping, EvidenceCounted
<1>3. revisionCount \in Nat /\ Required \in Nat /\ Cardinality(evidence) \in Nat
  BY ControlAssumption, FS_CardinalityType DEF IInv, TypeOK, Bookkeeping
<1>4. ctx \in Contexts /\ lastContext \in Contexts
  BY <1>1, NextContextsType DEF IInv, TypeOK
<1>5. ctx.ns \in Nat /\ lastContext.ns \in Nat
  BY <1>4 DEF Contexts
<1>6. Cardinality(evidence) >= Required
  BY <1>2, <1>3
<1>7. ctx.ns > lastContext.ns
  BY <1>1, <1>5 DEF PreflightFresh
<1> QED
  BY <1>1, <1>6, <1>7 DEF PreflightFresh

(* Only a motion tick makes an inactive session active. *)
LEMMA OnlyMotionActivates ==
    ASSUME [Next]_vars, ~active, active' PROVE MotionTick
BY DEF Next, FaultedTick, InputErrorTick, PreflightRequiredTick, IdleTick,
       ShutdownTick, ShutdownInputError, WriterFailure, RunFaultTick,
       EndFaulted, vars

(* IDLE becomes ACTIVE only on enough distinct revisions, from the tick just *)
(* before, in time.                                                         *)
THEOREM ActivationPreflighted == Spec => ActivationHasPreflight
<1>1. IInv /\ [Next]_vars =>
        [~active /\ active' =>
           /\ Cardinality(evidence) >= Required
           /\ lastContext'.tick = lastContext.tick + 1
           /\ lastContext'.ns > lastContext.ns
           /\ lastContext'.ns - lastContext.ns <= MaxAge]_vars
  <2> SUFFICES ASSUME IInv, [Next]_vars, ~active, active'
               PROVE  /\ Cardinality(evidence) >= Required
                      /\ lastContext'.tick = lastContext.tick + 1
                      /\ lastContext'.ns > lastContext.ns
                      /\ lastContext'.ns - lastContext.ns <= MaxAge
    OBVIOUS
  <2>1. MotionTick
    BY OnlyMotionActivates
  <2>2. PICK ctx \in NextContexts : PreflightFresh(ctx) /\ lastContext' = ctx
    BY <2>1 DEF MotionTick, Commit
  <2>3. Alive
    BY <2>1 DEF MotionTick, Callable, Alive
  <2> QED
    BY <2>2, <2>3, FreshActivation
<1> QED
  BY <1>1, Inductive, PTL DEF Spec, ActivationHasPreflight

(* No call, in any state, clears the L12 latch. *)
LEMMA LatchGrows ==
    ASSUME [Next]_vars, latched PROVE latched'
<1>1. CASE \E ctx, d, q : Commit(ctx, d, q)
  BY <1>1 DEF Commit
<1>2. CASE WriterFailure
  BY <1>2 DEF WriterFailure
<1>3. CASE UNCHANGED vars
  BY <1>3 DEF vars
<1>4. FaultedTick \/ InputErrorTick \/ PreflightRequiredTick \/ ShutdownInputError
        => \E ctx, d, q : Commit(ctx, d, q)
  BY DEF FaultedTick, InputErrorTick, PreflightRequiredTick, ShutdownInputError,
         RunFaultTick
<1>5. MotionTick => \E ctx, d, q : Commit(ctx, d, q)
  BY DEF MotionTick
<1>6. IdleTick => \E ctx, d, q : Commit(ctx, d, q)
  BY DEF IdleTick
<1>7. ShutdownTick => \E ctx, d, q : Commit(ctx, d, q)
  BY DEF ShutdownTick
<1> QED
  BY <1>1, <1>2, <1>3, <1>4, <1>5, <1>6, <1>7 DEF Next

(* No call does anything after a failed write. *)
LEMMA NothingAfterWriteFailure ==
    ASSUME [Next]_vars, writeFailed PROVE UNCHANGED vars
BY DEF Next, FaultedTick, InputErrorTick, PreflightRequiredTick, MotionTick,
       IdleTick, ShutdownTick, ShutdownInputError, WriterFailure, Callable

(* A fault is terminal. *)
THEOREM FaultTerminal == Spec => FaultIsTerminal
<1>1. IInv /\ IInv' /\ [Next]_vars =>
        [lifecycle = "FAULT" =>
           /\ lifecycle' = "FAULT"
           /\ latched'
           /\ motor' # "DRIVEN"
           /\ (writeFailed => UNCHANGED vars)]_vars
  <2> SUFFICES ASSUME IInv, IInv', [Next]_vars, lifecycle = "FAULT"
               PROVE  /\ lifecycle' = "FAULT"
                      /\ latched'
                      /\ motor' # "DRIVEN"
                      /\ (writeFailed => UNCHANGED vars)
    OBVIOUS
  <2>1. latched'
    BY LatchGrows DEF IInv, Safety, LatchIsVisible
  <2>2. lifecycle' = "FAULT" /\ motor' # "DRIVEN"
    BY <2>1 DEF IInv, Safety, LatchIsVisible, DriveNeedsAuthority
  <2> QED
    BY <2>1, <2>2, NothingAfterWriteFailure
<1> QED
  BY <1>1, Inductive, PTL DEF Spec, FaultIsTerminal

-----------------------------------------------------------------------------
(* The refinement.  A step that ends the session is Die, or a stutter when   *)
(* the session had ended before.                                            *)
LEMMA EndRefines ==
    ASSUME IInv, ~Alive', motor' # "DRIVEN", evidence' = evidence
    PROVE  [Authority!Next]_Authority!vars
<1>1. CASE Alive
  <2>1. Authority!Die
    BY <1>1 DEF Authority!Die
  <2> QED
    BY <2>1 DEF Authority!Next
<1>2. CASE ~Alive
  <2>1. motor # "DRIVEN"
    BY <1>2 DEF IInv, Safety, DriveNeedsAuthority
  <2> QED
    BY <1>2, <2>1 DEF Authority!vars
<1> QED
  BY <1>1, <1>2

LEMMA FaultTickRefines ==
    ASSUME IInv, NEW ctx, RunFaultTick(ctx)
    PROVE  [Authority!Next]_Authority!vars
<1>1. ~Alive' /\ motor' # "DRIVEN" /\ evidence' = evidence
  BY DEF RunFaultTick, Commit, Alive, history
<1> QED
  BY <1>1, EndRefines

LEMMA MotionRefines ==
    ASSUME IInv, MotionTick
    PROVE  [Authority!Next]_Authority!vars
<1> PICK ctx, d, q :
       /\ ctx \in NextContexts
       /\ Callable
       /\ ~faulted
       /\ active \/ PreflightFresh(ctx)
       /\ Commit(ctx, d, q)
       /\ \/ d = "FAULT" /\ EndFaulted
          \/ /\ active' = TRUE
             /\ evidence' = {}
             /\ UNCHANGED faulted
       /\ UNCHANGED <<writeFailed, shutdown>>
  BY DEF MotionTick
<1>1. CASE d = "FAULT" /\ EndFaulted
  <2>1. ~Alive' /\ motor' # "DRIVEN" /\ evidence' = evidence
    BY <1>1 DEF EndFaulted, Commit, Alive, history
  <2> QED
    BY <2>1, EndRefines
<1>2. CASE ~(d = "FAULT" /\ EndFaulted)
  <2>1. Alive /\ Alive' /\ active' /\ evidence' = {}
    BY <1>2 DEF Callable, Alive
  <2>2. CASE active
    <3>1. evidence = {}
      BY <2>1, <2>2 DEF IInv, Bookkeeping, PreflightIsLatest
    <3>2. Authority!Drive
      BY <2>1, <2>2, <3>1 DEF Authority!Drive
    <3> QED
      BY <3>2 DEF Authority!Next
  <2>3. CASE ~active
    <3>1. Cardinality(evidence) >= Required
      BY <2>1, <2>3, FreshActivation
    <3>2. Authority!Cardinality(evidence) = Cardinality(evidence)
      BY DEF Authority!Cardinality, Cardinality
    <3>3. Authority!Activate
      BY <2>1, <2>3, <3>1, <3>2 DEF Authority!Activate
    <3> QED
      BY <3>3 DEF Authority!Next
  <2> QED
    BY <2>2, <2>3
<1> QED
  BY <1>1, <1>2

LEMMA IdleRefines ==
    ASSUME IInv, IdleTick
    PROVE  [Authority!Next]_Authority!vars
<1> PICK ctx, health, sequence, d :
       /\ ctx \in NextContexts
       /\ sequence \in Revisions \cup {0}
       /\ Callable
       /\ ~faulted
       /\ Commit(ctx, d, "ZERO")
       /\ \/ d = "FAULT" /\ EndFaulted
          \/ /\ active' = FALSE
             /\ evidence' = IF DevicesReady(health) /\ sequence # 0
                            THEN Observed(sequence) ELSE {}
             /\ UNCHANGED faulted
       /\ UNCHANGED <<writeFailed, shutdown>>
  BY DEF IdleTick
<1>0. motor' # "DRIVEN"
  BY DEF Commit
<1>1. CASE d = "FAULT" /\ EndFaulted
  <2>1. ~Alive' /\ evidence' = evidence
    BY <1>1 DEF EndFaulted, Alive, history
  <2> QED
    BY <1>0, <2>1, EndRefines
<1>2. CASE ~(d = "FAULT" /\ EndFaulted)
  <2>1. Alive /\ Alive' /\ ~active'
    BY <1>2 DEF Callable, Alive
  <2>2. evidence' = {} \/ \E r \in Revisions : evidence' = Observed(r)
    BY <1>2
  <2>3. CASE active
    <3>1. evidence = {}
      BY <2>1, <2>3 DEF IInv, Bookkeeping, PreflightIsLatest
    <3>2. evidence' \in {{}} \cup {{r} : r \in Revisions}
      BY <2>2, <3>1 DEF Observed
    <3>3. Authority!Release
      BY <1>0, <2>1, <2>3, <3>2 DEF Authority!Release
    <3> QED
      BY <3>3 DEF Authority!Next
  <2>4. CASE ~active
    <3>1. motor # "DRIVEN"
      BY <2>4 DEF IInv, Safety, DriveNeedsAuthority
    <3>2. CASE evidence' = {}
      <4>1. Authority!Interrupt
        BY <1>0, <2>1, <2>4, <3>1, <3>2 DEF Authority!Interrupt
      <4> QED
        BY <4>1 DEF Authority!Next
    <3>3. CASE \E r \in Revisions : evidence' = Observed(r)
      <4> PICK r \in Revisions : evidence' = Observed(r)
        BY <3>3
      <4>1. Authority!Observe(r)
        BY <1>0, <2>1, <2>4, <3>1 DEF Authority!Observe, Observed
      <4> QED
        BY <4>1 DEF Authority!Next
    <3> QED
      BY <2>2, <3>2, <3>3
  <2> QED
    BY <2>3, <2>4
<1> QED
  BY <1>1, <1>2

(* The resident control implements MotionAuthority. *)
THEOREM Refinement == Spec => ImplementsAuthority
<1>1. Init => Authority!Init
  BY DEF Init, Authority!Init, Alive
<1>2. IInv /\ [Next]_vars => [Authority!Next]_Authority!vars
  <2> SUFFICES ASSUME IInv, [Next]_vars
               PROVE  [Authority!Next]_Authority!vars
    OBVIOUS
  <2>1. CASE FaultedTick
    BY <2>1, FaultTickRefines DEF FaultedTick
  <2>2. CASE InputErrorTick
    BY <2>2, FaultTickRefines DEF InputErrorTick
  <2>3. CASE PreflightRequiredTick
    BY <2>3, FaultTickRefines DEF PreflightRequiredTick
  <2>4. CASE MotionTick
    BY <2>4, MotionRefines
  <2>5. CASE IdleTick
    BY <2>5, IdleRefines
  <2>6. CASE ShutdownTick
    <3>1. ~Alive' /\ motor' # "DRIVEN" /\ evidence' = evidence
      BY <2>6 DEF ShutdownTick, Commit, Alive, history
    <3> QED
      BY <3>1, EndRefines
  <2>7. CASE ShutdownInputError
    BY <2>7, FaultTickRefines DEF ShutdownInputError
  <2>8. CASE WriterFailure
    <3>1. ~Alive' /\ motor' # "DRIVEN" /\ evidence' = evidence
      BY <2>8 DEF WriterFailure, Alive, history
    <3> QED
      BY <3>1, EndRefines
  <2>9. CASE UNCHANGED vars
    BY <2>9 DEF vars, flags, history, Alive, Authority!vars
  <2> QED
    BY <2>1, <2>2, <2>3, <2>4, <2>5, <2>6, <2>7, <2>8, <2>9 DEF Next
<1> QED
  BY <1>1, <1>2, Inductive, PTL DEF Spec, ImplementsAuthority, Authority!Spec

-----------------------------------------------------------------------------
(* The loop that calls the composition, for every period and every bound of the *)
(* clock.                                                                   *)

(* Before a call the composition is live and its output open.                *)
OwnerInv ==
    /\ pc = "BEGIN" => output = "UNOPENED" /\ condition = "LIVE"
    /\ pc \in {"HEAD", "SLEEP", "CALL"} => condition = "LIVE"
    /\ pc = "AFTER" => condition # "SHUTDOWN"
    /\ pc = "OUT" => output # "OPEN"

(* What the loop remembers is the context of its last call.                  *)
ContextInv ==
    /\ readTime <= now
    /\ tickTime <= now
    /\ pc = "BEGIN" => context.tick = -1 /\ context.ns = -1 /\ tickId = 0 /\ tickTime = None
    /\ pc \in {"HEAD", "SLEEP", "CALL"} => context.tick = tickId - 1 /\ context.ns = tickTime
    /\ pc = "AFTER" => context.tick = tickId /\ context.ns = readTime /\ deadline <= readTime
    /\ pc = "CALL" /\ ~stopSeen => deadline <= readTime

(* A tick begun after the stop request has seen the flag unset before it.     *)
StopInv ==
    /\ late <= 1
    /\ late = 1 => stop
    /\ stopSeen => stop
    /\ pc \in {"BEGIN", "SLEEP"} => late = 0
    /\ pc = "CALL" /\ late = 1 => stopSeen

LoopInv == LoopTypeOK /\ OwnerInv /\ ContextInv /\ StopInv

-----------------------------------------------------------------------------
(* Division with remainder, the fact the deadlines rest on.                  *)
LEMMA DivBounds ==
    ASSUME NEW a \in Nat, NEW p \in Nat \ {0}
    PROVE  /\ a \div p \in Nat
           /\ (a \div p) * p \in Nat
           /\ (a \div p) * p <= a
           /\ a < (a \div p) * p + p
    BY SMTT(30)

LEMMA MultipleOfPeriod ==
    ASSUME NEW q \in Nat, NEW p \in Nat \ {0}
    PROVE  /\ (q + 1) * p = q * p + p
           /\ ((q + 1) * p) % p = 0
           /\ (q * p + (p + p)) % p = 0
           /\ p % p = 0
    BY SMTT(30)

(* The next deadline is the first one on the grid after now.                 *)
LEMMA NextDeadlineFits ==
    ASSUME now \in Nat, deadline \in Nat, deadline <= now
    PROVE  /\ NextDeadline \in Nat
           /\ now < NextDeadline
           /\ NextDeadline <= now + Period
           /\ (NextDeadline - deadline) % Period = 0
<1> DEFINE next == deadline + Period
           q == (now - next) \div Period
<1>0. Period \in Nat \ {0}
  BY LoopAssumption
<1>1. next \in Nat
  BY <1>0
<1>2. CASE next <= now
  <2>1. now - next \in Nat
    BY <1>1, <1>2
  <2>2. /\ q \in Nat
        /\ q * Period \in Nat
        /\ q * Period <= now - next
        /\ now - next < q * Period + Period
    BY <1>0, <2>1, DivBounds
  <2>3. NextDeadline = next + (q + 1) * Period
    BY <1>2 DEF NextDeadline
  <2> HIDE DEF q
  <2>4. (q + 1) * Period = q * Period + Period /\ (q * Period + (Period + Period)) % Period = 0
    BY <1>0, <2>2, MultipleOfPeriod
  <2>5. NextDeadline - deadline = q * Period + (Period + Period)
    BY <1>0, <2>2, <2>3, <2>4
  <2>6. QED
    BY <1>0, <1>1, <2>2, <2>3, <2>4, <2>5
<1>3. CASE ~(next <= now)
  <2>1. NextDeadline = next
    BY <1>3 DEF NextDeadline
  <2>2. Period % Period = 0
    BY <1>0, MultipleOfPeriod
  <2>3. NextDeadline - deadline = Period
    BY <1>0, <2>1
  <2>4. QED
    BY <1>0, <1>1, <1>3, <2>1, <2>2, <2>3
<1>4. QED
  BY <1>2, <1>3

-----------------------------------------------------------------------------
LEMMA LoopInitInv == LoopInit => LoopInv
<1> SUFFICES ASSUME LoopInit PROVE LoopInv
  OBVIOUS
<1>1. context = [tick |-> -1, ns |-> -1]
  BY DEF LoopInit, None
<1>2. context \in [tick : Nat \cup {None}, ns : 0 .. MaxTime \cup {None}]
  BY <1>1 DEF None
<1>3. context.tick = -1 /\ context.ns = -1
  BY <1>1
<1>4. LoopTypeOK
  <2>1. stop \in BOOLEAN /\ stopSeen \in BOOLEAN
    BY DEF LoopInit
  <2>2. /\ now \in 0 .. MaxTime /\ readTime \in 0 .. MaxTime
        /\ tickId \in Nat /\ late \in Nat
        /\ deadline \in 0 .. MaxTime + Period
    BY LoopAssumption DEF LoopInit
  <2>3. tickTime \in 0 .. MaxTime \cup {None}
    BY DEF LoopInit
  <2>4. /\ pc \in Steps
        /\ condition \in {"LIVE", "FAULT", "SHUTDOWN"}
        /\ output \in {"UNOPENED", "OPEN", "CLOSED"}
        /\ outcome \in Outcomes
    BY DEF LoopInit, Steps, Outcomes
  <2>5. QED
    BY <1>2, <2>1, <2>2, <2>3, <2>4 DEF LoopTypeOK
<1>5. OwnerInv /\ StopInv
  BY DEF LoopInit, OwnerInv, StopInv
<1>6. ContextInv
  BY <1>3 DEF LoopInit, ContextInv, None
<1>7. QED
  BY <1>4, <1>5, <1>6 DEF LoopInv

LEMMA LoopStepInv ==
    ASSUME LoopInv, [LoopNext]_runtimeVars
    PROVE  LoopInv'
<1> USE LoopAssumption DEF None
<1> DEFINE Facts == LoopTypeOK /\ OwnerInv /\ ContextInv /\ StopInv
<1>0. Facts
  BY DEF LoopInv
<1>1. CASE Begin
  BY <1>0, <1>1, SMTT(30)
  DEF Begin, LoopInv, LoopTypeOK, OwnerInv, ContextInv, StopInv, Steps, Outcomes
<1>2. CASE Head
  BY <1>0, <1>2, SMTT(30)
  DEF Head, LoopInv, LoopTypeOK, OwnerInv, ContextInv, StopInv, Steps, Outcomes, callVars
<1>3. CASE WakeUp
  BY <1>0, <1>3, SMTT(30)
  DEF WakeUp, LoopInv, LoopTypeOK, OwnerInv, ContextInv, StopInv, Steps, Outcomes, callVars
<1>4. CASE CallRefused
  BY <1>0, <1>4, SMTT(30)
  DEF CallRefused, End, LoopInv, LoopTypeOK, OwnerInv, ContextInv, StopInv, Steps, Outcomes,
      callVars, loopVars
<1>5. CASE CallTick
  BY <1>0, <1>5, SMTT(30)
  DEF CallTick, Raises, End, Ticks, LoopInv, LoopTypeOK, OwnerInv, ContextInv, StopInv, Steps,
      Outcomes
<1>6. CASE CallShutdown
  BY <1>0, <1>6, SMTT(30)
  DEF CallShutdown, Raises, End, Ticks, LoopInv, LoopTypeOK, OwnerInv, ContextInv, StopInv, Steps,
      Outcomes, loopVars
<1>7. CASE AfterTick
  <2>0. pc = "AFTER" => /\ NextDeadline \in Nat
                        /\ NextDeadline <= now + Period
    BY <1>0, NextDeadlineFits DEF LoopTypeOK, ContextInv
  <2>1. /\ pc = "AFTER" /\ pc' \in {"HEAD", "CLOSE"}
        /\ pc' = "HEAD" => condition = "LIVE" /\ tickId' = tickId + 1 /\ tickTime' = readTime
        /\ tickId' \in {tickId, tickId + 1}
        /\ tickTime' \in {tickTime, readTime}
        /\ deadline' \in {deadline, NextDeadline}
        /\ outcome' \in Outcomes
    BY <1>0, <1>7 DEF AfterTick, End, Faulted, LoopTypeOK, OwnerInv, Outcomes
  <2>2. UNCHANGED <<now, stop, stopSeen, readTime, condition, output, context, late>>
    BY <1>7 DEF AfterTick, callVars
  <2>3. deadline' \in 0 .. MaxTime + Period
    BY <1>0, <2>0, <2>1 DEF LoopTypeOK
  <2>4. LoopTypeOK'
    <3>1. tickTime' \in 0 .. MaxTime \cup {None} /\ tickId' \in Nat /\ pc' \in Steps
      BY <1>0, <2>1 DEF LoopTypeOK, Steps
    <3>2. QED
      BY <1>0, <2>1, <2>2, <2>3, <3>1 DEF LoopTypeOK
  <2>5. OwnerInv'
    BY <1>0, <2>1, <2>2 DEF OwnerInv
  <2>6. ContextInv'
    BY <1>0, <2>1, <2>2 DEF ContextInv, LoopTypeOK
  <2>7. StopInv'
    BY <1>0, <2>1, <2>2 DEF StopInv
  <2>8. QED
    BY <2>4, <2>5, <2>6, <2>7 DEF LoopInv
<1>8. CASE Close
  BY <1>0, <1>8, SMTT(30)
  DEF Close, Released, LoopInv, LoopTypeOK, OwnerInv, ContextInv, StopInv, Steps, Outcomes, loopVars
<1>9. CASE RequestStop
  BY <1>0, <1>9, SMTT(30)
  DEF RequestStop, LoopInv, LoopTypeOK, OwnerInv, ContextInv, StopInv, Steps, Outcomes, loopVars,
      callVars
<1>10. CASE TimePasses
  BY <1>0, <1>10, SMTT(30)
  DEF TimePasses, LoopInv, LoopTypeOK, OwnerInv, ContextInv, StopInv, Steps, Outcomes, loopVars,
      callVars
<1>11. CASE UNCHANGED runtimeVars
  BY <1>0, <1>11, SMTT(30)
  DEF runtimeVars, LoopInv, LoopTypeOK, OwnerInv, ContextInv, StopInv, Steps, Outcomes, loopVars, callVars
<1>12. QED
  BY <1>1, <1>2, <1>3, <1>4, <1>5, <1>6, <1>7, <1>8, <1>9, <1>10, <1>11
  DEF LoopNext, LoopStep, Over

(* LoopInv holds in every reachable state.                                   *)
THEOREM LoopInductive == LoopSpec => []LoopInv
<1>1. LoopInit => LoopInv
  BY LoopInitInv
<1>2. LoopInv /\ [LoopNext]_runtimeVars => LoopInv'
  BY LoopStepInv
<1>3. QED
  BY <1>1, <1>2, PTL DEF LoopSpec

(* Every variable of the loop keeps its type.                                *)
THEOREM LoopTypeCorrect == LoopSpec => []LoopTypeOK
<1>1. LoopInv => LoopTypeOK
  BY DEF LoopInv
<1>2. QED
  BY <1>1, LoopInductive, PTL

(* The loop never ends with the motor output open (run_resident_physical_control's *)
(* `finally: runtime.close()`).                                              *)
THEOREM OutputClosed == LoopSpec => []EndsClosed
<1>1. LoopInv => EndsClosed
  BY DEF LoopInv, OwnerInv, EndsClosed
<1>2. QED
  BY <1>1, LoopInductive, PTL

(* At most one normal tick begins after the stop flag is set.                *)
THEOREM StopPrompt == LoopSpec => []StopIsPrompt
<1>1. LoopInv => StopIsPrompt
  BY DEF LoopInv, StopInv, StopIsPrompt
<1>2. QED
  BY <1>1, LoopInductive, PTL

(* A tick that is over leaves the first deadline on the grid still to come.    *)
THEOREM SlotsKept == LoopSpec => OneTickPerSlot
<1> DEFINE A == pc = "AFTER" /\ pc' = "HEAD" =>
                  /\ now < deadline'
                  /\ deadline' <= now + Period
                  /\ (deadline' - deadline) % Period = 0
<1>1. LoopInv /\ [LoopNext]_runtimeVars => [A]_runtimeVars
  <2> SUFFICES ASSUME LoopInv, LoopNext, pc = "AFTER", pc' = "HEAD"
               PROVE  A
    OBVIOUS
  <2>1. deadline' = NextDeadline
    BY DEF LoopNext, LoopStep, Begin, Head, WakeUp, CallRefused, CallTick, CallShutdown, AfterTick,
           Close, RequestStop, TimePasses, Over, End, runtimeVars
  <2>2. now \in Nat /\ deadline \in Nat /\ deadline <= now
    BY LoopAssumption DEF LoopInv, LoopTypeOK, ContextInv
  <2>3. QED
    BY <2>1, <2>2, NextDeadlineFits
<1>2. QED
  BY <1>1, LoopInductive, PTL DEF LoopSpec, OneTickPerSlot

(* The composition is called with consecutive tick ids and strictly rising     *)
(* times, and never after a fault or a shutdown.                             *)
THEOREM CallsOrdered == LoopSpec => CallsInOrder
<1> DEFINE A == context' # context =>
                  /\ condition = "LIVE"
                  /\ context'.tick = context.tick + 1
                  /\ context'.ns > context.ns
<1>1. LoopInv /\ [LoopNext]_runtimeVars => [A]_runtimeVars
  <2> SUFFICES ASSUME LoopInv, LoopNext, context' # context
               PROVE  A
    OBVIOUS
  <2>1. CallTick \/ CallShutdown
    BY DEF LoopNext, LoopStep, Begin, Head, WakeUp, CallRefused, AfterTick, Close, RequestStop,
           TimePasses, Over, runtimeVars, callVars
  <2>2. pc = "CALL" /\ ~Stuck /\ context'.tick = tickId /\ context'.ns \in {now, readTime}
    BY <2>1 DEF CallTick, CallShutdown
  <2>3. QED
    BY <2>2, LoopAssumption, SMTT(30) DEF LoopInv, LoopTypeOK, OwnerInv, ContextInv, Stuck, None
<1>2. QED
  BY <1>1, LoopInductive, PTL DEF LoopSpec, CallsInOrder
=============================================================================

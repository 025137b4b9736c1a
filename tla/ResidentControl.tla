--------------------------- MODULE ResidentControl ---------------------------
(***************************************************************************)
(* The resident live-control composition (ResidentLiveControlComposition)   *)
(* together with the two stateful parts of a tick that decide whether the   *)
(* robot may move: the tick-order check of TickEngine and the fault latch   *)
(* of FinalSafetyGate (L12).                                                *)
(*                                                                          *)
(* One action is one call of tick_execution() or shutdown_execution(), from *)
(* the L0 read to the single motor write.  What L0, the command gateway and *)
(* the layers L1..L11 return is the environment's choice, made anew in each *)
(* call.                                                                    *)
(***************************************************************************)
EXTENDS Integers, FiniteSets

CONSTANTS
    Devices,        \* the activation-critical device ids
    Revisions,      \* lidar matcher revisions a batch may carry
    Required,       \* required_lidar_preflight_revisions
    MaxAge,         \* max_preflight_age_ns
    TickSteps,      \* how far the caller may advance the tick id
    NsSteps,        \* how far the clock may advance between two calls
    MaxTick         \* bound of the model: the last tick id

ASSUME ControlAssumption ==
    /\ IsFiniteSet(Devices) /\ Devices # {}
    /\ Revisions \subseteq Nat \ {0}
    /\ Required \in Nat \ {0}
    /\ MaxAge \in Nat \ {0}
    /\ TickSteps \subseteq Nat
    /\ NsSteps \subseteq Nat
    /\ MaxTick \in Nat

VARIABLES
    lifecycle,      \* _lifecycle
    active,         \* _active
    rearmPending,   \* _rearm_pending
    faulted,        \* _faulted
    writeFailed,    \* _write_failed
    shutdown,       \* _shutdown
    preflight,      \* _preflight_context
    lastRevision,   \* _last_lidar_preflight_revision, 0 for None
    revisionCount,  \* _lidar_preflight_revision_count
    latched,        \* FinalSafetyGate._fault_latched
    lastContext,    \* TickEngine._last_context
    motor,          \* what the last motor write commanded
    evidence,       \* history: the revisions of the current healthy-idle run
    established     \* history: an ACTIVE tick has been committed

flags == <<rearmPending, faulted, writeFailed, shutdown>>
preflightVars == <<preflight, lastRevision, revisionCount>>
history == <<evidence, established>>
vars == <<lifecycle, active, flags, preflightVars, latched, lastContext,
          motor, history>>

Lifecycles == {"BOOTING", "IDLE", "ACTIVE", "FAULT", "SHUTDOWN"}
HealthStates == {"OK", "DEGRADED", "UNKNOWN", "FAILED", "MISSING"}
Requests == {"ZERO", "CREEP", "MOVE"}
LidarVerdicts == {"CLEAR", "STOP", "INVALID"}
MotorStates == {"LOW", "DRIVEN", "UNKNOWN"}

NoContext == [tick |-> -1, ns |-> -1]
Contexts == [tick : Nat, ns : Nat]
HealthViews == [Devices -> HealthStates]

TypeOK ==
    /\ lifecycle \in Lifecycles
    /\ active \in BOOLEAN
    /\ rearmPending \in BOOLEAN
    /\ faulted \in BOOLEAN
    /\ writeFailed \in BOOLEAN
    /\ shutdown \in BOOLEAN
    /\ preflight \in Contexts \cup {NoContext}
    /\ lastRevision \in Revisions \cup {0}
    /\ revisionCount \in 0 .. Required
    /\ latched \in BOOLEAN
    /\ lastContext \in Contexts \cup {NoContext}
    /\ motor \in MotorStates
    /\ evidence \in SUBSET Revisions
    /\ established \in BOOLEAN

Init ==
    /\ lifecycle = "BOOTING"
    /\ active = FALSE
    /\ rearmPending = FALSE
    /\ faulted = FALSE
    /\ writeFailed = FALSE
    /\ shutdown = FALSE
    /\ preflight = NoContext
    /\ lastRevision = 0
    /\ revisionCount = 0
    /\ latched = FALSE
    /\ lastContext = NoContext
    /\ motor = "LOW"
    /\ evidence = {}
    /\ established = FALSE

-----------------------------------------------------------------------------
(* The contexts a caller may pass next.  The runtime loop counts by one, but *)
(* the composition must survive a caller that does not, or a stuck clock.    *)
NextContexts ==
    IF lastContext = NoContext
    THEN {[tick |-> 0, ns |-> 0]}
    ELSE {c \in {[tick |-> lastContext.tick + dt, ns |-> lastContext.ns + dn] :
                    dt \in TickSteps, dn \in NsSteps} : c.tick <= MaxTick}

OrderFault(ctx) ==
    /\ lastContext # NoContext
    /\ \/ ctx.tick # lastContext.tick + 1
       \/ ctx.ns <= lastContext.ns

(* Mutant: one revision short. *)
MutPreflightComplete == preflight # NoContext /\ revisionCount >= Required - 1

PreflightComplete == preflight # NoContext /\ revisionCount >= Required

(* Mutant: the age bound is forgotten. *)
MutPreflightFresh(ctx) == PreflightComplete /\ ctx.tick = preflight.tick + 1

PreflightFresh(ctx) ==
    /\ PreflightComplete
    /\ ctx.tick = preflight.tick + 1
    /\ ctx.ns - preflight.ns > 0
    /\ ctx.ns - preflight.ns <= MaxAge

ReadyForActive ==
    PreflightComplete /\ ~active /\ ~faulted /\ ~shutdown /\ ~writeFailed

DevicesReady(health) == \A d \in Devices : health[d] = "OK"

(* FinalSafetyGate.finalize, in its order of precedence. *)
Decide(upstream, health, scheduled, request, lidar) ==
    IF upstream \/ latched \/ \E d \in Devices : health[d] = "FAILED"
    THEN "FAULT"
    ELSE IF scheduled # "ACTIVE" \/ ~DevicesReady(health)
    THEN "STOP"
    ELSE IF request # "MOVE" \/ lidar = "CLEAR"
    THEN "ALLOW"
    ELSE IF lidar = "STOP" THEN "STOP" ELSE "FAULT"

-----------------------------------------------------------------------------
(* Mutant: an interruption of the healthy-idle run is ignored. *)
MutResetPreflight == UNCHANGED preflightVars

ResetPreflight ==
    /\ preflight' = NoContext
    /\ lastRevision' = 0
    /\ revisionCount' = 0

(* History: a revision older than one already seen starts a new run. *)
Observed(r) == IF \E v \in evidence : v > r THEN {r} ELSE evidence \cup {r}

CountedRevisions(r) ==
    IF lastRevision = 0 \/ r < lastRevision
    THEN 1
    ELSE IF r > lastRevision
         THEN IF revisionCount + 1 < Required THEN revisionCount + 1 ELSE Required
         ELSE revisionCount

(* _record_healthy_idle; sequence 0 stands for a batch without exactly one  *)
(* lidar_health sample of a positive sequence.                              *)
RecordHealthyIdle(ctx, sequence) ==
    \/ /\ sequence = 0
       /\ ResetPreflight
    \/ /\ sequence # 0
       /\ revisionCount' = CountedRevisions(sequence)
       /\ lastRevision' = sequence
       /\ preflight' = ctx

(* Mutant: the write follows the request, not the decision. *)
MutCommitRequest(ctx, decision, request) ==
    /\ lastContext' = ctx
    /\ latched' = (latched \/ decision = "FAULT")
    /\ motor' = IF request # "ZERO" THEN "DRIVEN" ELSE "LOW"

(* The one L12 commit of a call whose motor write succeeds. *)
Commit(ctx, decision, request) ==
    /\ lastContext' = ctx
    /\ latched' = (latched \/ decision = "FAULT")
    /\ motor' = IF decision = "ALLOW" /\ request # "ZERO" THEN "DRIVEN" ELSE "LOW"

(* _run_fault_tick: an upstream fault reaches L12, the session is over. *)
RunFaultTick(ctx) ==
    /\ Commit(ctx, "FAULT", "ZERO")
    /\ active' = FALSE
    /\ faulted' = TRUE
    /\ lifecycle' = "FAULT"
    /\ UNCHANGED <<rearmPending, writeFailed, preflightVars, history>>

(* A session that was ACTIVE may re-arm; a first activation may not.        *)
MutRearm == UNCHANGED rearmPending
Rearm == rearmPending' = (rearmPending \/ active)

(* Any later call raises before it touches anything.                          *)
Callable == ~shutdown /\ ~writeFailed

-----------------------------------------------------------------------------
(* tick_execution of a session already faulted. *)
FaultedTick ==
    \E ctx \in NextContexts :
        /\ Callable
        /\ faulted
        /\ RunFaultTick(ctx)
        /\ UNCHANGED shutdown

(* L0 raises, or the command gateway raises or answers for another tick. *)
InputErrorTick ==
    \E ctx \in NextContexts :
        /\ Callable
        /\ ~faulted
        /\ RunFaultTick(ctx)
        /\ UNCHANGED shutdown

(* The first motion command of a session came without a fresh preflight. *)
PreflightRequiredTick ==
    \E ctx \in NextContexts :
        /\ Callable
        /\ ~faulted
        /\ ~active
        /\ ~PreflightFresh(ctx)
        /\ ~rearmPending
        /\ RunFaultTick(ctx)
        /\ UNCHANGED shutdown

(* The bookkeeping of tick_execution after a FAULT decision. *)
EndFaulted ==
    /\ faulted' = TRUE
    /\ active' = FALSE
    /\ lifecycle' = "FAULT"
    /\ UNCHANGED <<rearmPending, preflightVars, history>>

(* A motion command with authority: already ACTIVE, or freshly preflighted. *)
MotionTick ==
    \E ctx \in NextContexts, health \in HealthViews, layerFault \in BOOLEAN,
       request \in Requests, lidar \in LidarVerdicts :
        LET decision == Decide(OrderFault(ctx) \/ layerFault, health, "ACTIVE",
                               request, lidar)
        IN  /\ Callable
            /\ ~faulted
            /\ active \/ PreflightFresh(ctx)
            /\ Commit(ctx, decision, request)
            /\ \/ /\ decision = "FAULT"
                  /\ EndFaulted
               \/ /\ decision # "FAULT"
                  /\ active' = TRUE
                  /\ lifecycle' = "ACTIVE"
                  /\ rearmPending' = FALSE
                  /\ established' = TRUE
                  /\ ResetPreflight
                  /\ evidence' = {}
                  /\ UNCHANGED faulted
            /\ UNCHANGED <<writeFailed, shutdown>>

(* A STOP command; or a motion command that re-arming replaces by STOP      *)
(* because the preflight is not complete yet.                               *)
IdleTick ==
    \E ctx \in NextContexts, health \in HealthViews, layerFault \in BOOLEAN,
       sequence \in Revisions \cup {0} :
        LET decision == Decide(OrderFault(ctx) \/ layerFault, health, "IDLE",
                               "ZERO", "CLEAR")
        IN  /\ Callable
            /\ ~faulted
            /\ Commit(ctx, decision, "ZERO")
            /\ \/ /\ decision = "FAULT"
                  /\ EndFaulted
               \/ /\ decision # "FAULT"
                  /\ active' = FALSE
                  /\ lifecycle' = "IDLE"
                  /\ Rearm
                  /\ IF DevicesReady(health)
                     THEN RecordHealthyIdle(ctx, sequence)
                     ELSE ResetPreflight
                  /\ evidence' = IF DevicesReady(health) /\ sequence # 0
                                 THEN Observed(sequence) ELSE {}
                  /\ UNCHANGED <<faulted, established>>
            /\ UNCHANGED <<writeFailed, shutdown>>

(* shutdown_execution: one explicit zero decision past the command source.  *)
ShutdownTick ==
    \E ctx \in NextContexts, health \in HealthViews, layerFault \in BOOLEAN :
        LET decision == Decide(OrderFault(ctx) \/ layerFault, health, "SHUTDOWN",
                               "ZERO", "CLEAR")
        IN  /\ Callable
            /\ Commit(ctx, decision, "ZERO")
            /\ active' = FALSE
            /\ shutdown' = TRUE
            /\ lifecycle' = IF decision = "FAULT" THEN "FAULT" ELSE "SHUTDOWN"
            /\ UNCHANGED <<rearmPending, faulted, writeFailed, preflightVars,
                           history>>

(* shutdown_execution whose L0 read raises. *)
ShutdownInputError ==
    \E ctx \in NextContexts :
        /\ Callable
        /\ RunFaultTick(ctx)
        /\ shutdown' = TRUE

(* The motor write of any of the calls above raises: L12 latches, the error *)
(* leaves the engine before it records the context, the call re-raises.     *)
WriterFailure ==
    /\ Callable
    /\ NextContexts # {}
    /\ latched' = TRUE
    /\ writeFailed' = TRUE
    /\ lifecycle' = "FAULT"
    /\ motor' = "UNKNOWN"
    /\ UNCHANGED <<active, rearmPending, faulted, shutdown, preflightVars,
                   lastContext, history>>

Next ==
    \/ FaultedTick
    \/ InputErrorTick
    \/ PreflightRequiredTick
    \/ MotionTick
    \/ IdleTick
    \/ ShutdownTick
    \/ ShutdownInputError
    \/ WriterFailure

Spec == Init /\ [][Next]_vars

-----------------------------------------------------------------------------
(* Neither a fault, a failed write nor a shutdown has ended the session.    *)
Alive == ~faulted /\ ~writeFailed /\ ~shutdown

(* The revision count the code keeps never runs ahead of the distinct        *)
(* revisions really seen in the current healthy-idle run, and while the      *)
(* session lives a recorded preflight is that of the tick just committed.    *)
EvidenceCounted ==
    preflight # NoContext =>
        /\ lastRevision \in evidence
        /\ \A r \in evidence : r <= lastRevision
        /\ revisionCount <= Cardinality(evidence)

PreflightIsLatest ==
    Alive /\ preflight # NoContext => preflight = lastContext /\ ~active

Bookkeeping ==
    /\ IsFiniteSet(evidence)
    /\ preflight = NoContext => lastRevision = 0 /\ evidence = {}
    /\ EvidenceCounted
    /\ PreflightIsLatest

(* ready_for_active, which the runtime publishes to the operator, never      *)
(* lies: while it is true the next motion command, one tick later and within *)
(* the age bound, is granted.                                               *)
ReadyIsHonest ==
    ReadyForActive =>
        \A ctx \in NextContexts :
            ~OrderFault(ctx) /\ ctx.ns - lastContext.ns <= MaxAge
                => PreflightFresh(ctx)

(* The motor is driven only by a live, established ACTIVE session; no latch, *)
(* earlier fault, failed write or shutdown may coexist with a driving write. *)
DriveNeedsAuthority ==
    motor = "DRIVEN" =>
        active /\ established /\ lifecycle = "ACTIVE" /\ Alive /\ ~latched

(* The latch inside L12 and the lifecycle the loop polls to exit never       *)
(* disagree: no latched gate keeps being ticked, no fault exit is spurious.  *)
LatchIsVisible == latched <=> lifecycle = "FAULT"

(* After an established session an interruption re-arms; it is never the     *)
(* terminal PREFLIGHT_REQUIRED fault of a first activation.                 *)
EstablishedRearms == established /\ Alive /\ ~active => rearmPending

(* IDLE becomes ACTIVE only on Required distinct, increasing revisions seen  *)
(* in healthy idle ticks up to the immediately preceding tick, and in time.  *)
ActivationHasPreflight ==
    [][~active /\ active' =>
         /\ Cardinality(evidence) >= Required
         /\ lastContext'.tick = lastContext.tick + 1
         /\ lastContext'.ns > lastContext.ns
         /\ lastContext'.ns - lastContext.ns <= MaxAge]_vars

(* A fault is terminal: no later call leaves FAULT, grants motion or forgets *)
(* that the writer failed.                                                  *)
FaultIsTerminal ==
    [][lifecycle = "FAULT" =>
         /\ lifecycle' = "FAULT"
         /\ latched'
         /\ motor' # "DRIVEN"
         /\ (writeFailed => UNCHANGED vars)]_vars

(* The detailed state seen as the abstract authority over motion.            *)
Authority == INSTANCE MotionAuthority WITH
    authority <- IF ~Alive THEN "DEAD" ELSE IF active THEN "ACTIVE" ELSE "IDLE",
    moving <- (motor = "DRIVEN")

(* Every step of the resident control is a step of MotionAuthority or leaves *)
(* authority, motion and evidence alone.                                    *)
ImplementsAuthority == Authority!Spec
=============================================================================

---------------------------- MODULE RuntimeLoop ----------------------------
(***************************************************************************)
(* The resident runtime loop (run_resident_physical_control) over the         *)
(* composition it owns: when it ticks, when it stops, and that it never ends    *)
(* with the motor output open.                                             *)
(*                                                                          *)
(* A tick is a call of the composition that ResidentControl models in detail;   *)
(* here it is well, faulted or raises.  The stop flag is set by a signal, at    *)
(* any time.  The clock is read where the code reads it, and may stand still.   *)
(* The names are its own (LoopInit, LoopSpec, ...): one proof module extends    *)
(* this module and ResidentControl.                                        *)
(***************************************************************************)
EXTENDS Integers

CONSTANTS
    Period,     \* tick_period_ns
    MaxTime     \* bound of the model: the clock

ASSUME LoopAssumption ==
    /\ Period \in Nat \ {0}
    /\ MaxTime \in Nat

None == -1

VARIABLES
    pc,         \* where the loop is
    now,        \* the clock
    stop,       \* the stop flag
    stopSeen,   \* shutdown_requested
    readTime,   \* now_ns
    tickId,     \* tick_id
    tickTime,   \* previous_tick_ns
    deadline,   \* next_deadline_ns
    condition,  \* the composition's lifecycle, as far as the loop looks at it
    output,     \* the motor output
    outcome,    \* what the loop returns or raises
    context,    \* the context of the last call of the composition
    late        \* history: normal ticks begun with the stop flag set

loopVars == <<stopSeen, readTime, tickId, tickTime, deadline>>
callVars == <<condition, output, context, late>>
runtimeVars == <<pc, now, stop, loopVars, callVars, outcome>>

Steps == {"BEGIN", "HEAD", "SLEEP", "CALL", "AFTER", "CLOSE", "OUT"}
Outcomes == {"NONE", "NOT_STARTED", "STOPPED", "SHUTDOWN_FAULT", "RUNTIME_FAULT", "RAISED"}

LoopTypeOK ==
    /\ pc \in Steps
    /\ now \in 0 .. MaxTime
    /\ stop \in BOOLEAN
    /\ stopSeen \in BOOLEAN
    /\ readTime \in 0 .. MaxTime
    /\ tickId \in Nat
    /\ tickTime \in 0 .. MaxTime \cup {None}
    /\ deadline \in 0 .. MaxTime + Period
    /\ condition \in {"LIVE", "FAULT", "SHUTDOWN"}
    /\ output \in {"UNOPENED", "OPEN", "CLOSED"}
    /\ outcome \in Outcomes
    /\ context \in [tick : Nat \cup {None}, ns : 0 .. MaxTime \cup {None}]
    /\ late \in Nat

LoopInit ==
    /\ pc = "BEGIN"
    /\ now = 0
    /\ stop \in BOOLEAN
    /\ stopSeen = FALSE
    /\ readTime = 0
    /\ tickId = 0
    /\ tickTime = None
    /\ deadline = 0
    /\ condition = "LIVE"
    /\ output = "UNOPENED"
    /\ outcome = "NONE"
    /\ context = [tick |-> None, ns |-> None]
    /\ late = 0

-----------------------------------------------------------------------------
RequestStop ==
    /\ ~stop
    /\ stop' = TRUE
    /\ UNCHANGED <<pc, now, loopVars, callVars, outcome>>

TimePasses ==
    /\ now < MaxTime
    /\ now' = now + 1
    /\ UNCHANGED <<pc, stop, loopVars, callVars, outcome>>

(* Mutant: a shutdown that faults is tried again. *)
MutEnd(result) ==
    /\ pc' = IF result = "SHUTDOWN_FAULT" THEN "HEAD" ELSE "CLOSE"
    /\ outcome' = result

End(result) == pc' = "CLOSE" /\ outcome' = result

(* The composition is built, or gives the output back and raises.            *)
Begin ==
    /\ pc = "BEGIN"
    /\ \/ /\ stop
          /\ pc' = "OUT"
          /\ outcome' = "NOT_STARTED"
          /\ UNCHANGED <<output, readTime, deadline>>
       \/ /\ ~stop
          /\ readTime' = now
          /\ deadline' = now
          /\ \/ pc' = "HEAD" /\ output' = "OPEN" /\ UNCHANGED outcome
             \/ pc' = "OUT" /\ output' \in {"UNOPENED", "CLOSED"} /\ outcome' = "RAISED"
    /\ UNCHANGED <<now, stop, stopSeen, tickId, tickTime, condition, context, late>>

Head ==
    /\ pc = "HEAD"
    /\ stop \/ deadline <= MaxTime      \* bound of the model
    /\ stopSeen' = stop
    /\ readTime' = now
    /\ pc' = IF ~stop /\ now < deadline THEN "SLEEP" ELSE "CALL"
    /\ UNCHANGED <<now, stop, tickId, tickTime, deadline, callVars, outcome>>

(* A signal does not shorten the sleep.  After it the flag comes first: when   *)
(* it is set the clock is not read again.                                   *)
WakeUp ==
    /\ pc = "SLEEP"
    /\ now >= deadline
    /\ stopSeen' = stop
    /\ readTime' = IF stop THEN readTime ELSE now
    /\ pc' = "CALL"
    /\ UNCHANGED <<now, stop, tickId, tickTime, deadline, callVars, outcome>>

Stuck == tickTime # None /\ readTime <= tickTime

(* Mutant: the stop flag is looked at only once the composition has faulted. *)
MutTicks == ~stopSeen \/ condition = "LIVE"

Ticks == ~stopSeen

(* The clock did not advance, or begin_tick raises on a dead input worker.     *)
CallRefused ==
    /\ pc = "CALL"
    /\ Stuck \/ Ticks
    /\ End("RAISED")
    /\ UNCHANGED <<now, stop, loopVars, callVars>>

(* A write that fails closes the output, then raises.                        *)
Raises == output' \in {"OPEN", "CLOSED"} /\ End("RAISED")

(* begin_tick reads the clock once more for the context.                     *)
CallTick ==
    /\ pc = "CALL"
    /\ ~Stuck
    /\ Ticks
    /\ readTime' = now
    /\ context' = [tick |-> tickId, ns |-> now]
    /\ late' = late + (IF stop THEN 1 ELSE 0)
    /\ \/ /\ pc' = "AFTER"
          /\ condition' \in {"LIVE", "FAULT"}
          /\ UNCHANGED <<output, outcome>>
       \/ /\ condition' \in {condition, "FAULT"}
          /\ Raises
    /\ UNCHANGED <<now, stop, stopSeen, tickId, tickTime, deadline>>

CallShutdown ==
    /\ pc = "CALL"
    /\ ~Stuck
    /\ ~Ticks
    /\ context' = [tick |-> tickId, ns |-> readTime]
    /\ \/ condition' = "SHUTDOWN" /\ End("STOPPED") /\ UNCHANGED output
       \/ condition' = "FAULT" /\ End("SHUTDOWN_FAULT") /\ UNCHANGED output
       \/ condition' \in {condition, "FAULT", "SHUTDOWN"} /\ Raises
    /\ UNCHANGED <<now, stop, loopVars, late>>

(* Mutant: a missed deadline is repeated, not skipped. *)
MutNextDeadline == deadline + Period

NextDeadline ==
    LET next == deadline + Period
    IN  IF next <= now THEN next + ((now - next) \div Period + 1) * Period ELSE next

Faulted == condition = "FAULT"

(* The planner is handed its request, the observers see the tick and may       *)
(* raise; a fault ends the loop; the next deadline that is not past is next.   *)
AfterTick ==
    /\ pc = "AFTER"
    /\ \/ /\ End("RAISED")
          /\ UNCHANGED <<tickId, tickTime, deadline>>
       \/ /\ tickTime' = readTime
          /\ \/ /\ Faulted
                /\ End("RUNTIME_FAULT")
                /\ UNCHANGED <<tickId, deadline>>
             \/ /\ ~Faulted
                /\ pc' = "HEAD"
                /\ tickId' = tickId + 1
                /\ deadline' = NextDeadline
                /\ UNCHANGED outcome
    /\ UNCHANGED <<now, stop, stopSeen, readTime, callVars>>

(* Mutant: an output is closed only after an orderly shutdown. *)
MutReleased == IF condition = "SHUTDOWN" THEN "CLOSED" ELSE output

Released == "CLOSED"

(* `finally: runtime.close()`, which closes the output also when it raises.    *)
Close ==
    /\ pc = "CLOSE"
    /\ output' = Released
    /\ pc' = "OUT"
    /\ UNCHANGED <<now, stop, loopVars, condition, context, late, outcome>>

Over == pc = "OUT" /\ UNCHANGED runtimeVars

LoopStep ==
    \/ Begin
    \/ Head
    \/ WakeUp
    \/ CallRefused
    \/ CallTick
    \/ CallShutdown
    \/ AfterTick
    \/ Close

LoopNext == LoopStep \/ RequestStop \/ TimePasses \/ Over

LoopSpec == LoopInit /\ [][LoopNext]_runtimeVars

(* The loop runs and time passes.                                           *)
FairLoopSpec == LoopSpec /\ WF_runtimeVars(LoopStep) /\ WF_runtimeVars(TimePasses)

-----------------------------------------------------------------------------
(* However the loop ends, the motor output was closed, or never opened: "then   *)
(* release every physical capability".                                      *)
EndsClosed == pc = "OUT" => output # "OPEN"

(* A stop request is followed by at most one more normal tick, the one that was *)
(* past its look at the flag.                                               *)
StopIsPrompt == late <= 1

(* When a tick is over the next deadline is the first one on the grid that is   *)
(* still to come: a late tick is skipped, never made up for by a burst.       *)
OneTickPerSlot ==
    [][pc = "AFTER" /\ pc' = "HEAD" =>
         /\ now < deadline'
         /\ deadline' <= now + Period
         /\ (deadline' - deadline) % Period = 0]_runtimeVars

(* The calls are in the order ResidentControl asks for: consecutive tick ids,   *)
(* strictly increasing times, none after a fault or a shutdown.               *)
CallsInOrder ==
    [][context' # context =>
         /\ condition = "LIVE"
         /\ context'.tick = context.tick + 1
         /\ context'.ns > context.ns]_runtimeVars

(* A stop request ends the loop, whatever the composition then does.         *)
StopEnds == stop ~> pc = "OUT"
=============================================================================

-------------------------- MODULE MultirateInputs --------------------------
(***************************************************************************)
(* L0 acquisition: worker lanes poll the devices at their own rates and        *)
(* publish snapshots; the control tick stamps its context and freezes the       *)
(* newest snapshot of every device under the publication lock.  Each critical   *)
(* device has a lane of its own, the auxiliary ones share one.  A read of a     *)
(* device may take any time, fail, or never return.                          *)
(***************************************************************************)
EXTENDS Integers, Sequences, FiniteSets

CONSTANTS
    Critical,       \* critical_device_ids
    Auxiliary,      \* the other devices
    Period,         \* SourcePeriod.period_ns, the same for all here
    HistorySize,    \* history_size
    MaxAge,         \* max_snapshot_age_ns
    MaxTime         \* bound of the model: the clock

ASSUME InputAssumption ==
    /\ IsFiniteSet(Critical) /\ IsFiniteSet(Auxiliary)
    /\ Critical \cap Auxiliary = {}
    /\ Period \in Nat \ {0}
    /\ HistorySize \in Nat \ {0}
    /\ MaxAge \in Nat \ {0}
    /\ MaxTime \in Nat

Devices == Critical \cup Auxiliary
Lanes == {{d} : d \in Critical} \cup ({Auxiliary} \ {{}})
AuxLane == Auxiliary
NoLane == {}

VARIABLES
    now,        \* the clock
    sequence,   \* _SourceState.sequence
    due,        \* _SourceState.next_due_ns
    history,    \* _SourceState.history
    lane,       \* where each worker is, what it polls, since when, what it got
    todo,       \* what the worker found due and has not polled yet
    lock,       \* the lane that holds _publication_lock
    workerFailed, \* _worker_failure is set
    auxFailed,  \* _aux_failure is set
    stop,       \* _stop
    phase,      \* the reader: being built, open, given up, closing, closed
    batch       \* _closed_batch: its time, its snapshots, its health

laneVars == <<sequence, due, history, lane, todo, lock>>
inputVars == <<now, laneVars, workerFailed, auxFailed, stop, phase, batch>>

Times == 0 .. MaxTime
LaneSteps == {"IDLE", "READING", "READ", "PUBLISHING", "ENDED"}
NoBatch == [ns |-> -1, cut |-> [d \in Devices |-> 0], health |-> [d \in Devices |-> "UNKNOWN"]]

InputTypeOK ==
    /\ now \in Times
    /\ sequence \in [Devices -> Nat]
    /\ due \in [Devices -> 0 .. MaxTime + Period]
    /\ \A d \in Devices : Len(history[d]) <= HistorySize
    /\ \A d \in Devices : \A i \in 1 .. Len(history[d]) :
          history[d][i] \in [seq : Nat, visible : Times, ok : BOOLEAN]
    /\ \A l \in Lanes : /\ lane[l].step \in LaneSteps
                        /\ lane[l].device \in l
                        /\ lane[l].started \in Times
                        /\ lane[l].returned \in Times
                        /\ lane[l].published \in Times
                        /\ lane[l].ok \in BOOLEAN
    /\ todo \in [Lanes -> SUBSET Devices]
    /\ lock \in Lanes \cup {NoLane}
    /\ workerFailed \in BOOLEAN
    /\ auxFailed \in BOOLEAN
    /\ stop \in BOOLEAN
    /\ phase \in {"STARTING", "OPEN", "GIVEN_UP", "CLOSING", "CLOSED"}
    /\ batch.ns \in Times \cup {-1}
    /\ batch.health \in [Devices -> {"OK", "FAILED", "UNKNOWN"}]

(* Between two polls.                                                       *)
IdleLane(l) ==
    [step |-> "IDLE", device |-> CHOOSE d \in l : TRUE, started |-> 0, returned |-> 0,
     published |-> 0, ok |-> TRUE]

EndedLane(l) == [IdleLane(l) EXCEPT !.step = "ENDED"]

InputInit ==
    /\ now = 0
    /\ sequence = [d \in Devices |-> 0]
    /\ due = [d \in Devices |-> 0]
    /\ history = [d \in Devices |-> <<>>]
    /\ lane = [l \in Lanes |-> IdleLane(l)]
    /\ todo = [l \in Lanes |-> {}]
    /\ lock = NoLane
    /\ workerFailed = FALSE
    /\ auxFailed = FALSE
    /\ stop = FALSE
    /\ phase = "STARTING"
    /\ batch = NoBatch

-----------------------------------------------------------------------------
(* The worker of a lane.                                                    *)

(* _lane_loop: one pass over what is due now.                                *)
FindDue(l) ==
    /\ lane[l].step = "IDLE"
    /\ todo[l] = {}
    /\ \/ /\ stop
          /\ lane' = [lane EXCEPT ![l] = EndedLane(l)]
          /\ UNCHANGED todo
       \/ /\ ~stop
          /\ todo' = [todo EXCEPT ![l] = {d \in l : due[d] <= now}]
          /\ todo'[l] # {}
          /\ UNCHANGED lane
    /\ UNCHANGED <<now, sequence, due, history, lock, workerFailed, auxFailed, stop, phase, batch>>

(* _poll_state, up to the device read.                                       *)
StartPoll(l) ==
    /\ lane[l].step = "IDLE"
    /\ todo[l] # {}
    /\ \/ /\ stop
          /\ lane' = [lane EXCEPT ![l] = EndedLane(l)]
          /\ todo' = [todo EXCEPT ![l] = {}]
          /\ UNCHANGED sequence
       \/ /\ ~stop
          /\ \E d \in todo[l] :
               /\ todo' = [todo EXCEPT ![l] = @ \ {d}]
               /\ lane' = [lane EXCEPT ![l] = [@ EXCEPT !.step = "READING", !.device = d,
                                                       !.started = now]]
               /\ sequence' = [sequence EXCEPT ![d] = @ + 1]
    /\ UNCHANGED <<now, due, history, lock, workerFailed, auxFailed, stop, phase, batch>>

(* The read returns a valid snapshot, or an error or an invalid one.         *)
ReadReturns(l) ==
    /\ lane[l].step = "READING"
    /\ \E ok \in BOOLEAN :
         lane' = [lane EXCEPT ![l] = [@ EXCEPT !.step = "READ", !.returned = now, !.ok = ok]]
    /\ UNCHANGED <<now, sequence, due, history, todo, lock, workerFailed, auxFailed, stop, phase,
                   batch>>

(* Mutant: the publication lock is not taken. *)
MutLockFree == TRUE

LockFree == lock = NoLane

(* The publication lock is taken and the clock read once more.               *)
StampPublication(l) ==
    /\ lane[l].step = "READ"
    /\ LockFree
    /\ lock' = l
    /\ lane' = [lane EXCEPT ![l] = [@ EXCEPT !.step = "PUBLISHING", !.published = now]]
    /\ UNCHANGED <<now, sequence, due, history, todo, workerFailed, auxFailed, stop, phase, batch>>

(* _deadline_advance *)
NextDue(anchor, seen) ==
    LET next == anchor + Period
    IN  IF next <= seen THEN next + ((seen - next) \div Period + 1) * Period ELSE next

Anchor(l) ==
    LET d == lane[l].device IN IF due[d] > 0 THEN due[d] ELSE lane[l].started

(* A deque with maxlen drops its oldest item.                                *)
Appended(old, item) == Append(IF Len(old) < HistorySize THEN old ELSE Tail(old), item)

Publish(l) ==
    LET d == lane[l].device
    IN  /\ lane[l].step = "PUBLISHING"
        /\ history' = [history EXCEPT ![d] =
                         Appended(@, [seq |-> sequence[d], visible |-> lane[l].published,
                                      ok |-> lane[l].ok])]
        /\ due' = [due EXCEPT ![d] = NextDue(Anchor(l), lane[l].returned)]
        /\ lane' = [lane EXCEPT ![l] = IdleLane(l)]
        /\ lock' = NoLane
        /\ UNCHANGED <<now, sequence, todo, workerFailed, auxFailed, stop, phase, batch>>

(* The worker ends with an exception: of the clock, or beyond `except Exception`. *)
WorkerFails(l) ==
    /\ \/ lane[l].step \in {"IDLE", "READING"}
       \/ lane[l].step = "READ" /\ LockFree
    /\ lane' = [lane EXCEPT ![l] = EndedLane(l)]
    /\ IF l = AuxLane
       THEN auxFailed' = TRUE /\ UNCHANGED <<workerFailed, stop>>
       ELSE workerFailed' = TRUE /\ stop' = TRUE /\ UNCHANGED auxFailed
    /\ UNCHANGED <<now, sequence, due, history, todo, lock, phase, batch>>

-----------------------------------------------------------------------------
(* The control thread.                                                      *)

Primed == \A d \in Critical : history[d] # <<>>

(* _wait_for_critical_prime: every critical device has published, or the      *)
(* constructor gives up.                                                    *)
Construct ==
    /\ phase = "STARTING"
    /\ \/ /\ Primed /\ ~workerFailed
          /\ phase' = "OPEN"
          /\ UNCHANGED stop
       \/ /\ phase' = "GIVEN_UP"
          /\ stop' = TRUE
    /\ UNCHANGED <<now, laneVars, workerFailed, auxFailed, batch>>

(* _select_visible: the newest snapshot that is not later than the context.   *)
Visible(d, ns) == {i \in 1 .. Len(history[d]) : history[d][i].visible <= ns}

Newest(d, ns) == CHOOSE i \in Visible(d, ns) : \A j \in Visible(d, ns) : j <= i

(* Mutant: an expired stream keeps its last health. *)
MutHealth(d, ns) ==
    IF Visible(d, ns) = {} THEN "UNKNOWN"
    ELSE IF history[d][Newest(d, ns)].ok THEN "OK" ELSE "FAILED"

Health(d, ns) ==
    IF Visible(d, ns) = {} THEN "UNKNOWN"
    ELSE IF d \in Auxiliary /\ auxFailed THEN "FAILED"
    ELSE IF ns - history[d][Newest(d, ns)].visible > MaxAge THEN "UNKNOWN"
    ELSE IF history[d][Newest(d, ns)].ok THEN "OK" ELSE "FAILED"

Closure(ns) ==
    [ns |-> ns,
     cut |-> [d \in Devices |-> IF Visible(d, ns) = {} THEN 0
                                ELSE history[d][Newest(d, ns)].seq],
     health |-> [d \in Devices |-> Health(d, ns)]]

Readable == ~workerFailed

(* begin_tick: stamped and frozen under the lock, so in one step.  The failure  *)
(* flags are not under that lock: a worker that dies meanwhile counts as dying  *)
(* after the tick.                                                          *)
BeginTick ==
    /\ phase = "OPEN"
    /\ LockFree
    /\ Readable
    /\ batch' = Closure(now)
    /\ UNCHANGED <<now, laneVars, workerFailed, auxFailed, stop, phase>>

CloseInputs ==
    /\ phase = "OPEN"
    /\ phase' = "CLOSING"
    /\ stop' = TRUE
    /\ UNCHANGED <<now, laneVars, workerFailed, auxFailed, batch>>

(* Mutant: close() does not look whether a worker is left. *)
MutJoined == TRUE

Joined == \A l \in Lanes : lane[l].step = "ENDED"

(* close() returns when the workers ended; it raises when one is left.        *)
FinishClose ==
    /\ phase = "CLOSING"
    /\ phase' = IF Joined THEN "CLOSED" ELSE "GIVEN_UP"
    /\ UNCHANGED <<now, laneVars, workerFailed, auxFailed, stop, batch>>

TimePasses ==
    /\ now < MaxTime
    /\ now' = now + 1
    /\ UNCHANGED <<laneVars, workerFailed, auxFailed, stop, phase, batch>>

-----------------------------------------------------------------------------
LaneStep(l) ==
    \/ FindDue(l)
    \/ StartPoll(l)
    \/ ReadReturns(l)
    \/ StampPublication(l)
    \/ Publish(l)
    \/ WorkerFails(l)

InputNext ==
    \/ \E l \in Lanes : LaneStep(l)
    \/ Construct
    \/ BeginTick
    \/ CloseInputs
    \/ FinishClose
    \/ TimePasses

InputSpec == InputInit /\ [][InputNext]_inputVars

-----------------------------------------------------------------------------
(* "Atomically stamp and freeze a control input against publication": no        *)
(* snapshot that was published before the tick is missing from its batch, also  *)
(* none that was being published while the tick began.                       *)
CompleteCut ==
    batch.ns >= 0 =>
        \A d \in Devices : \A i \in 1 .. Len(history[d]) :
            history[d][i].visible < batch.ns => history[d][i].seq <= batch.cut[d]

(* A lane whose worker died, or hangs in a read that began more than MaxAge ago, *)
(* is not OK as a whole: no tick takes a batch that says one of its devices is   *)
(* healthy, the ones that wait behind it included, though the history still      *)
(* holds good snapshots of them.  A batch with a dead critical worker is not     *)
(* taken at all.                                                            *)
LostLaneIsNotOk ==
    [][batch' # batch =>
         \A l \in Lanes :
             \/ lane[l].step = "ENDED"
             \/ lane[l].step = "READING" /\ batch'.ns > lane[l].started + MaxAge
             => \A d \in l : batch'.health[d] # "OK"]_inputVars

(* After close() has returned nothing is published.                          *)
ClosedIsQuiet == [][phase = "CLOSED" => UNCHANGED history]_inputVars
=============================================================================

----------------------------- MODULE MotorSink -----------------------------
(***************************************************************************)
(* The paired GPIO motor sink: the only code that touches the four motor     *)
(* pins, one backend call at a time, any of which may fail.                  *)
(*                                                                          *)
(* Wheel w owns the pins 2w - 1 (in1) and 2w (in2).  A duty is a part of      *)
(* Full; a pin with duty 0 has no PWM transmitter.  A call (construction,     *)
(* write, close) runs through phases, and a phase through the pins in order;  *)
(* a failing call may have taken effect or not.                             *)
(***************************************************************************)
EXTENDS Integers, FiniteSets

CONSTANTS
    WheelCount,
    Full,       \* a duty of 100 per cent
    Outputs,    \* the normalized wheel outputs, in parts of Full
    Decay,      \* MotorChannelPhysicalConfig.pwm_decay_mode of each wheel
    Invert      \* MotorChannelPhysicalConfig.invert of each wheel

Wheels == 1 .. WheelCount
PinCount == 2 * WheelCount
Pins == 1 .. PinCount
Duties == 0 .. Full

ASSUME SinkAssumption ==
    /\ WheelCount \in Nat \ {0}
    /\ Full \in Nat \ {0}
    /\ Outputs \subseteq -Full .. Full
    /\ Decay \in [Wheels -> {"COAST", "BRAKE"}]
    /\ Invert \in [Wheels -> BOOLEAN]

VARIABLES
    tx,         \* backend: the duty of the transmitter on each pin
    level,      \* backend: the level each line would be read at
    phase,      \* what the running call does to the pins
    k,          \* the pin it is at
    call,       \* the call that runs
    outcome,    \* how the last call ended
    frame,      \* the duties of the frame being applied
    initError,  \* the constructor met an error on some pin
    last,       \* _last_allow_directions
    failed,     \* _failed
    closed,     \* _closed
    driven,     \* history: the directions of the frame the transmitters are of
    stuck       \* history: pins on which the emergency path failed both ways

backend == <<tx, level, driven>>
sink == <<initError, last, failed, closed>>
vars == <<backend, sink, phase, k, call, outcome, frame, stuck>>

Idle == "IDLE"
Phases == {Idle, "INIT", "CANCEL", "LOW", "VERIFY", "HOLD", "REVERIFY", "PWM",
           "RELEASE", "EMERGENCY_CANCEL", "EMERGENCY_LOW", "EMERGENCY_RELEASE"}
Calls == {"INIT", "ALLOW", "STOP", "CLOSE"}
Directions == [Wheels -> {-1, 0, 1}]
NoDirections == [w \in Wheels |-> 2]   \* Python's None

TypeOK ==
    /\ tx \in [Pins -> Duties]
    /\ level \in [Pins -> {0, 1}]
    /\ phase \in Phases
    /\ k \in Pins
    /\ call \in Calls
    /\ outcome \in {"RUNNING", "OK", "ERROR"}
    /\ frame \in [Pins -> Duties]
    /\ initError \in BOOLEAN
    /\ last \in Directions \cup {NoDirections}
    /\ failed \in BOOLEAN
    /\ closed \in BOOLEAN
    /\ driven \in Directions \cup {NoDirections}
    /\ stuck \subseteq Pins

-----------------------------------------------------------------------------
(* Planning: from wheel outputs to the duties of the two inputs.            *)
Wheel(p) == (p + 1) \div 2
IsIn1(p) == p % 2 = 1

Size(n) == IF n < 0 THEN -n ELSE n

(* plan_drv8871_pwm.  Braking holds the leading input at full duty.         *)
Duty(p, output) ==
    LET w == Wheel(p)
        out == IF Invert[w] THEN -output ELSE output
        leading == out > 0 <=> IsIn1(p)
    IN  IF out = 0 THEN 0
        ELSE IF Decay[w] = "COAST"
             THEN IF leading THEN Size(out) ELSE 0
             ELSE IF leading THEN Full ELSE Full - Size(out)

Plan(outputs) == [p \in Pins |-> Duty(p, outputs[Wheel(p)])]

(* _channel_direction: which input leads.                                   *)
Direction(w, duties) ==
    LET in1 == duties[2 * w - 1]
        in2 == duties[2 * w]
    IN  IF in1 = 0 /\ in2 = 0 THEN 0
        ELSE IF Decay[w] = "COAST"
             THEN IF in1 > 0 THEN 1 ELSE -1
             ELSE IF in1 = Full THEN 1 ELSE -1

DirectionsOf(duties) == [w \in Wheels |-> Direction(w, duties)]

Zero == [p \in Pins |-> 0]

-----------------------------------------------------------------------------
(* Whatever the lines read before anything was claimed; no transmitter.     *)
Init ==
    /\ tx = Zero
    /\ level \in [Pins -> {0, 1}]
    /\ phase = "INIT"
    /\ k = 1
    /\ call = "INIT"
    /\ outcome = "RUNNING"
    /\ frame = Zero
    /\ initError = FALSE
    /\ last = NoDirections
    /\ failed = FALSE
    /\ closed = FALSE
    /\ driven = NoDirections
    /\ stuck = {}

Enter(p) == phase' = p /\ k' = 1

(* The next pin, or the next phase after the last one.                      *)
Advance(next) ==
    IF k < PinCount THEN k' = k + 1 /\ UNCHANGED phase ELSE Enter(next)

Return(result) ==
    /\ phase' = Idle
    /\ k' = 1
    /\ outcome' = result

(* _emergency_hard_low_and_close: what it does before the first pin.        *)
Emergency ==
    /\ Enter("EMERGENCY_CANCEL")
    /\ failed' = TRUE
    /\ last' = NoDirections

(* The transmitters stand for nothing any more once the last one is gone.   *)
Drives(duties) == driven' = IF duties = Zero THEN NoDirections ELSE driven

(* One pin of the constructor: claim, cancel, low, verify.  An error is kept *)
(* and the next pin is still claimed.                                       *)
InitPin ==
    /\ phase = "INIT"
    /\ \/ level' = [level EXCEPT ![k] = 0] /\ UNCHANGED initError
       \/ \E read \in {0, 1} :
            level' = [level EXCEPT ![k] = read] /\ initError' = TRUE
    /\ IF k < PinCount
       THEN k' = k + 1 /\ UNCHANGED <<phase, last, failed>>
       ELSE IF initError' THEN Emergency ELSE Enter("HOLD") /\ UNCHANGED <<last, failed>>
    /\ UNCHANGED <<tx, driven, closed, call, outcome, frame, stuck>>


(* Mutant: the left wheel is not looked at. *)
MutBreaks(directions) == directions[WheelCount] # last[WheelCount]

Breaks(directions) == directions # last

Writable == phase = Idle /\ ~closed

WriteAllow(outputs) ==
    /\ Writable
    /\ call' = "ALLOW"
    /\ outcome' = "RUNNING"
    /\ frame' = Plan(outputs)
    /\ Enter(IF Breaks(DirectionsOf(Plan(outputs))) THEN "CANCEL" ELSE "PWM")
    /\ UNCHANGED <<backend, sink, stuck>>

(* Mutant: STOP trusts that the transmitters are gone. *)
MutHardLow == "LOW"

HardLow == "CANCEL"

(* A STOP or FAULT frame.                                                   *)
WriteStop ==
    /\ Writable
    /\ call' = "STOP"
    /\ outcome' = "RUNNING"
    /\ Enter(HardLow)
    /\ UNCHANGED <<backend, sink, frame, stuck>>

Close ==
    /\ Writable
    /\ call' = "CLOSE"
    /\ outcome' = "RUNNING"
    /\ Enter(HardLow)
    /\ UNCHANGED <<backend, sink, frame, stuck>>

-----------------------------------------------------------------------------
(* The phases of _hard_low.  A cancelled pin is left at either level.       *)
CancelPin ==
    /\ phase = "CANCEL"
    /\ tx' = [tx EXCEPT ![k] = 0]
    /\ IF tx[k] = 0 THEN UNCHANGED level
       ELSE \E read \in {0, 1} : level' = [level EXCEPT ![k] = read]
    /\ Drives(tx')
    /\ Advance("LOW")
    /\ UNCHANGED <<sink, call, outcome, frame, stuck>>

(* The write may succeed and the line stay high.                            *)
LowPin ==
    /\ phase = "LOW"
    /\ \E read \in {0, level[k]} : level' = [level EXCEPT ![k] = read]
    /\ Advance("VERIFY")
    /\ UNCHANGED <<tx, driven, sink, call, outcome, frame, stuck>>

(* Mutant: the readback is not compared. *)
MutVerified == TRUE

Verified == level[k] = 0

VerifyPin ==
    /\ phase = "VERIFY"
    /\ Verified
    /\ Advance(IF call = "ALLOW" THEN "PWM" ELSE "HOLD")
    /\ UNCHANGED <<backend, sink, call, outcome, frame, stuck>>

(* The driver needs time to fall asleep; a line may rise meanwhile.         *)
Hold ==
    /\ phase = "HOLD"
    /\ \E read \in [Pins -> {0, 1}] :
          level' = [p \in Pins |-> IF level[p] = 1 THEN 1 ELSE read[p]]
    /\ Enter("REVERIFY")
    /\ UNCHANGED <<tx, driven, sink, call, outcome, frame, stuck>>

ReverifyPin ==
    /\ phase = "REVERIFY"
    /\ Verified
    /\ IF k < PinCount THEN k' = k + 1 /\ UNCHANGED <<phase, outcome, last>>
       ELSE IF call = "CLOSE"
            THEN Enter("RELEASE") /\ last' = NoDirections /\ UNCHANGED outcome
            ELSE Return("OK") /\ last' = NoDirections
    /\ UNCHANGED <<backend, initError, failed, closed, call, frame, stuck>>

Skipped(p) == frame[p] = 0

(* _apply_allow_duties, one pin; after the last one write() returns.        *)
PwmPin ==
    /\ phase = "PWM"
    /\ IF Skipped(k) THEN UNCHANGED <<tx, driven>>
       ELSE /\ tx' = [tx EXCEPT ![k] = frame[k]]
            /\ driven' = DirectionsOf(frame)
    /\ IF k < PinCount THEN k' = k + 1 /\ UNCHANGED <<phase, outcome, last>>
       ELSE Return("OK") /\ last' = DirectionsOf(frame)
    /\ UNCHANGED <<level, initError, failed, closed, call, frame, stuck>>

Release ==
    /\ phase = "RELEASE"
    /\ closed' = TRUE
    /\ Return("OK")
    /\ UNCHANGED <<backend, initError, last, failed, call, frame, stuck>>

(* A backend call of a normal phase fails, with or without its effect.      *)
Fails ==
    /\ phase \in {"CANCEL", "LOW", "VERIFY", "HOLD", "REVERIFY", "PWM", "RELEASE"}
    /\ \/ UNCHANGED <<tx, driven>>
       \/ /\ phase = "CANCEL"
          /\ tx' = [tx EXCEPT ![k] = 0]
          /\ Drives(tx')
       \/ /\ phase = "PWM"
          /\ ~Skipped(k)
          /\ tx' = [tx EXCEPT ![k] = frame[k]]
          /\ driven' = DirectionsOf(frame)
    /\ \E read \in {0, 1} : level' = [level EXCEPT ![k] = read]
    /\ Emergency
    /\ UNCHANGED <<initError, closed, call, outcome, frame, stuck>>

-----------------------------------------------------------------------------
(* The emergency path swallows every error.                                 *)

(* Mutant: a pin that cannot be cancelled is not freed. *)
MutFreed(p) == FALSE

(* gpio_free takes the transmitter with it, unless it fails too.            *)
Freed(p) == p \notin stuck'

EmergencyCancelPin ==
    /\ phase = "EMERGENCY_CANCEL"
    /\ \E cancelled \in BOOLEAN :
         /\ stuck' \in {stuck} \cup (IF cancelled THEN {} ELSE {stuck \cup {k}})
         /\ tx' = IF cancelled \/ Freed(k) THEN [tx EXCEPT ![k] = 0] ELSE tx
    /\ Drives(tx')
    /\ \E read \in {0, 1} : level' = [level EXCEPT ![k] = read]
    /\ Advance("EMERGENCY_LOW")
    /\ UNCHANGED <<sink, call, outcome, frame>>

(* The write, its verification and the second look after the hold.          *)
EmergencyLowPin ==
    /\ phase = "EMERGENCY_LOW"
    /\ \E read \in {0, level[k]} : level' = [level EXCEPT ![k] = read]
    /\ Advance("EMERGENCY_RELEASE")
    /\ UNCHANGED <<tx, driven, sink, call, outcome, frame, stuck>>

EmergencyRelease ==
    /\ phase = "EMERGENCY_RELEASE"
    /\ closed' = TRUE
    /\ Return("ERROR")
    /\ UNCHANGED <<backend, initError, last, failed, call, frame, stuck>>

(* A closed sink raises or returns at once, for ever.                       *)
Closed == closed /\ phase = Idle /\ UNCHANGED vars

-----------------------------------------------------------------------------
Proceed ==
    \/ InitPin
    \/ CancelPin
    \/ LowPin
    \/ VerifyPin
    \/ Hold
    \/ ReverifyPin
    \/ PwmPin
    \/ Release
    \/ Fails
    \/ EmergencyCancelPin
    \/ EmergencyLowPin
    \/ EmergencyRelease

Next ==
    \/ Proceed
    \/ \E outputs \in [Wheels -> Outputs] : WriteAllow(outputs)
    \/ WriteStop
    \/ Close
    \/ Closed

Spec == Init /\ [][Next]_vars

-----------------------------------------------------------------------------
AllOff == tx = Zero /\ \A p \in Pins : level[p] = 0

(* The two inputs of a coasting channel are never driven together, whatever   *)
(* fails in the middle of a reversal.                                       *)
NoCoastConflict ==
    \A w \in Wheels :
        Decay[w] = "COAST" => tx[2 * w - 1] = 0 \/ tx[2 * w] = 0

(* "The first ALLOW and every direction change use a verified                *)
(* break-before-make boundary": when the transmitters begin to stand for other *)
(* directions, no transmitter runs and every line is low.                   *)
BreakBeforeMake ==
    [][driven' # driven /\ driven' # NoDirections => AllOff]_vars

(* A STOP, a close or a construction that returns normally leaves no          *)
(* transmitter and every line low, also after an earlier ALLOW was cut short. *)
StopIsOff ==
    phase = Idle /\ outcome = "OK" /\ call # "ALLOW" => AllOff

(* "Apply one frame or permanently close the sink on physical failure": an    *)
(* ALLOW that returns normally has every pin at the duty of its frame, though  *)
(* transmitters of the previous frame were kept.                            *)
FrameApplied ==
    phase = Idle /\ outcome = "OK" /\ call = "ALLOW" => tx = frame

(* A closed sink leaves a transmitter behind only on a pin whose cancellation  *)
(* and release both failed in the emergency path.                           *)
LeftoverIsStuck ==
    closed => \A p \in Pins : tx[p] > 0 => p \in stuck
=============================================================================

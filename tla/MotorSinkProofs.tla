-------------------------- MODULE MotorSinkProofs --------------------------
(***************************************************************************)
(* Proofs about MotorSink, for any number of wheels, any mix of decay modes    *)
(* and inversions, and any failing calls.                                   *)
(***************************************************************************)
EXTENDS MotorSink, TLAPS

Before == {p \in Pins : p < k}

Cut(S) == \A p \in S : tx[p] = 0

Low(S) == \A p \in S : level[p] = 0

Known(S) == \A p \in S : tx[p] > 0 => p \in stuck

(* What each phase has done, and for which pins.                              *)
PhaseInv ==
    /\ phase = "INIT" => tx = Zero /\ call = "INIT"
    /\ phase = "CANCEL" => Cut(Before)
    /\ phase \in {"LOW", "HOLD"} => tx = Zero
    /\ phase \in {"VERIFY", "REVERIFY"} => tx = Zero /\ Low(Before)
    /\ phase = "RELEASE" => AllOff
    /\ phase = "PWM" => call = "ALLOW"
    /\ phase = "EMERGENCY_CANCEL" => Known(Before)
    /\ phase \in {"EMERGENCY_LOW", "EMERGENCY_RELEASE"} => Known(Pins)
    /\ phase \in {"EMERGENCY_CANCEL", "EMERGENCY_LOW", "EMERGENCY_RELEASE"} => last = NoDirections
    /\ closed => phase = Idle

(* The frame the transmitters are of: none runs without it, and none runs        *)
(* against it.                                                              *)
DrivenInv ==
    /\ driven = NoDirections <=> tx = Zero
    /\ driven # NoDirections =>
          \A w \in Wheels : Decay[w] = "COAST" =>
              /\ tx[2 * w - 1] # 0 => driven[w] = 1
              /\ tx[2 * w] # 0 => driven[w] = -1

(* A kept transmitter is kept because the next frame has its direction.         *)
KeptInv ==
    /\ phase = "PWM" => driven \in {NoDirections, DirectionsOf(frame)}
    /\ phase = Idle /\ last # NoDirections => driven \in {NoDirections, last}
    /\ phase = "PWM" \/ (phase = Idle /\ last # NoDirections) =>
          (driven = NoDirections => AllOff)

OneSided(duties) ==
    \A w \in Wheels : Decay[w] = "COAST" => duties[2 * w - 1] = 0 \/ duties[2 * w] = 0

SinkInv ==
    /\ TypeOK /\ PhaseInv /\ DrivenInv /\ KeptInv /\ OneSided(frame)
    /\ StopIsOff /\ LeftoverIsStuck

-----------------------------------------------------------------------------
(* Planning.                                                                *)
LEMMA PinsOfWheel ==
    ASSUME NEW w \in Wheels
    PROVE  /\ 2 * w - 1 \in Pins /\ 2 * w \in Pins
           /\ Wheel(2 * w - 1) = w /\ Wheel(2 * w) = w
           /\ IsIn1(2 * w - 1) /\ ~IsIn1(2 * w)
BY SinkAssumption DEF Wheels, Pins, PinCount, Wheel, IsIn1

LEMMA WheelOfPin ==
    ASSUME NEW p \in Pins
    PROVE  /\ Wheel(p) \in Wheels
           /\ p = 2 * Wheel(p) - 1 \/ p = 2 * Wheel(p)
BY SinkAssumption DEF Wheels, Pins, PinCount, Wheel

LEMMA PlanType ==
    ASSUME NEW outputs \in [Wheels -> Outputs]
    PROVE  Plan(outputs) \in [Pins -> Duties] /\ OneSided(Plan(outputs))
<1>1. ASSUME NEW w \in Wheels
      PROVE  outputs[w] \in -Full..Full /\ outputs[w] \in Int
  <2>1. Full \in Nat /\ Outputs \subseteq -Full..Full
    BY SinkAssumption
  <2>2. outputs[w] \in Outputs
    OBVIOUS
  <2>3. outputs[w] \in -Full..Full
    BY <2>1, <2>2
  <2>4. \A i \in -Full..Full : i \in Int
    OBVIOUS
  <2>5. QED
    BY <2>3, <2>4
<1>2. ASSUME NEW p \in Pins
      PROVE  Duty(p, outputs[Wheel(p)]) \in Duties
  <2>1. outputs[Wheel(p)] \in -Full..Full
    BY <1>1, WheelOfPin
  <2>2. QED
    BY <2>1, SinkAssumption DEF Duty, Duties, Size
<1>3. ASSUME NEW w \in Wheels, Decay[w] = "COAST"
      PROVE  Plan(outputs)[2 * w - 1] = 0 \/ Plan(outputs)[2 * w] = 0
  <2>1. /\ Plan(outputs)[2 * w - 1] = Duty(2 * w - 1, outputs[w])
        /\ Plan(outputs)[2 * w] = Duty(2 * w, outputs[w])
    BY PinsOfWheel DEF Plan
  <2>2. Duty(2 * w - 1, outputs[w]) = 0 \/ Duty(2 * w, outputs[w]) = 0
    BY <1>1, <1>3, PinsOfWheel DEF Duty
  <2>3. QED
    BY <2>1, <2>2
<1>4. QED
  BY <1>2, <1>3 DEF Plan, OneSided

LEMMA DirectionsType ==
    ASSUME NEW duties
    PROVE  DirectionsOf(duties) \in Directions /\ DirectionsOf(duties) # NoDirections
<1>1. DirectionsOf(duties) \in Directions
  BY DEF DirectionsOf, Direction, Directions
<1>2. 1 \in Wheels
  BY SinkAssumption DEF Wheels
<1>3. DirectionsOf(duties)[1] \in {-1, 0, 1}
  BY <1>1, <1>2 DEF Directions
<1>4. NoDirections[1] = 2
  BY <1>2 DEF NoDirections
<1>5. QED
  BY <1>1, <1>3, <1>4

(* A frame that runs one input of a coasting channel goes that input's way.      *)
LEMMA DirectionOfPin ==
    ASSUME NEW duties \in [Pins -> Duties], OneSided(duties), NEW w \in Wheels, Decay[w] = "COAST"
    PROVE  /\ duties[2 * w - 1] # 0 => DirectionsOf(duties)[w] = 1
           /\ duties[2 * w] # 0 => DirectionsOf(duties)[w] = -1
<1>1. duties[2 * w - 1] \in Nat /\ duties[2 * w] \in Nat
  BY PinsOfWheel, SinkAssumption DEF Duties
<1>2. DirectionsOf(duties)[w] = Direction(w, duties)
  BY DEF DirectionsOf
<1>3. duties[2 * w - 1] = 0 \/ duties[2 * w] = 0
  BY DEF OneSided
<1>4. QED
  BY <1>1, <1>2, <1>3 DEF Direction

-----------------------------------------------------------------------------
LEMMA InitInv == Init => SinkInv
<1> SUFFICES ASSUME Init PROVE SinkInv
  OBVIOUS
<1>1. 1 \in Pins
  BY SinkAssumption DEF Pins, PinCount
<1>2. Zero \in [Pins -> Duties] /\ \A p \in Pins : Zero[p] = 0
  BY SinkAssumption DEF Zero, Duties
<1>3. TypeOK
  BY <1>1, <1>2 DEF Init, TypeOK, Phases, Calls
<1>4. OneSided(frame)
  BY <1>2, PinsOfWheel DEF Init, OneSided
<1>5. QED
  BY <1>2, <1>3, <1>4
  DEF Init, SinkInv, PhaseInv, DrivenInv, KeptInv, StopIsOff, LeftoverIsStuck, Idle

-----------------------------------------------------------------------------
(* One pin after the other.                                                 *)
LEMMA EachPin ==
    ASSUME TypeOK
    PROVE  /\ k \in Pins /\ 1 \in Pins
           /\ k < PinCount => k + 1 \in Pins /\ {p \in Pins : p < k + 1} = Before \cup {k}
           /\ ~(k < PinCount) => Before \cup {k} = Pins
           /\ {p \in Pins : p < 1} = {}
<1>1. k \in Pins /\ PinCount \in Nat /\ PinCount >= 1
  BY SinkAssumption DEF TypeOK, PinCount
<1>2. QED
  BY <1>1 DEF Pins, Before

LEMMA AdvanceStep ==
    ASSUME TypeOK, NEW next, Advance(next)
    PROVE  /\ k' \in Pins
           /\ \/ phase' = phase /\ Before' = Before \cup {k}
              \/ phase' = next /\ Before \cup {k} = Pins /\ Before' = {}
BY EachPin DEF Advance, Enter, Before

(* A transmitter is cancelled: what still runs goes on as its frame.            *)
LEMMA CutStep ==
    ASSUME TypeOK, DrivenInv, tx' = [tx EXCEPT ![k] = 0], Drives(tx')
    PROVE  /\ DrivenInv'
           /\ tx' \in [Pins -> Duties] /\ driven' \in Directions \cup {NoDirections}
           /\ driven' \in {NoDirections, driven}
           /\ tx'[k] = 0 /\ \A p \in Pins : tx'[p] \in {0, tx[p]}
<1>1. k \in Pins /\ 0 \in Duties /\ tx \in [Pins -> Duties]
  BY SinkAssumption DEF TypeOK, Duties
<1>2. tx' \in [Pins -> Duties] /\ tx'[k] = 0 /\ \A p \in Pins : tx'[p] \in {0, tx[p]}
  BY <1>1
<1>3. tx = Zero => tx' = Zero
  BY <1>1, <1>2 DEF Zero
<1>4. driven' \in {NoDirections, driven} /\ (driven' = NoDirections <=> tx' = Zero)
  BY <1>3 DEF Drives, DrivenInv
<1>5. ASSUME driven' # NoDirections, NEW w \in Wheels, Decay[w] = "COAST"
      PROVE  /\ tx'[2 * w - 1] # 0 => driven'[w] = 1
             /\ tx'[2 * w] # 0 => driven'[w] = -1
  BY <1>2, <1>4, <1>5, PinsOfWheel DEF DrivenInv
<1>6. QED
  BY <1>2, <1>4, <1>5 DEF DrivenInv, TypeOK

(* A transmitter is started or changed: whatever else runs is of the same frame's  *)
(* directions.                                                              *)
LEMMA DriveStep ==
    ASSUME TypeOK, DrivenInv, KeptInv, OneSided(frame), phase = "PWM", ~Skipped(k),
           tx' = [tx EXCEPT ![k] = frame[k]], driven' = DirectionsOf(frame)
    PROVE  /\ DrivenInv' /\ driven' # NoDirections
           /\ tx' \in [Pins -> Duties] /\ driven' \in Directions \cup {NoDirections}
<1>1. /\ k \in Pins /\ tx \in [Pins -> Duties] /\ frame \in [Pins -> Duties]
      /\ frame[k] # 0 /\ Zero[k] = 0
  BY DEF TypeOK, Skipped, Zero
<1>2. driven' \in Directions /\ driven' # NoDirections
  BY DirectionsType
<1>3. tx' \in [Pins -> Duties] /\ tx' # Zero
  BY <1>1
<1>4. driven = NoDirections => \A p \in Pins : tx[p] = 0
  BY DEF DrivenInv, Zero
<1>5. driven # NoDirections => driven = driven'
  BY DEF KeptInv
<1>6. ASSUME NEW w \in Wheels, Decay[w] = "COAST"
      PROVE  /\ tx'[2 * w - 1] # 0 => driven'[w] = 1
             /\ tx'[2 * w] # 0 => driven'[w] = -1
  <2>1. /\ frame[2 * w - 1] # 0 => driven'[w] = 1
        /\ frame[2 * w] # 0 => driven'[w] = -1
    BY <1>1, <1>6, DirectionOfPin
  <2>2. /\ tx[2 * w - 1] # 0 => driven'[w] = 1
        /\ tx[2 * w] # 0 => driven'[w] = -1
    BY <1>4, <1>5, <1>6, PinsOfWheel DEF DrivenInv
  <2>3. tx'[2 * w - 1] \in {tx[2 * w - 1], frame[2 * w - 1]}
    BY <1>1, PinsOfWheel
  <2>4. tx'[2 * w] \in {tx[2 * w], frame[2 * w]}
    BY <1>1, PinsOfWheel
  <2>5. QED
    BY <2>1, <2>2, <2>3, <2>4
<1>7. QED
  BY <1>2, <1>3, <1>6 DEF DrivenInv

-----------------------------------------------------------------------------
(* The constructor and the calls.                                            *)
LEMMA InitPinStep ==
    ASSUME SinkInv, InitPin
    PROVE  SinkInv'
<1>0. /\ TypeOK /\ PhaseInv /\ DrivenInv /\ KeptInv /\ OneSided(frame) /\ StopIsOff /\ LeftoverIsStuck
      /\ phase = "INIT" /\ tx = Zero /\ ~closed
  BY DEF SinkInv, PhaseInv, InitPin, Idle
<1>1. /\ UNCHANGED <<tx, driven, closed, call, outcome, frame, stuck>>
      /\ initError' \in BOOLEAN
      /\ level' \in [Pins -> {0, 1}]
  BY <1>0 DEF InitPin, TypeOK
<1>2. /\ k' \in Pins /\ last' \in {last, NoDirections} /\ failed' \in BOOLEAN
      /\ \/ phase' = "INIT"
         \/ phase' = "EMERGENCY_CANCEL" /\ k' = 1 /\ last' = NoDirections
         \/ phase' = "HOLD"
  BY <1>0, EachPin DEF InitPin, Emergency, Enter, TypeOK
<1>3. TypeOK'
  BY <1>0, <1>1, <1>2 DEF TypeOK, Phases
<1>4. phase' = "EMERGENCY_CANCEL" => Known(Before)'
  BY <1>2 DEF Known, Before, Pins
<1>5. PhaseInv'
  BY <1>0, <1>1, <1>2, <1>4 DEF PhaseInv, Idle
<1>6. DrivenInv' /\ OneSided(frame)'
  BY <1>0, <1>1 DEF DrivenInv, OneSided
<1>7. KeptInv' /\ StopIsOff' /\ LeftoverIsStuck'
  BY <1>0, <1>1, <1>2 DEF KeptInv, StopIsOff, LeftoverIsStuck, Idle
<1>8. QED
  BY <1>3, <1>5, <1>6, <1>7 DEF SinkInv

LEMMA CallStep ==
    ASSUME SinkInv, (\E outputs \in [Wheels -> Outputs] : WriteAllow(outputs)) \/ WriteStop \/ Close
    PROVE  SinkInv'
<1>0. /\ TypeOK /\ PhaseInv /\ DrivenInv /\ KeptInv /\ OneSided(frame) /\ StopIsOff /\ LeftoverIsStuck
      /\ phase = Idle /\ ~closed
  BY DEF SinkInv, WriteAllow, WriteStop, Close, Writable
<1>1. /\ UNCHANGED <<tx, level, driven, initError, last, failed, closed, stuck>>
      /\ outcome' = "RUNNING" /\ k' = 1
  BY DEF WriteAllow, WriteStop, Close, Enter, backend, sink
<1>2. CASE WriteStop \/ Close
  <2>1. phase' = "CANCEL" /\ frame' = frame /\ call' \in {"STOP", "CLOSE"}
    BY <1>2 DEF WriteStop, Close, Enter, HardLow
  <2>2. Cut(Before)'
    BY <1>1 DEF Cut, Before, Pins
  <2>3. TypeOK'
    BY <1>0, <1>1, <2>1, EachPin DEF TypeOK, Phases, Calls
  <2>4. PhaseInv' /\ KeptInv' /\ StopIsOff' /\ LeftoverIsStuck'
    BY <1>0, <1>1, <2>1, <2>2 DEF PhaseInv, KeptInv, StopIsOff, LeftoverIsStuck, Idle
  <2>5. DrivenInv' /\ OneSided(frame)'
    BY <1>0, <1>1, <2>1 DEF DrivenInv, OneSided
  <2>6. QED
    BY <2>3, <2>4, <2>5 DEF SinkInv
<1>3. ASSUME NEW outputs \in [Wheels -> Outputs], WriteAllow(outputs)
      PROVE  SinkInv'
  <2>1. frame' = Plan(outputs) /\ call' = "ALLOW"
        /\ phase' = IF Breaks(DirectionsOf(Plan(outputs))) THEN "CANCEL" ELSE "PWM"
    BY <1>3 DEF WriteAllow, Enter
  <2>2. frame' \in [Pins -> Duties] /\ OneSided(frame')
    BY <2>1, PlanType
  <2>3. Cut(Before)'
    BY <1>1 DEF Cut, Before, Pins
  <2>4. TypeOK'
    BY <1>0, <1>1, <2>1, <2>2, EachPin DEF TypeOK, Phases, Calls
  <2>5. phase' = "PWM" => last = DirectionsOf(frame') /\ last # NoDirections
    BY <2>1, DirectionsType DEF Breaks
  <2>6. KeptInv'
    <3>1. phase' = "PWM" => driven \in {NoDirections, DirectionsOf(frame')}
      BY <1>0, <2>5 DEF KeptInv
    <3>2. phase' = "PWM" => (driven = NoDirections => AllOff)
      BY <1>0, <2>5 DEF KeptInv
    <3>3. phase' # Idle
      BY <2>1 DEF Idle
    <3>4. AllOff' = AllOff /\ DirectionsOf(frame)' = DirectionsOf(frame')
      BY <1>1 DEF AllOff
    <3>5. QED
      BY <1>1, <3>1, <3>2, <3>3, <3>4 DEF KeptInv
  <2>7. PhaseInv' /\ StopIsOff' /\ LeftoverIsStuck'
    BY <1>0, <1>1, <2>1, <2>3 DEF PhaseInv, StopIsOff, LeftoverIsStuck, Idle
  <2>8. DrivenInv'
    BY <1>0, <1>1 DEF DrivenInv
  <2>9. QED
    BY <2>2, <2>4, <2>6, <2>7, <2>8 DEF SinkInv
<1>4. QED
  BY <1>2, <1>3

-----------------------------------------------------------------------------
(* The phases of _hard_low.                                                  *)
LEMMA HardLowStep ==
    ASSUME SinkInv, CancelPin \/ LowPin \/ VerifyPin
    PROVE  SinkInv'
<1>0. /\ TypeOK /\ PhaseInv /\ DrivenInv /\ KeptInv /\ OneSided(frame) /\ StopIsOff /\ LeftoverIsStuck
      /\ ~closed
  BY DEF SinkInv, PhaseInv, CancelPin, LowPin, VerifyPin, Idle
<1>1. UNCHANGED <<initError, last, failed, closed, call, outcome, frame, stuck>>
  BY DEF CancelPin, LowPin, VerifyPin, sink
<1>2. OneSided(frame)' /\ LeftoverIsStuck'
  BY <1>0, <1>1 DEF OneSided, LeftoverIsStuck
<1>3. CASE CancelPin
  <2>1. /\ phase = "CANCEL" /\ tx' = [tx EXCEPT ![k] = 0] /\ Drives(tx') /\ Advance("LOW")
        /\ level' \in [Pins -> {0, 1}]
    BY <1>0, <1>3 DEF CancelPin, TypeOK
  <2>2. /\ DrivenInv'
        /\ tx' \in [Pins -> Duties] /\ driven' \in Directions \cup {NoDirections}
        /\ tx'[k] = 0 /\ \A p \in Pins : tx'[p] \in {0, tx[p]}
    BY <1>0, <2>1, CutStep
  <2>3. /\ k' \in Pins
        /\ \/ phase' = "CANCEL" /\ Before' = Before \cup {k}
           \/ phase' = "LOW" /\ Before \cup {k} = Pins
    BY <1>0, <2>1, AdvanceStep
  <2>4. \A p \in Before \cup {k} : tx'[p] = 0
    BY <1>0, <2>1, <2>2 DEF PhaseInv, Cut, Before
  <2>5. phase' = "LOW" => tx' = Zero
    BY <2>2, <2>3, <2>4 DEF Zero
  <2>6. phase' = "CANCEL" => Cut(Before)'
    BY <2>3, <2>4 DEF Cut
  <2>7. TypeOK'
    BY <1>0, <1>1, <2>1, <2>2, <2>3 DEF TypeOK, Phases
  <2>8. PhaseInv' /\ KeptInv' /\ StopIsOff'
    BY <1>0, <1>1, <2>3, <2>5, <2>6 DEF PhaseInv, KeptInv, StopIsOff, Idle
  <2>9. QED
    BY <1>2, <2>2, <2>7, <2>8 DEF SinkInv
<1>4. CASE LowPin
  <2>1. /\ phase = "LOW" /\ tx = Zero /\ UNCHANGED <<tx, driven>> /\ Advance("VERIFY")
        /\ level' \in [Pins -> {0, 1}]
    BY <1>0, <1>4 DEF LowPin, TypeOK, PhaseInv
  <2>2. /\ k' \in Pins
        /\ phase' = "LOW" \/ (phase' = "VERIFY" /\ Before' = {})
    BY <1>0, <2>1, AdvanceStep
  <2>3. TypeOK'
    BY <1>0, <1>1, <2>1, <2>2 DEF TypeOK, Phases
  <2>4. phase' = "VERIFY" => Low(Before)'
    BY <2>2 DEF Low
  <2>5. PhaseInv' /\ KeptInv' /\ StopIsOff'
    BY <1>0, <1>1, <2>1, <2>2, <2>4 DEF PhaseInv, KeptInv, StopIsOff, Idle
  <2>6. DrivenInv'
    BY <1>0, <2>1 DEF DrivenInv
  <2>7. QED
    BY <1>2, <2>3, <2>5, <2>6 DEF SinkInv
<1>5. CASE VerifyPin
  <2>1. /\ phase = "VERIFY" /\ tx = Zero /\ UNCHANGED <<tx, driven, level>> /\ level[k] = 0
        /\ Advance(IF call = "ALLOW" THEN "PWM" ELSE "HOLD")
    BY <1>0, <1>5 DEF VerifyPin, Verified, PhaseInv, backend
  <2>2. /\ k' \in Pins
        /\ \/ phase' = "VERIFY" /\ Before' = Before \cup {k}
           \/ /\ phase' = IF call = "ALLOW" THEN "PWM" ELSE "HOLD"
              /\ Before \cup {k} = Pins
    BY <1>0, <2>1, AdvanceStep
  <2>3. \A p \in Before \cup {k} : level[p] = 0
    BY <1>0, <2>1 DEF PhaseInv, Low
  <2>4. phase' # "VERIFY" => AllOff'
    BY <2>1, <2>2, <2>3 DEF AllOff
  <2>5. phase' = "VERIFY" => Low(Before)'
    BY <2>1, <2>2, <2>3 DEF Low
  <2>6. TypeOK'
    BY <1>0, <1>1, <2>1, <2>2 DEF TypeOK, Phases
  <2>7. driven' = NoDirections /\ tx' = Zero
    BY <1>0, <2>1 DEF DrivenInv
  <2>8. PhaseInv'
    BY <1>0, <1>1, <2>2, <2>5, <2>7 DEF PhaseInv, Idle
  <2>9. KeptInv' /\ StopIsOff'
    BY <2>2, <2>4, <2>7 DEF KeptInv, StopIsOff, Idle
  <2>10. DrivenInv'
    BY <1>0, <2>1 DEF DrivenInv
  <2>11. QED
    BY <1>2, <2>6, <2>8, <2>9, <2>10 DEF SinkInv
<1>6. QED
  BY <1>3, <1>4, <1>5

LEMMA HoldStep ==
    ASSUME SinkInv, Hold \/ ReverifyPin \/ Release
    PROVE  SinkInv'
<1>0. /\ TypeOK /\ PhaseInv /\ DrivenInv /\ KeptInv /\ OneSided(frame) /\ StopIsOff /\ LeftoverIsStuck
      /\ ~closed
  BY DEF SinkInv, PhaseInv, Hold, ReverifyPin, Release, Idle
<1>1. UNCHANGED <<tx, driven, initError, failed, call, frame, stuck>> /\ tx = Zero
  BY <1>0 DEF Hold, ReverifyPin, Release, sink, backend, PhaseInv, AllOff
<1>2. OneSided(frame)' /\ DrivenInv' /\ LeftoverIsStuck' /\ driven = NoDirections
  BY <1>0, <1>1 DEF OneSided, LeftoverIsStuck, DrivenInv, Zero
<1>3. CASE Hold
  <2>1. /\ UNCHANGED <<last, closed, outcome>> /\ phase' = "REVERIFY" /\ k' = 1
    BY <1>3 DEF Hold, Enter, sink
  <2>2. level' \in [Pins -> {0, 1}]
    BY <1>3 DEF Hold
  <2>3. Low(Before)'
    BY <2>1 DEF Low, Before, Pins
  <2>4. TypeOK'
    BY <1>0, <1>1, <2>1, <2>2, EachPin DEF TypeOK, Phases
  <2>5. PhaseInv' /\ KeptInv' /\ StopIsOff'
    BY <1>0, <1>1, <2>1, <2>3 DEF PhaseInv, KeptInv, StopIsOff, Idle
  <2>6. QED
    BY <1>2, <2>4, <2>5 DEF SinkInv
<1>4. CASE ReverifyPin
  <2>1. UNCHANGED <<level, closed>> /\ level[k] = 0 /\ phase = "REVERIFY"
    BY <1>4 DEF ReverifyPin, backend, Verified
  <2>2. \A p \in Before \cup {k} : level[p] = 0
    BY <1>0, <2>1 DEF PhaseInv, Low
  <2>3. CASE k < PinCount
    <3>1. k' = k + 1 /\ UNCHANGED <<phase, outcome, last>>
      BY <1>4, <2>3 DEF ReverifyPin
    <3>2. k' \in Pins /\ Before' = Before \cup {k}
      BY <1>0, <2>3, <3>1, EachPin DEF Before
    <3>3. Low(Before)'
      BY <2>1, <2>2, <3>2 DEF Low
    <3>4. TypeOK'
      BY <1>0, <1>1, <2>1, <3>1, <3>2 DEF TypeOK
    <3>5. PhaseInv' /\ KeptInv' /\ StopIsOff'
      BY <1>0, <1>1, <2>1, <3>1, <3>3 DEF PhaseInv, KeptInv, StopIsOff, Idle
    <3>6. QED
      BY <1>2, <3>4, <3>5 DEF SinkInv
  <2>4. CASE ~(k < PinCount)
    <3>1. /\ k' = 1 /\ last' = NoDirections
          /\ \/ phase' = "RELEASE" /\ outcome' = outcome
             \/ phase' = Idle /\ outcome' = "OK"
      BY <1>4, <2>4 DEF ReverifyPin, Enter, Return
    <3>2. AllOff'
      BY <1>0, <1>1, <2>1, <2>2, <2>4, EachPin DEF AllOff
    <3>3. TypeOK'
      BY <1>0, <1>1, <2>1, <3>1, EachPin DEF TypeOK, Phases, Idle
    <3>4. PhaseInv' /\ KeptInv' /\ StopIsOff'
      BY <1>0, <1>1, <2>1, <3>1, <3>2 DEF PhaseInv, KeptInv, StopIsOff, Idle
    <3>5. QED
      BY <1>2, <3>3, <3>4 DEF SinkInv
  <2>5. QED
    BY <2>3, <2>4
<1>5. CASE Release
  <2>1. /\ UNCHANGED <<level, last>> /\ phase' = Idle /\ k' = 1 /\ outcome' = "OK" /\ closed' = TRUE
        /\ AllOff
    BY <1>0, <1>5 DEF Release, backend, Return, PhaseInv
  <2>2. AllOff'
    BY <1>1, <2>1 DEF AllOff
  <2>3. TypeOK'
    BY <1>0, <1>1, <2>1, EachPin DEF TypeOK, Phases, Idle
  <2>4. PhaseInv' /\ StopIsOff'
    BY <1>0, <1>1, <2>1, <2>2 DEF PhaseInv, StopIsOff, Idle
  <2>5. KeptInv'
    BY <1>1, <1>2, <2>1, <2>2 DEF KeptInv, Idle
  <2>6. LeftoverIsStuck'
    BY <1>1, <1>2 DEF LeftoverIsStuck, Zero
  <2>7. QED
    BY <1>2, <2>3, <2>4, <2>5, <2>6 DEF SinkInv
<1>6. QED
  BY <1>3, <1>4, <1>5

-----------------------------------------------------------------------------
(* Driving, and what fails.                                                  *)
LEMMA PwmStep ==
    ASSUME SinkInv, PwmPin
    PROVE  SinkInv'
<1>0. /\ TypeOK /\ PhaseInv /\ DrivenInv /\ KeptInv /\ OneSided(frame) /\ StopIsOff /\ LeftoverIsStuck
      /\ phase = "PWM" /\ call = "ALLOW" /\ ~closed
  BY DEF SinkInv, PhaseInv, PwmPin, Idle
<1>1. /\ UNCHANGED <<level, initError, failed, closed, call, frame, stuck>>
      /\ \/ k' = k + 1 /\ k < PinCount /\ UNCHANGED <<phase, outcome, last>>
         \/ phase' = Idle /\ k' = 1 /\ last' = DirectionsOf(frame) /\ outcome' = "OK"
  BY DEF PwmPin, Return
<1>2. /\ DrivenInv' /\ tx' \in [Pins -> Duties] /\ driven' \in Directions \cup {NoDirections}
      /\ driven' \in {NoDirections, DirectionsOf(frame)}
      /\ driven' = NoDirections => AllOff'
  <2>1. CASE UNCHANGED <<tx, driven>>
    BY <1>0, <1>1, <2>1 DEF KeptInv, DrivenInv, TypeOK, AllOff
  <2>2. CASE ~Skipped(k) /\ tx' = [tx EXCEPT ![k] = frame[k]] /\ driven' = DirectionsOf(frame)
    BY <1>0, <2>2, DriveStep
  <2>3. QED
    BY <2>1, <2>2 DEF PwmPin
<1>3. TypeOK'
  <2>1. DirectionsOf(frame) \in Directions
    BY DirectionsType
  <2>2. k' \in Pins /\ last' \in Directions \cup {NoDirections}
    BY <1>0, <1>1, <2>1, EachPin DEF TypeOK
  <2>3. QED
    BY <1>0, <1>1, <1>2, <2>2 DEF TypeOK, Phases, Idle
<1>4. PhaseInv' /\ StopIsOff' /\ LeftoverIsStuck' /\ OneSided(frame)'
  BY <1>0, <1>1 DEF PhaseInv, StopIsOff, LeftoverIsStuck, OneSided, Idle
<1>5. KeptInv'
  <2>1. CASE phase' = "PWM"
    BY <1>1, <1>2, <2>1 DEF KeptInv, Idle
  <2>2. CASE phase' = Idle /\ last' = DirectionsOf(frame)
    BY <1>1, <1>2, <2>2 DEF KeptInv, Idle
  <2>3. QED
    BY <1>0, <1>1, <2>1, <2>2
<1>6. QED
  BY <1>2, <1>3, <1>4, <1>5 DEF SinkInv

LEMMA FailStep ==
    ASSUME SinkInv, Fails
    PROVE  SinkInv'
<1>0. /\ TypeOK /\ PhaseInv /\ DrivenInv /\ KeptInv /\ OneSided(frame) /\ StopIsOff /\ LeftoverIsStuck
      /\ ~closed
  BY DEF SinkInv, PhaseInv, Fails, Idle
<1>1. /\ UNCHANGED <<initError, closed, call, outcome, frame, stuck>>
      /\ phase' = "EMERGENCY_CANCEL" /\ k' = 1 /\ failed' = TRUE /\ last' = NoDirections
      /\ level' \in [Pins -> {0, 1}]
  BY <1>0 DEF Fails, Emergency, Enter, TypeOK
<1>2. DrivenInv' /\ tx' \in [Pins -> Duties] /\ driven' \in Directions \cup {NoDirections}
  <2>1. CASE UNCHANGED <<tx, driven>>
    BY <1>0, <2>1 DEF DrivenInv, TypeOK
  <2>2. CASE tx' = [tx EXCEPT ![k] = 0] /\ Drives(tx')
    BY <1>0, <2>2, CutStep
  <2>3. CASE phase = "PWM" /\ ~Skipped(k) /\ tx' = [tx EXCEPT ![k] = frame[k]] /\ driven' = DirectionsOf(frame)
    BY <1>0, <2>3, DriveStep
  <2>4. QED
    BY <2>1, <2>2, <2>3 DEF Fails
<1>3. TypeOK'
  BY <1>0, <1>1, <1>2, EachPin DEF TypeOK, Phases
<1>4. Known(Before)'
  BY <1>1 DEF Known, Before, Pins
<1>5. PhaseInv' /\ KeptInv' /\ StopIsOff' /\ LeftoverIsStuck' /\ OneSided(frame)'
  BY <1>0, <1>1, <1>4 DEF PhaseInv, KeptInv, StopIsOff, LeftoverIsStuck, OneSided, Idle
<1>6. QED
  BY <1>2, <1>3, <1>5 DEF SinkInv

LEMMA EmergencyStep ==
    ASSUME SinkInv, EmergencyCancelPin \/ EmergencyLowPin \/ EmergencyRelease
    PROVE  SinkInv'
<1>0. /\ TypeOK /\ PhaseInv /\ DrivenInv /\ KeptInv /\ OneSided(frame) /\ StopIsOff /\ LeftoverIsStuck
      /\ ~closed
  BY DEF SinkInv, PhaseInv, EmergencyCancelPin, EmergencyLowPin, EmergencyRelease, Idle
<1>1. UNCHANGED <<initError, last, failed, call, frame>>
  BY DEF EmergencyCancelPin, EmergencyLowPin, EmergencyRelease, sink
<1>2. OneSided(frame)'
  BY <1>0, <1>1 DEF OneSided
<1>3. CASE EmergencyCancelPin
  <2>1. /\ UNCHANGED <<closed, outcome>> /\ phase = "EMERGENCY_CANCEL"
        /\ Drives(tx') /\ Advance("EMERGENCY_LOW")
        /\ level' \in [Pins -> {0, 1}] /\ stuck' \in {stuck, stuck \cup {k}}
        /\ tx' = [tx EXCEPT ![k] = 0] \/ (tx' = tx /\ k \in stuck')
    BY <1>0, <1>3 DEF EmergencyCancelPin, Freed, sink, TypeOK
  <2>2. /\ DrivenInv' /\ tx' \in [Pins -> Duties] /\ driven' \in Directions \cup {NoDirections}
        /\ \A p \in Pins : tx'[p] \in {0, tx[p]}
        /\ tx'[k] = 0 \/ k \in stuck'
    <3>1. CASE tx' = [tx EXCEPT ![k] = 0]
      BY <1>0, <2>1, <3>1, CutStep
    <3>2. CASE tx' = tx /\ k \in stuck'
      <4>1. driven' = driven
        BY <1>0, <2>1, <3>2 DEF Drives, DrivenInv
      <4>2. QED
        BY <1>0, <3>2, <4>1 DEF DrivenInv, TypeOK
    <3>3. QED
      BY <2>1, <3>1, <3>2
  <2>3. /\ k' \in Pins
        /\ \/ phase' = "EMERGENCY_CANCEL" /\ Before' = Before \cup {k}
           \/ phase' = "EMERGENCY_LOW" /\ Before \cup {k} = Pins
    BY <1>0, <2>1, AdvanceStep
  <2>4. \A p \in Before \cup {k} : tx'[p] > 0 => p \in stuck'
    <3>1. \A p \in Before : tx[p] > 0 => p \in stuck
      BY <1>0, <2>1 DEF PhaseInv, Known
    <3>2. ~(0 > 0) /\ Before \subseteq Pins
      BY DEF Before
    <3>3. QED
      BY <2>1, <2>2, <3>1, <3>2
  <2>5. /\ phase' = "EMERGENCY_CANCEL" => Known(Before)'
        /\ phase' = "EMERGENCY_LOW" => Known(Pins)'
    BY <2>3, <2>4 DEF Known
  <2>6. k \in Pins
    BY <1>0 DEF TypeOK
  <2>7. TypeOK'
    BY <1>0, <1>1, <2>1, <2>2, <2>3, <2>6 DEF TypeOK, Phases
  <2>8. PhaseInv' /\ KeptInv' /\ StopIsOff' /\ LeftoverIsStuck'
    BY <1>0, <1>1, <2>1, <2>3, <2>5 DEF PhaseInv, KeptInv, StopIsOff, LeftoverIsStuck, Idle
  <2>9. QED
    BY <1>2, <2>2, <2>7, <2>8 DEF SinkInv
<1>4. CASE EmergencyLowPin
  <2>1. /\ UNCHANGED <<tx, driven, closed, outcome, stuck>> /\ phase = "EMERGENCY_LOW"
        /\ Advance("EMERGENCY_RELEASE") /\ level' \in [Pins -> {0, 1}] /\ Known(Pins)
    BY <1>0, <1>4 DEF EmergencyLowPin, sink, TypeOK, PhaseInv
  <2>2. k' \in Pins /\ phase' \in {"EMERGENCY_LOW", "EMERGENCY_RELEASE"}
    BY <1>0, <2>1, AdvanceStep
  <2>3. Known(Pins)' /\ DrivenInv'
    BY <1>0, <2>1 DEF Known, DrivenInv
  <2>4. TypeOK'
    BY <1>0, <1>1, <2>1, <2>2 DEF TypeOK, Phases
  <2>5. PhaseInv' /\ KeptInv' /\ StopIsOff' /\ LeftoverIsStuck'
    BY <1>0, <1>1, <2>1, <2>2, <2>3 DEF PhaseInv, KeptInv, StopIsOff, LeftoverIsStuck, Idle
  <2>6. QED
    BY <1>2, <2>3, <2>4, <2>5 DEF SinkInv
<1>5. CASE EmergencyRelease
  <2>1. /\ UNCHANGED <<tx, level, driven, stuck>> /\ Known(Pins)
        /\ phase' = Idle /\ k' = 1 /\ outcome' = "ERROR" /\ closed' = TRUE /\ last = NoDirections
    BY <1>0, <1>5 DEF EmergencyRelease, backend, Return, PhaseInv
  <2>2. TypeOK'
    BY <1>0, <1>1, <2>1, EachPin DEF TypeOK, Phases, Idle
  <2>3. PhaseInv' /\ StopIsOff' /\ KeptInv'
    BY <1>0, <1>1, <2>1 DEF PhaseInv, StopIsOff, KeptInv, Idle
  <2>4. LeftoverIsStuck' /\ DrivenInv'
    BY <1>0, <2>1 DEF LeftoverIsStuck, Known, DrivenInv
  <2>5. QED
    BY <1>2, <2>2, <2>3, <2>4 DEF SinkInv
<1>6. QED
  BY <1>3, <1>4, <1>5

-----------------------------------------------------------------------------
LEMMA StepInv == SinkInv /\ [Next]_vars => SinkInv'
<1> SUFFICES ASSUME SinkInv, [Next]_vars PROVE SinkInv'
  OBVIOUS
<1>1. CASE UNCHANGED vars
  BY <1>1 DEF vars, backend, sink, SinkInv, TypeOK, PhaseInv, DrivenInv, KeptInv, OneSided,
     StopIsOff, LeftoverIsStuck, AllOff, Cut, Low, Known, Before
<1>2. CASE Next
  BY <1>1, <1>2, InitPinStep, CallStep, HardLowStep, HoldStep, PwmStep, FailStep, EmergencyStep
  DEF Next, Proceed, Closed
<1>3. QED
  BY <1>1, <1>2

(* SinkInv holds in every reachable state.                                    *)
THEOREM Inductive == Spec => []SinkInv
<1>1. Init => SinkInv
  BY InitInv
<1>2. QED
  BY <1>1, StepInv, PTL DEF Spec

(* Every variable of the sink and its backend keeps its type: a plan never asks    *)
(* for a duty out of range.                                                  *)
THEOREM TypeCorrect == Spec => []TypeOK
<1>1. SinkInv => TypeOK
  BY DEF SinkInv
<1>2. QED
  BY <1>1, Inductive, PTL

(* A STOP, a close or a construction that returns normally leaves every pin off      *)
(* (_hard_low, write, close), whatever an earlier call left behind.             *)
THEOREM StopOff == Spec => []StopIsOff
<1>1. SinkInv => StopIsOff
  BY DEF SinkInv
<1>2. QED
  BY <1>1, Inductive, PTL

(* A closed sink leaves behind only what could be neither cancelled nor freed         *)
(* (_emergency_hard_low_and_close).                                           *)
THEOREM LeftoverStuck == Spec => []LeftoverIsStuck
<1>1. SinkInv => LeftoverIsStuck
  BY DEF SinkInv
<1>2. QED
  BY <1>1, Inductive, PTL

(* The inputs of a coasting channel never run together (plan_drv8871_pwm, write).   *)
THEOREM CoastSafe == Spec => []NoCoastConflict
<1>1. SinkInv => NoCoastConflict
  <2> SUFFICES ASSUME SinkInv, NEW w \in Wheels, Decay[w] = "COAST"
               PROVE  tx[2 * w - 1] = 0 \/ tx[2 * w] = 0
    BY DEF NoCoastConflict
  <2>1. CASE driven = NoDirections
    BY <2>1, PinsOfWheel DEF SinkInv, DrivenInv, Zero
  <2>2. CASE driven # NoDirections
    BY <2>2 DEF SinkInv, DrivenInv
  <2>3. QED
    BY <2>1, <2>2
<1>2. QED
  BY <1>1, Inductive, PTL

(* The transmitters begin to stand for other directions only when every pin is      *)
(* off (write, _channel_direction).                                           *)
THEOREM BreaksBeforeMaking == Spec => BreakBeforeMake
<1> DEFINE A == driven' # driven /\ driven' # NoDirections => AllOff
<1>1. SinkInv /\ [Next]_vars => [A]_vars
  <2> SUFFICES ASSUME SinkInv, Next, driven' # driven, driven' # NoDirections
               PROVE  AllOff
    OBVIOUS
  <2>1. ~Drives(tx')
    BY DEF Drives
  <2>2. phase = "PWM" /\ driven' = DirectionsOf(frame)
    BY <2>1 DEF Next, Proceed, InitPin, WriteAllow, WriteStop, Close, CancelPin, LowPin, VerifyPin, Hold,
       ReverifyPin, PwmPin, Release, Fails, EmergencyCancelPin, EmergencyLowPin, EmergencyRelease,
       Closed, backend, vars
  <2>3. QED
    BY <2>2 DEF SinkInv, KeptInv
<1>2. QED
  BY <1>1, Inductive, PTL DEF Spec, BreakBeforeMake
-----------------------------------------------------------------------------
(* Frames below full output.  There a direction tells which inputs run, so a     *)
(* transmitter that is kept is one the next frame sets again.  At full output a   *)
(* braking channel has one input at zero, and its direction no longer tells.     *)
BelowFull == \A v \in Outputs : v < Full /\ -v < Full

Runs(p, direction) ==
    /\ direction # 0
    /\ Decay[Wheel(p)] = "COAST" => (direction = 1 <=> IsIn1(p))

Told(duties) ==
    \A p \in Pins : duties[p] # 0 <=> Runs(p, DirectionsOf(duties)[Wheel(p)])

Within(directions) ==
    \A p \in Pins : tx[p] # 0 => Runs(p, directions[Wheel(p)])

FrameInv ==
    /\ Told(frame)
    /\ phase \in {"HOLD", "REVERIFY", "RELEASE"} => call # "ALLOW"
    /\ phase = "PWM" => /\ Within(DirectionsOf(frame))
                        /\ \A p \in Before : tx[p] = frame[p]
    /\ phase = Idle /\ last # NoDirections => Within(last)
    /\ FrameApplied

LEMMA PlanTold ==
    ASSUME BelowFull, NEW outputs \in [Wheels -> Outputs]
    PROVE  Told(Plan(outputs))
<1> SUFFICES ASSUME NEW p \in Pins
             PROVE  Plan(outputs)[p] # 0 <=> Runs(p, DirectionsOf(Plan(outputs))[Wheel(p)])
  BY DEF Told
<1> DEFINE w == Wheel(p)
           v == outputs[w]
           in1 == Duty(2 * w - 1, v)
           in2 == Duty(2 * w, v)
<1>1. w \in Wheels /\ p \in {2 * w - 1, 2 * w}
  BY WheelOfPin
<1>2. /\ 2 * w - 1 \in Pins /\ 2 * w \in Pins
      /\ Wheel(2 * w - 1) = w /\ Wheel(2 * w) = w
      /\ IsIn1(2 * w - 1) /\ ~IsIn1(2 * w)
  BY <1>1, PinsOfWheel
<1>3. Full \in Nat /\ v \in Int /\ v < Full /\ -v < Full
  <2>1. Full \in Nat /\ Outputs \subseteq -Full..Full
    BY SinkAssumption
  <2>2. v \in Outputs
    BY <1>1
  <2>3. v \in -Full..Full
    BY <2>1, <2>2
  <2>4. \A i \in -Full..Full : i \in Int
    BY <2>1
  <2>5. v < Full /\ -v < Full
    BY <2>2 DEF BelowFull
  <2>6. QED
    BY <2>1, <2>3, <2>4, <2>5
<1>4. Plan(outputs)[2 * w - 1] = in1 /\ Plan(outputs)[2 * w] = in2
  BY <1>2 DEF Plan
<1>5. DirectionsOf(Plan(outputs))[w] =
          IF in1 = 0 /\ in2 = 0 THEN 0
          ELSE IF Decay[w] = "COAST" THEN IF in1 > 0 THEN 1 ELSE -1
          ELSE IF in1 = Full THEN 1 ELSE -1
  BY <1>1, <1>4 DEF DirectionsOf, Direction
<1> DEFINE out == IF Invert[w] THEN -v ELSE v
<1>6. out \in Int /\ out < Full /\ -out < Full
  BY <1>3
<1>7. /\ out = 0 => in1 = 0 /\ in2 = 0
      /\ out > 0 /\ Decay[w] = "COAST" => in1 = out /\ in2 = 0
      /\ out < 0 /\ Decay[w] = "COAST" => in1 = 0 /\ in2 = -out
      /\ out > 0 /\ Decay[w] # "COAST" => in1 = Full /\ in2 = Full - out
      /\ out < 0 /\ Decay[w] # "COAST" => in1 = Full + out /\ in2 = Full
  BY <1>2, <1>3, <1>6 DEF Duty, Size
<1> HIDE DEF in1, in2, out, v, w
<1>8. CASE Decay[w] = "COAST"
  <2>1. /\ in1 # 0 <=> DirectionsOf(Plan(outputs))[w] = 1
        /\ in2 # 0 <=> DirectionsOf(Plan(outputs))[w] = -1
        /\ DirectionsOf(Plan(outputs))[w] \in {-1, 0, 1}
    BY <1>3, <1>5, <1>6, <1>7, <1>8
  <2>2. /\ Plan(outputs)[2 * w - 1] # 0 <=> Runs(2 * w - 1, DirectionsOf(Plan(outputs))[w])
        /\ Plan(outputs)[2 * w] # 0 <=> Runs(2 * w, DirectionsOf(Plan(outputs))[w])
    BY <1>2, <1>4, <1>8, <2>1 DEF Runs
  <2>3. QED
    BY <1>1, <2>2 DEF w
<1>9. CASE Decay[w] # "COAST"
  <2>1. /\ in1 # 0 <=> DirectionsOf(Plan(outputs))[w] # 0
        /\ in2 # 0 <=> DirectionsOf(Plan(outputs))[w] # 0
    BY <1>3, <1>5, <1>6, <1>7, <1>9
  <2>2. /\ Plan(outputs)[2 * w - 1] # 0 <=> Runs(2 * w - 1, DirectionsOf(Plan(outputs))[w])
        /\ Plan(outputs)[2 * w] # 0 <=> Runs(2 * w, DirectionsOf(Plan(outputs))[w])
    BY <1>2, <1>4, <1>9, <2>1 DEF Runs
  <2>3. QED
    BY <1>1, <2>2 DEF w
<1>10. QED
  BY <1>8, <1>9

LEMMA FrameInitInv == Init => FrameInv
<1> SUFFICES ASSUME Init PROVE FrameInv
  OBVIOUS
<1>1. frame = Zero /\ \A p \in Pins : frame[p] = 0
  BY DEF Init, Zero
<1>2. ASSUME NEW p \in Pins
      PROVE  DirectionsOf(frame)[Wheel(p)] = 0
  <2>1. /\ Wheel(p) \in Wheels
        /\ frame[2 * Wheel(p) - 1] = 0 /\ frame[2 * Wheel(p)] = 0
    BY <1>1, WheelOfPin, PinsOfWheel
  <2>2. QED
    BY <2>1 DEF DirectionsOf, Direction
<1>3. Told(frame)
  BY <1>1, <1>2 DEF Told, Runs
<1>4. QED
  BY <1>3 DEF Init, FrameInv, FrameApplied, Idle

LEMMA FrameStepInv ==
    BelowFull /\ SinkInv /\ SinkInv' /\ FrameInv /\ [Next]_vars => FrameInv'
<1> SUFFICES ASSUME BelowFull, SinkInv, FrameInv, [Next]_vars PROVE FrameInv'
  OBVIOUS
<1>0. /\ TypeOK /\ PhaseInv
      /\ Told(frame)
      /\ phase \in {"HOLD", "REVERIFY", "RELEASE"} => call # "ALLOW"
      /\ phase = "PWM" => Within(DirectionsOf(frame)) /\ \A p \in Before : tx[p] = frame[p]
      /\ phase = Idle /\ last # NoDirections => Within(last)
      /\ FrameApplied
  BY DEF SinkInv, FrameInv
<1>1. CASE UNCHANGED vars
  BY <1>1 DEF vars, backend, sink, FrameInv, Told, Within, FrameApplied, Before
<1>2. ASSUME NEW outputs \in [Wheels -> Outputs], WriteAllow(outputs)
      PROVE  FrameInv'
  <2>1. /\ frame' = Plan(outputs) /\ call' = "ALLOW" /\ outcome' = "RUNNING" /\ k' = 1
        /\ phase = Idle /\ UNCHANGED <<tx, last>>
        /\ phase' = IF Breaks(DirectionsOf(frame')) THEN "CANCEL" ELSE "PWM"
    BY <1>2 DEF WriteAllow, Writable, Enter, backend, sink
  <2>2. Told(frame')
    BY <2>1, PlanTold
  <2>3. phase' = "PWM" => last = DirectionsOf(frame') /\ last # NoDirections
    BY <2>1, DirectionsType DEF Breaks
  <2>4. phase' = "PWM" => Within(DirectionsOf(frame))'
    <3>1. phase' = "PWM" => \A p \in Pins : tx[p] # 0 => Runs(p, last[Wheel(p)])
      BY <1>0, <2>1, <2>3 DEF Within
    <3>2. Within(DirectionsOf(frame))' <=>
              \A p \in Pins : tx[p] # 0 => Runs(p, DirectionsOf(frame')[Wheel(p)])
      BY <2>1 DEF Within
    <3>3. QED
      BY <2>3, <3>1, <3>2
  <2>5. Before' = {}
    BY <2>1 DEF Before, Pins
  <2>6. Told(frame)'
    BY <2>2 DEF Told
  <2>7. QED
    BY <2>1, <2>4, <2>5, <2>6 DEF FrameInv, FrameApplied, Idle
<1>3. CASE WriteStop \/ Close
  <2>1. UNCHANGED frame /\ phase' = "CANCEL"
    BY <1>3 DEF WriteStop, Close, Enter, HardLow
  <2>2. QED
    BY <1>0, <2>1 DEF FrameInv, FrameApplied, Told, Idle
<1>4. CASE InitPin
  <2>1. /\ UNCHANGED <<frame, call>> /\ phase = "INIT"
        /\ phase' \in {"INIT", "EMERGENCY_CANCEL", "HOLD"}
    BY <1>4 DEF InitPin, Emergency, Enter
  <2>2. QED
    BY <1>0, <2>1 DEF FrameInv, FrameApplied, Told, PhaseInv, Idle
<1>5. CASE CancelPin \/ LowPin
  <2>1. UNCHANGED frame /\ phase' \in {"CANCEL", "LOW", "VERIFY"}
    BY <1>5 DEF CancelPin, LowPin, Advance, Enter
  <2>2. QED
    BY <1>0, <2>1 DEF FrameInv, FrameApplied, Told, Idle
<1>6. CASE VerifyPin
  <2>1. /\ UNCHANGED <<frame, call, tx>> /\ phase = "VERIFY" /\ tx = Zero
        /\ \/ phase' = "VERIFY"
           \/ phase' = IF call = "ALLOW" THEN "PWM" ELSE "HOLD"
        /\ phase' # "VERIFY" => k' = 1
    BY <1>0, <1>6 DEF VerifyPin, Advance, Enter, backend, PhaseInv
  <2>2. Within(DirectionsOf(frame))'
    BY <2>1 DEF Within, Zero
  <2>3. phase' # "VERIFY" => Before' = {}
    BY <2>1 DEF Before, Pins
  <2>4. Told(frame)'
    BY <1>0, <2>1 DEF Told
  <2>5. QED
    BY <2>1, <2>2, <2>3, <2>4 DEF FrameInv, FrameApplied, Idle
<1>7. CASE Hold
  <2>1. UNCHANGED <<frame, call>> /\ phase = "HOLD" /\ phase' = "REVERIFY"
    BY <1>7 DEF Hold, Enter
  <2>2. QED
    BY <1>0, <2>1 DEF FrameInv, FrameApplied, Told, Idle
<1>8. CASE ReverifyPin
  <2>1. /\ UNCHANGED <<frame, call>> /\ phase = "REVERIFY"
        /\ phase' \in {"REVERIFY", "RELEASE"} \/ (phase' = Idle /\ last' = NoDirections)
    BY <1>8 DEF ReverifyPin, Enter, Return
  <2>2. QED
    BY <1>0, <2>1 DEF FrameInv, FrameApplied, Told, Idle
<1>9. CASE Release
  <2>1. /\ UNCHANGED <<frame, call, tx>> /\ phase = "RELEASE" /\ phase' = Idle /\ tx = Zero
    BY <1>0, <1>9 DEF Release, Return, backend, PhaseInv, AllOff
  <2>2. Within(last)'
    BY <2>1 DEF Within, Zero
  <2>3. QED
    BY <1>0, <2>1, <2>2 DEF FrameInv, FrameApplied, Told, Idle
<1>10. CASE Fails \/ EmergencyCancelPin \/ EmergencyLowPin
  <2>1. UNCHANGED frame /\ phase' \in {"EMERGENCY_CANCEL", "EMERGENCY_LOW", "EMERGENCY_RELEASE"}
    BY <1>10 DEF Fails, Emergency, EmergencyCancelPin, EmergencyLowPin, Advance, Enter
  <2>2. QED
    BY <1>0, <2>1 DEF FrameInv, FrameApplied, Told, Idle
<1>11. CASE EmergencyRelease
  <2>1. /\ UNCHANGED frame /\ phase' = Idle /\ outcome' = "ERROR" /\ last' = NoDirections
    BY <1>0, <1>11 DEF EmergencyRelease, Return, PhaseInv
  <2>2. QED
    BY <1>0, <2>1 DEF FrameInv, FrameApplied, Told, Idle
<1>12. CASE PwmPin
  <2>1. /\ UNCHANGED frame /\ phase = "PWM" /\ k \in Pins /\ tx \in [Pins -> Duties]
        /\ \/ k' = k + 1 /\ k < PinCount /\ phase' = phase
           \/ phase' = Idle /\ last' = DirectionsOf(frame) /\ ~(k < PinCount)
        /\ tx' = IF frame[k] = 0 THEN tx ELSE [tx EXCEPT ![k] = frame[k]]
    BY <1>0, <1>12 DEF PwmPin, Return, Skipped, TypeOK
  <2>2. tx'[k] = frame[k]
    BY <1>0, <2>1 DEF Told, Within
  <2>3. \A p \in Pins : p # k => tx'[p] = tx[p]
    BY <2>1
  <2>4. \A p \in Before \cup {k} : tx'[p] = frame[p]
    BY <1>0, <2>1, <2>2, <2>3 DEF Before
  <2>5. Within(DirectionsOf(frame))'
    <3> SUFFICES ASSUME NEW p \in Pins, tx'[p] # 0
                 PROVE  Runs(p, DirectionsOf(frame)[Wheel(p)])
      BY <2>1 DEF Within
    <3>1. CASE p = k
      BY <1>0, <2>2, <3>1 DEF Told
    <3>2. CASE p # k
      BY <1>0, <2>1, <2>3, <3>2 DEF Within
    <3>3. QED
      BY <3>1, <3>2
  <2>6. phase' = "PWM" => Before' = Before \cup {k}
    BY <1>0, <2>1, EachPin DEF Before, Idle
  <2>7. phase' = Idle => tx' = frame
    <3>1. phase' = Idle => Before \cup {k} = Pins
      BY <1>0, <2>1, EachPin DEF Idle
    <3>2. tx' \in [Pins -> Duties] /\ frame \in [Pins -> Duties]
      BY <1>0, <2>1 DEF TypeOK
    <3>3. QED
      BY <2>4, <3>1, <3>2
  <2>8. phase' = Idle => Within(last)'
    BY <2>1, <2>5 DEF Within, Idle
  <2>9. Told(frame)'
    BY <1>0, <2>1 DEF Told
  <2>10. FrameApplied'
    BY <2>1, <2>7 DEF FrameApplied
  <2>11. phase' \in {"PWM", Idle}
    BY <2>1
  <2>12. phase' = "PWM" => \A p \in Before' : tx'[p] = frame'[p]
    BY <2>1, <2>4, <2>6
  <2>13. QED
    BY <2>5, <2>8, <2>9, <2>10, <2>11, <2>12 DEF FrameInv, Idle
<1>13. QED
  BY <1>1, <1>2, <1>3, <1>4, <1>5, <1>6, <1>7, <1>8, <1>9, <1>10, <1>11, <1>12
  DEF Next, Proceed, Closed

(* Below full output, as the shipped limits keep it, an ALLOW that returns          *)
(* normally has every pin at its duty (write, _apply_allow_duties).               *)
THEOREM FrameIsApplied == ASSUME BelowFull PROVE Spec => []FrameApplied
<1>1. Init => FrameInv
  BY FrameInitInv
<1>2. SinkInv /\ SinkInv' /\ FrameInv /\ [Next]_vars => FrameInv'
  BY FrameStepInv
<1>3. FrameInv => FrameApplied
  BY DEF FrameInv
<1>4. QED
  BY <1>1, <1>2, <1>3, Inductive, PTL DEF Spec
=============================================================================

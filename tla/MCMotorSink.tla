---------------------------- MODULE MCMotorSink ----------------------------
(* Small instances of MotorSink for TLC. *)
EXTENDS MotorSink

(* Left coasting, right braking and inverted: the mix of the unit tests. *)
MixedDecay == <<"COAST", "BRAKE">>
MixedInvert == <<FALSE, TRUE>>
PartialOutputs == {-1, 0, 1, 2}
=============================================================================

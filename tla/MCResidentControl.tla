-------------------------- MODULE MCResidentControl --------------------------
(* TLC instance of ResidentControl: two devices, three lidar revisions, a    *)
(* preflight of two, a clock that may stall, advance in time or too far, and *)
(* a caller that may skip a tick id.                                        *)
EXTENDS ResidentControl

CONSTANTS d1, d2

MCDevices == {d1, d2}
MCRevisions == 1 .. 3
MCTickSteps == {1, 2}
MCNsSteps == {0, 1, 2}
=============================================================================

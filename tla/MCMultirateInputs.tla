-------------------------- MODULE MCMultirateInputs --------------------------
(* MultirateInputs with one critical device and two auxiliary ones.           *)
EXTENDS MultirateInputs

CONSTANTS encoder, camera, detector

MCCritical == {encoder}
MCAuxiliary == {camera, detector}
=============================================================================

---------------------------- MODULE MCRobotHost ----------------------------
(* Small instances of RobotHost for TLC.  The requests are alike, and the       *)
(* properties checked are safety properties.                                 *)
EXTENDS RobotHost, TLC

Symmetry == Permutations(Requests)
=============================================================================

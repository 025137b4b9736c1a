--------------------------- MODULE MotionAuthority ---------------------------
(***************************************************************************)
(* What the resident control promises about motion, without ticks, latches  *)
(* or lifecycles: authority is gained only on a run of enough distinct lidar *)
(* revisions, lost at once, and never regained once the session is dead.    *)
(***************************************************************************)
EXTENDS Integers, FiniteSets

CONSTANTS Revisions, Required

VARIABLES
    authority,  \* "IDLE", "ACTIVE" or "DEAD"
    moving,     \* the last committed command drives a wheel
    evidence    \* the distinct revisions of the current healthy-idle run

vars == <<authority, moving, evidence>>

TypeOK ==
    /\ authority \in {"IDLE", "ACTIVE", "DEAD"}
    /\ moving \in BOOLEAN
    /\ evidence \subseteq Revisions

Init == authority = "IDLE" /\ moving = FALSE /\ evidence = {}

(* One more revision of a healthy run; an older one starts the run again.   *)
Observe(r) ==
    /\ authority = "IDLE"
    /\ evidence' = IF \E v \in evidence : v > r THEN {r} ELSE evidence \cup {r}
    /\ UNCHANGED <<authority, moving>>

Interrupt ==
    /\ authority = "IDLE"
    /\ evidence' = {}
    /\ UNCHANGED <<authority, moving>>

Activate ==
    /\ authority = "IDLE"
    /\ Cardinality(evidence) >= Required
    /\ authority' = "ACTIVE"
    /\ evidence' = {}
    /\ moving' \in BOOLEAN

Drive ==
    /\ authority = "ACTIVE"
    /\ moving' \in BOOLEAN
    /\ UNCHANGED <<authority, evidence>>

(* The tick that releases authority may already be the first of a new run.  *)
Release ==
    /\ authority = "ACTIVE"
    /\ authority' = "IDLE"
    /\ moving' = FALSE
    /\ evidence' \in {{}} \cup {{r} : r \in Revisions}

Die ==
    /\ authority # "DEAD"
    /\ authority' = "DEAD"
    /\ moving' = FALSE
    /\ UNCHANGED evidence

Next ==
    \/ \E r \in Revisions : Observe(r)
    \/ Interrupt
    \/ Activate
    \/ Drive
    \/ Release
    \/ Die

Spec == Init /\ [][Next]_vars
=============================================================================

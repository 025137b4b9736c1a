---------------------------- MODULE RolloutPort ----------------------------
(***************************************************************************)
(* What a trajectory planner worker promises the thread that drives it: a     *)
(* slot for the newest request.  It is answered at most once, a request that   *)
(* was replaced or abandoned never is, and after a failure nothing is.        *)
(***************************************************************************)
EXTENDS Naturals

CONSTANT MaxRequests

VARIABLES
    last,   \* the newest request
    slot,   \* what became of it
    up      \* the port accepts calls

vars == <<last, slot, up>>

Init == last = 0 /\ slot = "NONE" /\ up = TRUE

Submit ==
    /\ up
    /\ last < MaxRequests
    /\ last' = last + 1
    /\ slot' = "ASKED"
    /\ UNCHANGED up

Answer ==
    /\ up
    /\ slot = "ASKED"
    /\ slot' = "ANSWERED"
    /\ UNCHANGED <<last, up>>

Take ==
    /\ up
    /\ slot = "ANSWERED"
    /\ slot' = "NONE"
    /\ UNCHANGED <<last, up>>

Abandon ==
    /\ up
    /\ slot' = "NONE"
    /\ UNCHANGED <<last, up>>

Fail ==
    /\ up' = FALSE
    /\ slot' = "NONE"
    /\ UNCHANGED last

Next == Submit \/ Answer \/ Take \/ Abandon \/ Fail

Spec == Init /\ [][Next]_vars
=============================================================================

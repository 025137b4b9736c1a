SPECIFICATION Spec
CONSTANTS
    Callers = {c1, c2}
    Producers = {p1, p2}
    Runtimes = {r1, r2}
    Nobody = Nobody
    Jobs = {"stop", "shutdown", "move", "teleop", "proba"}
INVARIANTS
    StopIsFinal
    OneRuntime
    TransitionIsLeft
PROPERTIES
    EndedStopRevokes
    RevokedSequenceRests

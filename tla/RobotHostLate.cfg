SPECIFICATION Spec
CONSTANTS
    Requests = {a, b}
    AtOnce = 2
    Lasting = 0
    Nobody = Nobody
    Jobs = {"behavior", "manual"}
INVARIANT
    StopInvalidates
CHECK_DEADLOCK FALSE

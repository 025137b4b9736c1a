SPECIFICATION Spec
CONSTANTS
    Requests = {a, b, c}
    AtOnce = 2
    Lasting = 2
    Nobody = Nobody
    Jobs = {"preempt", "revoke", "fail", "manual", "behavior", "goal", "skill"}
SYMMETRY Symmetry
INVARIANTS
    StopHolds
    RevokedStays
PROPERTIES
    CleanTakeover
CHECK_DEADLOCK FALSE

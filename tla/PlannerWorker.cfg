\* One worker, with room for one answer, dying and hanging at will.
SPECIFICATION FairSpec
CONSTANTS
    Capacity = 1
    Timeout = 1
    MaxRequests = 4
    MaxTime = 4
INVARIANTS
    SlotsSuffice
    HungIsNoticed
PROPERTIES
    ImplementsPort
    RequestsEnd
CHECK_DEADLOCK FALSE

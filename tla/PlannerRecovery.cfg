\* Recovery of a planner worker, with every way of failing.
SPECIFICATION FairSpec
CONSTANTS
    MaxAttempts = 2
    MaxWorkers = 4
    MaxRequests = 4
INVARIANTS
    NoWorkerIsLost
    RetainedIsHandedOver
PROPERTIES
    RecoveryEnds

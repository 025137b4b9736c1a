SPECIFICATION Spec
CONSTANTS
    Sessions = {s1, s2}
    Nobody = Nobody
    MaxRevision = 3
    MaxGeneration = 2
    MaxCrashes = 1
INVARIANTS
    HoldersKeepTheCamera
    PublishedIsCurrent
PROPERTIES
    NoSilentReplacement
    DemandIsAnswered
CHECK_DEADLOCK FALSE

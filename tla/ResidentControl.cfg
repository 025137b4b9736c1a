\* Two devices, three revisions of which two are required, eight tick ids.
SPECIFICATION Spec
CONSTANTS
    d1 = d1
    d2 = d2
    Devices <- MCDevices
    Revisions <- MCRevisions
    Required = 2
    MaxAge = 1
    TickSteps <- MCTickSteps
    NsSteps <- MCNsSteps
    MaxTick = 7
INVARIANTS
    ReadyIsHonest
    DriveNeedsAuthority
    EstablishedRearms
PROPERTIES
    ActivationHasPreflight
    ImplementsAuthority
CHECK_DEADLOCK FALSE

\* A critical device with a lane of its own, two auxiliary ones behind one worker.
SPECIFICATION InputSpec
CONSTANTS
    encoder = encoder
    camera = camera
    detector = detector
    Critical <- MCCritical
    Auxiliary <- MCAuxiliary
    Period = 2
    HistorySize = 1
    MaxAge = 1
    MaxTime = 2
INVARIANTS
    CompleteCut
PROPERTIES
    LostLaneIsNotOk
    ClosedIsQuiet
CHECK_DEADLOCK FALSE

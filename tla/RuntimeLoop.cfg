\* The loop over a composition that may fault or raise at any call.
SPECIFICATION FairLoopSpec
CONSTANTS
    Period = 3
    MaxTime = 14
INVARIANTS
    EndsClosed
    StopIsPrompt
PROPERTIES
    OneTickPerSlot
    StopEnds

\* A producer and a process that stops it, both of which may hang or die anywhere.
SPECIFICATION FairSpec
CONSTANTS
    Producers = {p1}
    Stoppers = {s1}
    NoClient = NoClient
    Ttl = 0
    Patience = 0
    MaxStarts = 4
PROPERTIES
    NoStaleOverwrite
    RevisionsRise
    MotionExpires
    StopReturns

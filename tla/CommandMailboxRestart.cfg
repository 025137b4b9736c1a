\* One producer, one process that publishes STOP, and a mailbox removed between.
SPECIFICATION Spec
CONSTANTS
    Producers = {p1}
    Stoppers = {s1}
    NoClient = NoClient
    Ttl = 0
    Patience = 0
    MaxStarts = 4
PROPERTY StopInvalidatesProducer

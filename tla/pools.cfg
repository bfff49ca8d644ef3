\* Two threads share one connection.
SPECIFICATION FairSpec
CONSTANTS
    Requests = {r1, r2, r3}
    Threads = 2
    Connections = 1
INVARIANTS WaitsForSomebody
PROPERTIES RequestsFinish

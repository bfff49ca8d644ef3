\* One request at a time, none of which dies.
SPECIFICATION FairSpec
CONSTANTS
    Projects = {p1}
    Sprints = {s1, s2}
    MaxId = 3
    Requests = {r1}
    CanAbort = FALSE
    NULL = NULL
INVARIANTS Acyclic AuditComplete
PROPERTIES ImplementsBacklog RequestsFinish

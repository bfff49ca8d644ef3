\* Two moves at a time: the walk of each misses the other.
SPECIFICATION Spec
CONSTANTS
    Projects = {p1}
    Sprints = {s1}
    MaxId = 2
    Requests = {r1, r2}
    CanAbort = FALSE
    NULL = NULL
INVARIANT Acyclic

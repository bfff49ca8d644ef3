\* Two requests at a time, over two projects, any of which may die.
SPECIFICATION Spec
CONSTANTS
    Projects = {p1, p2}
    Sprints = {s1}
    MaxId = 2
    Requests = {r1, r2}
    CanAbort = TRUE
    NULL = NULL
SYMMETRY Symmetry
VIEW AllButActivity
INVARIANTS ParentInProject
PROPERTIES NoLostMove

\* Two requests at a time, any of which may die.
SPECIFICATION Spec
CONSTANTS
    Names = {"Bug", "Story", "Task"}
    Initial = "Bug"
    MaxId = 3
    MaxBackups = 3
    MaxTime = 1
    Requests = {r1, r2}
    NULL = NULL
SYMMETRY Symmetry
INVARIANTS TypeLeft BackupsApart
\* With all types gone and a backup in progress nothing can be asked for any more.
CHECK_DEADLOCK FALSE

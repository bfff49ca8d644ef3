\* Two users, two requests at a time, any of which may die.
SPECIFICATION Spec
CONSTANTS
    Users = {u1, u2}
    Statuses = {"ToDo", "Done"}
    ToDo = "ToDo"
    MaxId = 2
    Requests = {r1, r2}
    NULL = NULL
SYMMETRY Symmetry
INVARIANTS TypeOK SomeoneTold FilesBehindRows EverythingLogged HistoryReplays
\* Once the task and all accounts are gone no request arrives any more.
CHECK_DEADLOCK FALSE

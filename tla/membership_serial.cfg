\* One request at a time, one administrator among three users; accounts may go,
\* in the end all of them, and then no request arrives any more.
SPECIFICATION Spec
CONSTANTS
    Users = {a, u1, u2}
    Admins = {a}
    MaxId = 4
    Requests = {r1}
    AccountsGo = TRUE
    NULL = NULL
SYMMETRY Symmetry
INVARIANTS HasOwner
PROPERTIES ImplementsTeam
CHECK_DEADLOCK FALSE

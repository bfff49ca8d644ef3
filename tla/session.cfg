\* Two users, three requests under way.
SPECIFICATION FairSessionSpec
CONSTANTS
    Users = {u1, u2}
    MaxTime = 1
    MaxVisits = 2
    MaxAttempts = 1
    Slots = {c1, c2, c3}
    NULL = NULL
INVARIANTS SessionTypeOK SessionAgrees
PROPERTIES SpinnerEnds

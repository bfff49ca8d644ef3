\* Two keys, three requests under way.
SPECIFICATION FairPageSpec
CONSTANTS
    Keys = {k1, k2}
    Slots = {1, 2, 3}
    MaxMoves = 1
    MaxChanges = 2
    NULL = NULL
INVARIANTS PageTypeOK ShowsServer ShowsItsKey
PROPERTIES LoadingEnds
CHECK_DEADLOCK FALSE

\* Two rows, two submissions under way.  The bound on drafts ends what a user does.
SPECIFICATION FairFormSpec
CONSTANTS
    Targets = {1, 2}
    Slots = {1, 2}
    MaxVersions = 4
    MaxRow = 1
    NULL = NULL
INVARIANTS FormTypeOK WritesItsRow DraftIsCurrent ErrorIsOfDraft OneAtATime
PROPERTIES TypedIsKept SubmitEnds
CHECK_DEADLOCK FALSE

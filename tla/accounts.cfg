\* Every operation, two at a time.
SPECIFICATION FairSpec
CONSTANTS
    Emails = {e1, e2}
    MaxId = 3
    Requests = {r1, r2}
    Operations = {"register", "oauth", "role", "status", "email", "delete"}
    NULL = NULL
INVARIANTS TypeOK OneAdministrator
PROPERTIES AdminStays RequestsFinish

SPECIFICATION Spec
CONSTANTS
    Account = {1}
    Email = {1}
    EmailOf <- OwnEmail
    Doc = {d1, d2}
    Request = {r1, r2}
    Kinds = {"created", "visit", "role", "active", "remove"}
    MaxVersion = 0
    Faults = {"db_read", "db_write", "clerk", "crash"}
    NoUser = NoUser
    NoDoc = NoDoc
SYMMETRY Symmetry
CHECK_DEADLOCK FALSE
INVARIANTS TypeOK UserAuditsAreTrue
PROPERTIES DeletedStaysDeleted AccountsSpec

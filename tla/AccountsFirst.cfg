SPECIFICATION Spec
CONSTANTS
    Account = {1}
    Email = {1}
    EmailOf <- OwnEmail
    Doc = {d1, d2}
    Request = {r1, r2}
    Kinds = {"created", "visit"}
    MaxVersion = 0
    Faults = {}
    NoUser = NoUser
    NoDoc = NoDoc
CHECK_DEADLOCK FALSE
INVARIANT FirstUserIsAdmin

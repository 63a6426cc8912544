SPECIFICATION FairSpec
CONSTANTS
    Account = {1}
    Email = {1}
    EmailOf <- OwnEmail
    Doc = {d1, d2}
    Request = {r1, r2}
    Kinds = {"created", "updated", "deleted", "visit"}
    MaxVersion = 1
    Faults = {"index", "clerk"}
    NoUser = NoUser
    NoDoc = NoDoc
CHECK_DEADLOCK FALSE
PROPERTIES DeletionReaches AccountsSpec

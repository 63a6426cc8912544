--------------------------- MODULE AccountLifecycle ---------------------------
(***************************************************************************)
(* What the users collection promises of an account, whatever documents    *)
(* and copies of them are about: it is an administrator only while it has  *)
(* a user, after someone with the authority made it one; and from the time *)
(* users are kept unique it gains a user once, loses it once and never     *)
(* again has one.                                                          *)
(***************************************************************************)
CONSTANT Account

VARIABLES
    unique,    \* whether an account can have one user only
    standing,  \* "absent", "member" or "removed", per account
    entitled,  \* the accounts that were ever made administrators
    admins     \* the accounts whose user has the role "admin" now

vars == << unique, standing, entitled, admins >>

Init ==
    /\ unique   \in BOOLEAN
    /\ standing = [ a \in Account |-> "absent" ]
    /\ entitled = {}
    /\ admins   = {}

BecomeUnique ==
    /\ ~unique /\ unique' = TRUE
    /\ UNCHANGED << standing, entitled, admins >>

\* Where users are not unique, an account that has or had one may get another.
Joins(a) ==
    /\ standing[a] = "absent" \/ ~unique
    /\ standing' = [ standing EXCEPT ![a] = "member" ]
    /\ UNCHANGED unique

JoinAsUser(a) == Joins(a) /\ UNCHANGED << entitled, admins >>

JoinAsAdmin(a) ==
    /\ Joins(a)
    /\ entitled' = entitled \cup { a }
    /\ admins'   = admins \cup { a }

\* An appointment may come too late for a user that is no longer there.
Appoint(a) ==
    /\ standing[a] # "absent"
    /\ entitled' = entitled \cup { a }
    /\ \/ standing[a] = "member" /\ admins' = admins \cup { a }
       \/ (standing[a] = "removed" \/ ~unique) /\ UNCHANGED admins
    /\ UNCHANGED << unique, standing >>

\* A write from an old copy restores a role that was taken away since.
Restore(a) ==
    /\ standing[a] = "member" /\ a \in entitled
    /\ admins' = admins \cup { a }
    /\ UNCHANGED << unique, standing, entitled >>

Dismiss(a) ==
    /\ admins' = admins \ { a }
    /\ UNCHANGED << unique, standing, entitled >>

Remove(a) ==
    /\ standing[a] = "member"
    /\ standing' = [ standing EXCEPT ![a] = "removed" ]
    /\ admins'   = admins \ { a }
    /\ UNCHANGED << unique, entitled >>

Next ==
    \/ BecomeUnique
    \/ \E a \in Account :
          \/ JoinAsUser(a) \/ JoinAsAdmin(a) \/ Appoint(a)
          \/ Restore(a) \/ Dismiss(a) \/ Remove(a)

Spec == Init /\ [][Next]_vars
===============================================================================

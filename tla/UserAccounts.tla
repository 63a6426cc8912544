----------------------------- MODULE UserAccounts -----------------------------
(***************************************************************************)
(* The users collection and everyone who writes it: the handlers of        *)
(* Clerk's webhooks, which arrive late, twice or out of order and are      *)
(* retried until they are answered 2xx; the middleware, which creates a    *)
(* user on a first visit; and the administrators' requests.  No operation  *)
(* is atomic: each database call is a step, and what a request has read it *)
(* keeps in its own copy.                                                  *)
(***************************************************************************)
EXTENDS Integers, FiniteSets

CONSTANTS
    Account,     \* Clerk user ids
    Email,
    EmailOf,     \* the e-mail address of each account
    Doc,         \* ObjectIDs for the documents of the users collection
    Request,     \* requests the server handles at the same time
    Kinds,       \* the kinds of request that occur
    MaxVersion,  \* bound on the changes of a Clerk profile
    Faults,      \* the faults that occur: those of FaultKinds
    NoUser, NoDoc

WebhookKinds == { "created", "updated", "deleted" }
AdminKinds   == { "role", "active", "remove" }
ClientKinds  == { "visit" } \cup AdminKinds
Role         == { "admin", "user" }
Version      == 0 .. MaxVersion

ASSUME KindsAssumption   == Kinds \subseteq WebhookKinds \cup ClientKinds
ASSUME AccountAssumption == Account # {}
ASSUME EmailAssumption   == EmailOf \in [ Account -> Email ]
ASSUME VersionAssumption == MaxVersion \in Nat
\* "index": the unique indexes could not be created at the start.
FaultKinds == { "db_read", "db_write", "index", "clerk", "crash" }

ASSUME FaultsAssumption  == Faults \subseteq FaultKinds

User == [ account : Account, email : Email, profile : Version,
          role : Role, active : BOOLEAN, deleted : BOOLEAN ]

ASSUME NullAssumption == NoUser \notin User /\ NoDoc \notin Doc

Event == [ kind : WebhookKinds, account : Account, version : Version ]

\* What a handler holds.  doc is the document it works on, copy what it read of it;
\* role, active and version are what the request asks for.
Handling ==
    [ pc      : { "idle", "lookup", "fetch", "count", "insert", "read", "write",
                  "remove", "audit" },
      kind    : WebhookKinds \cup ClientKinds,
      account : Account,
      version : Version,
      doc     : Doc \cup {NoDoc},
      role    : Role,
      active  : BOOLEAN,
      copy    : User \cup {NoUser} ]

VARIABLES
    clerk,    \* Clerk: "none", "live" or "gone", per account
    profile,  \* Clerk: the version of each account's profile
    events,   \* webhooks not yet known to be answered 2xx
    indexed,  \* whether the users collection has its unique indexes
    users,    \* the users collection, soft-deleted documents included
    audits,   \* the audit log: <<action, document, role>>
    req,      \* the requests being handled
    first,    \* history: the first document of all
    setup,    \* history: the documents created with the role "admin"
    assigned  \* history: pairs <<document, role>> that role requests have written

outside == << clerk, profile, indexed >>
history == << first, setup, assigned >>
vars    == << outside, events, users, audits, req, history >>

\* What a handler holds when: its kind of request fits the step it is at, a user it is about
\* to write is one it built for its own account or read under its document's id.
WellFormed(h) ==
    /\ h.pc = "fetch" => h.kind \in ClientKinds
    /\ h.pc = "count" => h.kind = "created"
    /\ h.pc = "insert" => /\ h.kind \in { "created" } \cup ClientKinds
                          /\ h.copy # NoUser /\ h.copy.account = h.account
    /\ h.pc = "read"   => h.kind \in { "updated", "role", "active" }
    /\ h.pc = "write"  => /\ h.kind \in { "updated", "role", "active" }
                          /\ h.doc \in Doc /\ h.copy # NoUser
                          /\ users[h.doc] # NoUser
                          /\ users[h.doc].account = h.copy.account
                          /\ users[h.doc].email   = h.copy.email
    /\ h.pc = "remove" => h.kind \in { "deleted", "remove" }
    /\ h.pc = "audit"  => h.kind \in { "created", "role", "deleted", "remove" }

TypeOK ==
    /\ clerk   \in [ Account -> { "none", "live", "gone" } ]
    /\ profile \in [ Account -> Version ]
    /\ events  \subseteq Event
    /\ users   \in [ Doc -> User \cup {NoUser} ]
    /\ indexed \in BOOLEAN
    /\ audits  \subseteq
          { "user.created", "user.role_updated", "user.deleted" } \X (Doc \cup {NoDoc}) \X Role
    /\ req     \in [ Request -> Handling ]
    /\ first   \in Doc \cup {NoDoc}
    /\ setup    \subseteq Doc
    /\ assigned \subseteq Doc \X Role
    /\ \A r \in Request : WellFormed(req[r])

Idle == [ pc |-> "idle", kind |-> "visit", account |-> CHOOSE a \in Account : TRUE,
          version |-> 0, doc |-> NoDoc, role |-> "user", active |-> TRUE, copy |-> NoUser ]

Init ==
    /\ clerk   = [ a \in Account |-> "none" ]
    /\ profile = [ a \in Account |-> 0 ]
    /\ events  = {}
    /\ indexed \in { TRUE } \cup (IF "index" \in Faults THEN { FALSE } ELSE {})
    /\ users   = [ d \in Doc |-> NoUser ]
    /\ audits  = {}
    /\ req     = [ r \in Request |-> Idle ]
    /\ first   = NoDoc
    /\ setup   = {}
    /\ assigned = {}

-----------------------------------------------------------------------------
(***************************************************************************)
(* Clerk.  Two live accounts never share an e-mail address.                *)
(***************************************************************************)

Emit(kind, a, v) ==
    events' = IF kind \in Kinds
              THEN events \cup { [ kind |-> kind, account |-> a, version |-> v ] } ELSE events

SignUp(a) ==
    /\ clerk[a] = "none"
    /\ \A b \in Account : clerk[b] = "live" => EmailOf[b] # EmailOf[a]
    /\ clerk' = [ clerk EXCEPT ![a] = "live" ]
    /\ Emit("created", a, 0)
    /\ UNCHANGED << profile, indexed, users, audits, req, history >>

EditProfile(a) ==
    /\ clerk[a] = "live" /\ profile[a] < MaxVersion
    /\ profile' = [ profile EXCEPT ![a] = @ + 1 ]
    /\ Emit("updated", a, profile[a] + 1)
    /\ UNCHANGED << clerk, indexed, users, audits, req, history >>

CloseAccount(a) ==
    /\ clerk[a] = "live"
    /\ clerk' = [ clerk EXCEPT ![a] = "gone" ]
    /\ Emit("deleted", a, profile[a])
    /\ UNCHANGED << profile, indexed, users, audits, req, history >>

-----------------------------------------------------------------------------
(***************************************************************************)
(* The collection.                                                         *)
(***************************************************************************)

Stored(d) == d \in Doc /\ users[d] # NoUser
Live(d)   == Stored(d) /\ ~users[d].deleted

ByClerkID(a) == { d \in Doc : Live(d) /\ users[d].account = a }

ReadFails == "db_read" \in Faults

WriteResults == { "ok" } \cup (IF "db_write" \in Faults
                               THEN { "refused", "unacknowledged" } ELSE {})

Documents == { d \in Doc : Stored(d) }

NoDuplicates ==
    \A d, e \in Documents :
        d # e => users[d].account # users[e].account /\ users[d].email # users[e].email

\* Connect serves without the indexes when it could not create them.  They come at a later
\* start, or when a build finishes whose caller had given up, if there are no duplicates.
CreateIndexes ==
    /\ ~indexed /\ NoDuplicates
    /\ indexed' = TRUE
    /\ UNCHANGED << clerk, profile, events, users, audits, req, history >>

\* Faulty variant: the indexes leave deleted documents out.
DuplicateAmongLive(u) ==
    /\ indexed
    /\ \E d \in Doc : Live(d) /\ (users[d].account = u.account \/ users[d].email = u.email)

\* The unique indexes on clerk_user_id and email cover deleted documents too.
Duplicate(u) ==
    /\ indexed
    /\ \E d \in Doc : Stored(d) /\ (users[d].account = u.account \/ users[d].email = u.email)

\* InsertOne under a fresh id.
Insert(d, u) ==
    /\ users[d] = NoUser
    /\ users' = [ users EXCEPT ![d] = u ]
    /\ first' = IF first = NoDoc THEN d ELSE first
    /\ setup' = IF u.role = "admin" THEN setup \cup { d } ELSE setup
    /\ UNCHANGED assigned

\* Faulty variant: deleted_at is written from the copy like every other field.
UpdateEveryField(d, u) ==
    users' = [ users EXCEPT ![d] = u ]

\* $set of the whole copy; deleted_at is nil in it and omitted.
Update(d, u) ==
    users' = [ users EXCEPT ![d] = [ u EXCEPT !.deleted = users[d].deleted ] ]

-----------------------------------------------------------------------------
(***************************************************************************)
(* Requests.                                                               *)
(***************************************************************************)

At(r, pc, kinds) == req[r].pc = pc /\ req[r].kind \in kinds

Becomes(r, h) == req' = [ req EXCEPT ![r] = h ]

\* The request is answered.  A webhook answered 2xx is not sent again, unless the answer is lost.
Answer(r, ok) ==
    /\ Becomes(r, Idle)
    /\ LET e == [ kind |-> req[r].kind, account |-> req[r].account, version |-> req[r].version ]
       IN  events' \in IF ok /\ req[r].kind \in WebhookKinds THEN { events, events \ { e } } ELSE { events }

Reject(r) == Answer(r, FALSE) /\ UNCHANGED << users, audits, history >>

Continue(r, h) == Becomes(r, h) /\ UNCHANGED << events, users, audits, history >>

\* A webhook is delivered.
Deliver(r, e) ==
    /\ req[r].pc = "idle"
    /\ e \in events
    /\ Becomes(r, [ Idle EXCEPT !.pc = "lookup", !.kind = e.kind, !.account = e.account,
                                !.version = e.version ])
    /\ UNCHANGED << outside, events, users, audits, history >>

\* A client sends a request; its token outlives its account for a while.  The id that an
\* administrator names is one of the collection or of no document at all.
Send(r) ==
    /\ req[r].pc = "idle"
    /\ \E a \in Account, k \in Kinds \cap ClientKinds, d \in Doc \cup {NoDoc}, x \in Role, b \in BOOLEAN :
          /\ clerk[a] # "none"
          /\ IF k = "visit" THEN d = NoDoc ELSE Stored(d) \/ d = NoDoc
          /\ k # "role" => x = "user"
          /\ k # "active" => b
          /\ Becomes(r, [ Idle EXCEPT !.pc = "lookup", !.kind = k, !.account = a,
                                      !.doc = d, !.role = x, !.active = b ])
    /\ UNCHANGED << outside, events, users, audits, history >>

\* The middleware has the caller's document: deactivated users are refused, RequireAdmin
\* refuses all but administrators, and the request goes on with this one look.
Admit(r, u) ==
    IF ~u.active \/ (req[r].kind \in AdminKinds /\ u.role # "admin") THEN Reject(r)
    ELSE IF req[r].kind = "visit" THEN Answer(r, TRUE) /\ UNCHANGED << users, audits, history >>
    ELSE Continue(r, [ req[r] EXCEPT !.pc = IF req[r].kind = "remove" THEN "remove" ELSE "read" ])

Authenticate(r) ==
    /\ At(r, "lookup", ClientKinds)
    /\ \/ \E d \in ByClerkID(req[r].account) : Admit(r, users[d])
       \/ /\ ByClerkID(req[r].account) = {} \/ ReadFails
          /\ Continue(r, [ req[r] EXCEPT !.pc = "fetch" ])
    /\ UNCHANGED outside

NewUser(a, v, role) ==
    [ account |-> a, email |-> EmailOf[a], profile |-> v, role |-> role,
      active |-> TRUE, deleted |-> FALSE ]

\* Ask Clerk for the account, to create its user just in time.
FetchFromClerk(r) ==
    /\ At(r, "fetch", ClientKinds)
    /\ \/ /\ clerk[req[r].account] = "live"
          /\ Continue(r, [ req[r] EXCEPT !.pc = "insert",
                             !.copy = NewUser(req[r].account, profile[req[r].account], "user") ])
       \/ /\ clerk[req[r].account] # "live" \/ "clerk" \in Faults
          /\ Reject(r)
    /\ UNCHANGED outside

\* The new user is no administrator: whatever the request asked for, it ends here, with
\* 200, with 403 or, when the insertion reports an error, with 500.
CreateOnVisit(r) ==
    /\ At(r, "insert", ClientKinds)
    /\ \/ /\ Duplicate(req[r].copy) \/ "db_write" \in Faults
          /\ Reject(r)
       \/ \E d \in Doc :
             /\ ~Duplicate(req[r].copy)
             /\ Insert(d, req[r].copy)
             /\ Answer(r, TRUE)
             /\ UNCHANGED audits
    /\ UNCHANGED outside

\* CreateUser: an account that has a user is answered with it.
LookupCreated(r) ==
    /\ At(r, "lookup", { "created" })
    /\ \/ /\ ByClerkID(req[r].account) # {}
          /\ Answer(r, TRUE) /\ UNCHANGED << users, audits, history >>
       \/ /\ ByClerkID(req[r].account) = {} \/ ReadFails
          /\ Continue(r, [ req[r] EXCEPT !.pc = "count" ])
    /\ UNCHANGED outside

\* The first user becomes an administrator; a failed read counts as "not the first".
CountUsers(r) ==
    /\ At(r, "count", { "created" })
    /\ \E role \in (IF \A d \in Doc : ~Live(d) THEN { "admin" } ELSE { "user" })
                      \cup (IF ReadFails THEN { "user" } ELSE {}) :
          Continue(r, [ req[r] EXCEPT !.pc = "insert",
                          !.copy = NewUser(req[r].account, req[r].version, role) ])
    /\ UNCHANGED outside

CreateUser(r) ==
    /\ At(r, "insert", { "created" })
    /\ \/ /\ Duplicate(req[r].copy) \/ "db_write" \in Faults
          /\ Reject(r)
       \/ \E d \in Doc :
             /\ ~Duplicate(req[r].copy)
             /\ Insert(d, req[r].copy)
             /\ \/ /\ Becomes(r, [ req[r] EXCEPT !.pc = "audit", !.doc = d, !.copy = NoUser,
                                                  !.role = req[r].copy.role ])
                   /\ UNCHANGED events
                \/ "db_write" \in Faults /\ Answer(r, FALSE)
             /\ UNCHANGED audits
    /\ UNCHANGED outside

\* Faulty variant: a user that is not there needs no deletion.
FindUserLenient(r) ==
    /\ At(r, "lookup", { "updated", "deleted" })
    /\ \/ \E d \in ByClerkID(req[r].account) :
             Continue(r, [ req[r] EXCEPT !.pc = IF req[r].kind = "deleted" THEN "remove" ELSE "read",
                                         !.doc = d ])
       \/ /\ ByClerkID(req[r].account) = {} \/ ReadFails
          /\ Answer(r, TRUE) /\ UNCHANGED << users, audits, history >>
    /\ UNCHANGED outside

\* handleUserUpdated and handleUserDeleted find the user, or answer 404.
FindUser(r) ==
    /\ At(r, "lookup", { "updated", "deleted" })
    /\ \/ \E d \in ByClerkID(req[r].account) :
             Continue(r, [ req[r] EXCEPT !.pc = IF req[r].kind = "deleted" THEN "remove" ELSE "read",
                                         !.doc = d ])
       \/ /\ ByClerkID(req[r].account) = {} \/ ReadFails
          /\ Reject(r)
    /\ UNCHANGED outside

\* Faulty variant: the error of the read is dropped, and the handler goes on with nothing.
ReadUserUnchecked(r) ==
    /\ At(r, "read", { "updated", "role", "active" })
    /\ Continue(r, [ req[r] EXCEPT !.pc = "write",
                       !.copy = IF Live(req[r].doc) THEN users[req[r].doc] ELSE NoUser ])
    /\ UNCHANGED outside

\* UpdateUser and UpdateRole read the document ...
ReadUser(r) ==
    /\ At(r, "read", { "updated", "role", "active" })
    /\ \/ /\ Live(req[r].doc)
          /\ Continue(r, [ req[r] EXCEPT !.pc = "write", !.copy = users[req[r].doc] ])
       \/ /\ ~Live(req[r].doc) \/ ReadFails
          /\ Reject(r)
    /\ UNCHANGED outside

\* ... change their copy ...
Edited(h) ==
    CASE h.kind = "updated" -> [ h.copy EXCEPT !.profile = h.version ]
      [] h.kind = "role"    -> [ h.copy EXCEPT !.role = h.role ]
      [] h.kind = "active"  -> [ h.copy EXCEPT !.active = h.active ]

Assigned(h, result) ==
    IF result # "refused" /\ h.kind = "role" THEN { << h.doc, h.role >> } ELSE {}

\* Faulty variant: the error of the write is not looked at.
WriteUserUnchecked(r) ==
    /\ At(r, "write", { "updated", "role", "active" })
    /\ \E result \in WriteResults :
          /\ IF result = "refused" THEN UNCHANGED users ELSE Update(req[r].doc, Edited(req[r]))
          /\ assigned' = assigned \cup Assigned(req[r], result)
          /\ IF req[r].kind = "role"
             THEN /\ Becomes(r, [ req[r] EXCEPT !.pc = "audit", !.copy = NoUser ])
                  /\ UNCHANGED events
             ELSE Answer(r, TRUE)
    /\ UNCHANGED << outside, audits, first, setup >>

\* ... and write all of it back.
WriteUser(r) ==
    /\ At(r, "write", { "updated", "role", "active" })
    /\ \E result \in WriteResults :
          /\ IF result = "refused" THEN UNCHANGED users ELSE Update(req[r].doc, Edited(req[r]))
          /\ assigned' = assigned \cup Assigned(req[r], result)
          /\ IF result = "ok" /\ req[r].kind = "role"
             THEN /\ Becomes(r, [ req[r] EXCEPT !.pc = "audit", !.copy = NoUser ])
                  /\ UNCHANGED events
             ELSE Answer(r, result = "ok")
    /\ UNCHANGED << outside, audits, first, setup >>

\* DeleteUser: the soft deletion, of a document that may be deleted already or not exist.
RemoveUser(r) ==
    /\ At(r, "remove", { "deleted", "remove" })
    /\ \E result \in WriteResults :
          /\ users' = IF result = "refused" \/ ~Stored(req[r].doc) THEN users
                      ELSE [ users EXCEPT ![req[r].doc].deleted = TRUE ]
          /\ IF result = "ok"
             THEN /\ Becomes(r, [ req[r] EXCEPT !.pc = "audit" ])
                  /\ UNCHANGED events
             ELSE Answer(r, FALSE)
    /\ UNCHANGED << outside, audits, history >>

AuditAction(kind) ==
    CASE kind = "created" -> "user.created"
      [] kind = "role" -> "user.role_updated"
      [] kind \in { "deleted", "remove" } -> "user.deleted"

\* The audit entry, whose own error is discarded, and the answer 200.
WriteAudit(r) ==
    /\ At(r, "audit", { "created", "role", "deleted", "remove" })
    /\ \E result \in WriteResults :
          audits' = IF result = "refused" THEN audits
                    ELSE audits \cup { << AuditAction(req[r].kind), req[r].doc, req[r].role >> }
    /\ Answer(r, TRUE)
    /\ UNCHANGED << outside, users, history >>

Handle(r) ==
    \/ Authenticate(r) \/ FetchFromClerk(r) \/ CreateOnVisit(r)
    \/ LookupCreated(r) \/ CountUsers(r) \/ CreateUser(r)
    \/ FindUser(r) \/ ReadUser(r) \/ WriteUser(r) \/ RemoveUser(r) \/ WriteAudit(r)

\* The server dies with the requests it was handling.
Crash ==
    /\ "crash" \in Faults
    /\ req' = [ r \in Request |-> Idle ]
    /\ UNCHANGED << outside, events, users, audits, history >>

-----------------------------------------------------------------------------
Next ==
    \/ \E a \in Account : SignUp(a) \/ EditProfile(a) \/ CloseAccount(a)
    \/ \E r \in Request : Send(r) \/ Handle(r) \/ \E e \in events : Deliver(r, e)
    \/ Crash
    \/ CreateIndexes

Spec == Init /\ [][Next]_vars

\* Every request is handled to its end, and a webhook that is not answered 2xx is sent again.
FairSpec ==
    /\ Spec
    /\ \A r \in Request : WF_vars(Handle(r))
    /\ \A e \in Event : SF_vars(\E r \in Request : Deliver(r, e))

-----------------------------------------------------------------------------
(***************************************************************************)
(* Properties.                                                             *)
(***************************************************************************)

\* No write, however old the copy it carries, brings a deleted user back, and no document
\* leaves the collection or changes its owner (userRepo.Update and Delete).
DeletedStaysDeleted ==
    [][ \A d \in Documents :
          /\ users'[d] # NoUser
          /\ users'[d].account = users[d].account
          /\ users[d].deleted => users'[d].deleted ]_vars

\* The audit log tells of a creation, with the role the user was created with, of a change of
\* role, with the new role, and of a deletion only after the collection was written so (the
\* services write the log last).
UserAuditsAreTrue ==
    \A d \in Doc, x \in Role :
        /\ << "user.created", d, x >> \in audits => Stored(d) /\ (x = "admin" <=> d \in setup)
        /\ << "user.role_updated", d, x >> \in audits => << d, x >> \in assigned
        /\ << "user.deleted", d, x >> \in audits => Stored(d) /\ users[d].deleted

\* Who was created as an administrator or was appointed by a role request.
Granted == setup \cup { d \in Doc : << d, "admin" >> \in assigned }

\* What the documents say of the accounts they are about.
OwnersOf(docs) == { users[d].account : d \in docs }

Standing == [ a \in Account |->
                IF ByClerkID(a) # {} THEN "member"
                ELSE IF a \in OwnersOf(Documents) THEN "removed" ELSE "absent" ]
Entitled == OwnersOf(Granted)
Admins   == OwnersOf({ d \in Documents : ~users[d].deleted /\ users[d].role = "admin" })

Accounts == INSTANCE AccountLifecycle
                WITH unique <- indexed, standing <- Standing, entitled <- Entitled, admins <- Admins

\* Seen by account, the collection follows the abstract life cycle: however a webhook and
\* several visits of one account race, once there are indexes it has one user ever, and with
\* or without them stale writes give nobody a role that was not given to it (mongo.go,
\* CreateUser, AuthMiddleware, userRepo.Update and Delete together).
AccountsSpec == Accounts!Spec

\* Where there are indexes, once an account is closed at Clerk its user is deleted, for good,
\* even when the deletion overtakes the creation (handleUserDeleted answers 404 and is called
\* again).  Without them a second document of the account may stay.
DeletionReaches ==
    []indexed => \A a \in Account : clerk[a] = "gone" ~> [](ByClerkID(a) = {})

\* "First user is automatically admin for setup simplicity" (user_service.go:41).
FirstUserIsAdmin == first # NoDoc => first \in setup
===============================================================================

-------------------------- MODULE UserAccountsProofs --------------------------
(***************************************************************************)
(* Proofs about UserAccounts, for any accounts, requests, documents and    *)
(* faults.  The inductive invariant says what the collection, the audit    *)
(* log and every handler's copy have to do with one another; every step    *)
(* keeps what the other handlers rely on (Keeps) and leaves its own        *)
(* handler in order.                                                       *)
(***************************************************************************)
EXTENDS UserAccounts, TLAPS

USE KindsAssumption, AccountAssumption, EmailAssumption, VersionAssumption, NullAssumption

\* Only a creation as administrator or a role request makes an administrator.
PrivilegeIsGranted == \A d \in Documents : users[d].role = "admin" => d \in Granted

\* What a handler holds agrees with the collection: its document exists, a copy it is going
\* to write back has a role that somebody granted, and what it is going to log has happened.
HandlerTrue(h) ==
    /\ h.doc \in Doc => users[h.doc] # NoUser
    /\ h.pc = "insert" => ~h.copy.deleted
    /\ h.pc = "write" => (h.copy.role = "admin" => h.doc \in Granted)
    /\ h.pc = "audit" => /\ h.kind = "created" => h.doc \in Doc /\ (h.role = "admin" <=> h.doc \in setup)
                         /\ h.kind = "role" => h.doc \in Doc /\ << h.doc, h.role >> \in assigned
                         /\ h.kind \in { "deleted", "remove" } /\ h.doc \in Doc
                              => users[h.doc].deleted

HandlerOK(r) == WellFormed(req[r]) /\ HandlerTrue(req[r])

UsersOK ==
    /\ users \in [ Doc -> User \cup {NoUser} ]
    /\ first \in Doc \cup {NoDoc} /\ setup \subseteq Doc /\ assigned \subseteq Doc \X Role
    /\ indexed => NoDuplicates
    /\ PrivilegeIsGranted
    /\ \A d \in Granted : users[d] # NoUser

AuditsOK ==
    /\ audits \subseteq { "user.created", "user.role_updated", "user.deleted" } \X (Doc \cup {NoDoc}) \X Role
    /\ UserAuditsAreTrue

OutsideOK ==
    /\ clerk   \in [ Account -> { "none", "live", "gone" } ]
    /\ profile \in [ Account -> Version ]
    /\ indexed \in BOOLEAN

Inv ==
    /\ OutsideOK
    /\ events \subseteq Event
    /\ UsersOK
    /\ AuditsOK
    /\ req \in [ Request -> Handling ]
    /\ \A r \in Request : HandlerOK(r)

\* What no step does to a document or to the record of who was made an administrator.
Keeps ==
    /\ \A d \in Doc : users[d] # NoUser =>
          /\ users'[d] # NoUser
          /\ users'[d].account = users[d].account
          /\ users'[d].email   = users[d].email
          /\ users[d].deleted => users'[d].deleted
          /\ d \in setup' <=> d \in setup
    /\ setup \subseteq setup' /\ assigned \subseteq assigned'

LEMMA GrantedKept == ASSUME Keeps PROVE Granted \subseteq Granted'
BY DEF Keeps, Granted

LEMMA InvImplies == Inv => TypeOK /\ UserAuditsAreTrue /\ PrivilegeIsGranted
BY DEF Inv, OutsideOK, UsersOK, AuditsOK, HandlerOK, TypeOK

LEMMA IdleOK == Idle \in Handling /\ Idle.pc = "idle" /\ Idle.doc = NoDoc
<1>1. PICK a \in Account : a = CHOOSE b \in Account : TRUE
  BY AccountAssumption
<1>2. 0 \in Version
  BY VersionAssumption DEF Version
<1> QED
  BY <1>1, <1>2 DEF Idle, Handling, ClientKinds, Role

LEMMA InitInv == Init => Inv
<1> SUFFICES ASSUME Init PROVE Inv
  OBVIOUS
<1>1. \A r \in Request : HandlerOK(r)
  BY IdleOK, NullAssumption DEF Init, HandlerOK, WellFormed, HandlerTrue
<1>2. UsersOK
  BY DEF Init, UsersOK, NoDuplicates, PrivilegeIsGranted, Granted, Documents, Stored
<1>3. AuditsOK
  BY DEF Init, AuditsOK, UserAuditsAreTrue
<1>4. /\ clerk \in [ Account -> { "none", "live", "gone" } ] /\ profile \in [ Account -> Version ]
      /\ events \subseteq Event /\ req \in [ Request -> Handling ]
  BY IdleOK, VersionAssumption DEF Init, Version
<1>5. indexed \in BOOLEAN
  BY Zenon DEF Init
<1> QED
  BY <1>1, <1>2, <1>3, <1>4, <1>5 DEF Inv, OutsideOK

-----------------------------------------------------------------------------
(***************************************************************************)
(* What the writes do to the collection.                                   *)
(***************************************************************************)

LEMMA SameUsers ==
    ASSUME Inv, UNCHANGED << users, history >>, UNCHANGED indexed
    PROVE  UsersOK' /\ Keeps
BY DEF Inv, UsersOK, Keeps, history, NoDuplicates, PrivilegeIsGranted, Granted, Documents, Stored

LEMMA InsertedUser ==
    ASSUME Inv, NEW d \in Doc, NEW u \in User, ~Duplicate(u), Insert(d, u), UNCHANGED indexed
    PROVE  UsersOK' /\ Keeps /\ (u.role = "admin" <=> d \in setup')
<1>1. /\ users' = [ users EXCEPT ![d] = u ] /\ users[d] = NoUser /\ u # NoUser
      /\ setup' = IF u.role = "admin" THEN setup \cup { d } ELSE setup
      /\ assigned' = assigned
  BY NullAssumption DEF Insert
<1>2. \A e \in Doc : users'[e] = IF e = d THEN u ELSE users[e]
  BY <1>1 DEF Inv, UsersOK
<1>3. Keeps /\ (u.role = "admin" <=> d \in setup')
  BY <1>1 DEF Keeps, Inv, UsersOK, Granted
<1>4. indexed => NoDuplicates'
  BY <1>1, <1>2 DEF NoDuplicates, Documents, Stored, Duplicate, Inv, UsersOK
<1>5. Granted' = IF u.role = "admin" THEN Granted \cup { d } ELSE Granted
  BY <1>1 DEF Granted
<1>6. PrivilegeIsGranted' /\ \A e \in Granted' : users'[e] # NoUser
  BY <1>1, <1>2, <1>5 DEF PrivilegeIsGranted, Documents, Stored, Inv, UsersOK, Granted
<1>7. users' \in [ Doc -> User \cup {NoUser} ]
      /\ first' \in Doc \cup {NoDoc} /\ setup' \subseteq Doc /\ assigned' \subseteq Doc \X Role
  BY <1>1 DEF Insert, Inv, UsersOK
<1> QED
  BY <1>3, <1>4, <1>6, <1>7 DEF UsersOK

LEMMA EditedUser ==
    ASSUME Inv, NEW r \in Request, At(r, "write", { "updated", "role", "active" })
    PROVE  /\ Edited(req[r]) \in User
           /\ Edited(req[r]).account = req[r].copy.account
           /\ Edited(req[r]).email   = req[r].copy.email
           /\ Edited(req[r]).role = "admin" =>
                \/ req[r].copy.role = "admin"
                \/ req[r].kind = "role" /\ req[r].role = "admin"
<1>1. req[r] \in Handling /\ req[r].copy \in User
  BY DEF Inv, HandlerOK, WellFormed, At, Handling
<1>2. req[r].kind \in { "updated", "role", "active" }
  BY DEF At
<1> QED
  BY <1>1, <1>2 DEF Edited, Handling, User

LEMMA UpdatedUser ==
    ASSUME Inv, NEW r \in Request, At(r, "write", { "updated", "role", "active" }),
           Update(req[r].doc, Edited(req[r])),
           NEW result, result # "refused", assigned' = assigned \cup Assigned(req[r], result),
           UNCHANGED << first, setup >>, UNCHANGED indexed
    PROVE  UsersOK' /\ Keeps
<1> DEFINE d == req[r].doc
           u == [ Edited(req[r]) EXCEPT !.deleted = users[d].deleted ]
<1>1. /\ d \in Doc /\ users[d] \in User
      /\ users[d].account = req[r].copy.account /\ users[d].email = req[r].copy.email
      /\ req[r].copy.role = "admin" => d \in Granted
      /\ req[r].role \in Role
  BY DEF Inv, UsersOK, HandlerOK, WellFormed, HandlerTrue, At, Handling
<1>2. /\ setup' = setup /\ assigned \subseteq assigned' /\ assigned' \subseteq Doc \X Role
      /\ \A e \in Granted' : e = d \/ e \in Granted
      /\ req[r].kind = "role" /\ req[r].role = "admin" => d \in Granted'
      /\ Granted \subseteq Granted'
  <2>1. setup' = setup /\ assigned \subseteq assigned' /\ assigned' \subseteq Doc \X Role
    BY <1>1 DEF Inv, UsersOK, Assigned
  <2>2. req[r].kind = "role" => assigned' = assigned \cup { << d, req[r].role >> }
    BY DEF Assigned
  <2>3. req[r].kind # "role" => assigned' = assigned
    BY DEF Assigned
  <2> QED
    BY <1>1, <2>1, <2>2, <2>3 DEF Granted
<1>3. /\ u \in User /\ u # NoUser
      /\ u.account = users[d].account /\ u.email = users[d].email /\ u.deleted = users[d].deleted
      /\ u.role = Edited(req[r]).role
  BY <1>1, EditedUser, NullAssumption DEF User
<1>4. u.role = "admin" => d \in Granted'
  BY <1>1, <1>3, <1>2, EditedUser
<1>5. users' = [ users EXCEPT ![d] = u ]
  BY DEF Update
<1>6. \A e \in Doc : users'[e] = IF e = d THEN u ELSE users[e]
  BY <1>5 DEF Inv, UsersOK
<1> HIDE DEF d, u
<1>7. Keeps
  BY <1>1, <1>3, <1>6, <1>2 DEF Keeps
<1>8. indexed => NoDuplicates'
  BY <1>1, <1>3, <1>6, NullAssumption DEF NoDuplicates, Documents, Stored, Inv, UsersOK
<1>9. PrivilegeIsGranted' /\ \A e \in Granted' : users'[e] # NoUser
  BY <1>1, <1>3, <1>6, <1>2, <1>4, NullAssumption
     DEF PrivilegeIsGranted, Documents, Stored, Inv, UsersOK, Granted
<1>10. users' \in [ Doc -> User \cup {NoUser} ] /\ first' \in Doc \cup {NoDoc} /\ setup' \subseteq Doc
  BY <1>3, <1>5, <1>2 DEF Inv, UsersOK
<1> QED
  BY <1>2, <1>7, <1>8, <1>9, <1>10 DEF UsersOK

LEMMA RemovedUser ==
    ASSUME Inv, NEW d \in Doc, users[d] # NoUser,
           users' = [ users EXCEPT ![d].deleted = TRUE ], UNCHANGED history, UNCHANGED indexed
    PROVE  UsersOK' /\ Keeps /\ users'[d].deleted
<1> DEFINE u == [ users[d] EXCEPT !.deleted = TRUE ]
<1>1. users[d] \in User
  BY DEF Inv, UsersOK
<1>2. /\ u \in User /\ u # NoUser /\ u.account = users[d].account /\ u.email = users[d].email
      /\ u.deleted /\ u.role = users[d].role
  BY <1>1, NullAssumption DEF User
<1>3. users' = [ users EXCEPT ![d] = u ] /\ \A e \in Doc : users'[e] = IF e = d THEN u ELSE users[e]
  BY DEF Inv, UsersOK
<1>4. setup' = setup /\ assigned' = assigned /\ first' = first /\ Granted' = Granted
  BY DEF history, Granted
<1> HIDE DEF u
<1>5. Keeps /\ users'[d].deleted
  BY <1>1, <1>2, <1>3, <1>4 DEF Keeps
<1>6. indexed => NoDuplicates'
  BY <1>1, <1>2, <1>3, NullAssumption DEF NoDuplicates, Documents, Stored, Inv, UsersOK
<1>7. PrivilegeIsGranted' /\ \A e \in Granted' : users'[e] # NoUser
  BY <1>1, <1>2, <1>3, <1>4, NullAssumption
     DEF PrivilegeIsGranted, Documents, Stored, Inv, UsersOK, Granted
<1>8. users' \in [ Doc -> User \cup {NoUser} ] /\ first' \in Doc \cup {NoDoc}
      /\ setup' \subseteq Doc /\ assigned' \subseteq Doc \X Role
  BY <1>2, <1>3, <1>4 DEF Inv, UsersOK
<1> QED
  BY <1>5, <1>6, <1>7, <1>8 DEF UsersOK

-----------------------------------------------------------------------------
(***************************************************************************)
(* What a step leaves of the handlers and of the audit log.                *)
(***************************************************************************)

\* A handler that did not move is still in order.
LEMMA HandlerKept ==
    ASSUME Inv, Keeps, NEW r \in Request, req'[r] = req[r]
    PROVE  HandlerOK(r)'
<1> DEFINE h == req[r]
<1>1. /\ WellFormed(h) /\ HandlerTrue(h)
      /\ req'[r] = h
  BY DEF Inv, HandlerOK
<1> HIDE DEF h
<1>2. (WellFormed(req[r]))'
  BY <1>1 DEF WellFormed, Keeps
<1>3. (HandlerTrue(req[r]))'
  BY <1>1, GrantedKept DEF HandlerTrue, Keeps
<1> QED
  BY <1>2, <1>3 DEF HandlerOK

LEMMA SameAudits ==
    ASSUME Inv, Keeps, UNCHANGED audits
    PROVE  AuditsOK'
BY DEF Inv, AuditsOK, UserAuditsAreTrue, Stored, Keeps

\* Request r becomes h, and h is in order.
LEMMA Moved ==
    ASSUME Inv, Keeps, NEW r \in Request, NEW h \in Handling, Becomes(r, h),
           UsersOK', AuditsOK', OutsideOK', (events \subseteq Event)',
           HandlerOK(r)'
    PROVE  Inv' /\ Keeps
<1>1. req' = [ req EXCEPT ![r] = h ] /\ req \in [ Request -> Handling ]
  BY DEF Becomes, Inv
<1>2. \A q \in Request : HandlerOK(q)'
  BY <1>1, HandlerKept
<1>3. req' \in [ Request -> Handling ]
  BY <1>1
<1> QED
  BY <1>2, <1>3 DEF Inv

LEMMA Answered ==
    ASSUME Inv, Keeps, NEW r \in Request, NEW ok \in BOOLEAN, Answer(r, ok), UNCHANGED outside,
           UsersOK', AuditsOK'
    PROVE  Inv' /\ Keeps
<1>1. Becomes(r, Idle) /\ events' \subseteq events
  BY DEF Answer
<1>2. (req[r])' = Idle
  BY <1>1 DEF Becomes, Inv
<1>3. HandlerOK(r)'
  BY <1>2, IdleOK, NullAssumption DEF HandlerOK, WellFormed, HandlerTrue
<1>4. OutsideOK' /\ (events \subseteq Event)'
  BY <1>1 DEF Inv, OutsideOK, outside
<1> QED
  BY <1>1, <1>3, <1>4, IdleOK, Moved

LEMMA Rejected ==
    ASSUME Inv, NEW r \in Request, Reject(r), UNCHANGED outside
    PROVE  Inv' /\ Keeps
<1>1. Answer(r, FALSE) /\ UNCHANGED << users, audits, history >>
  BY DEF Reject
<1> QED
  BY <1>1, SameUsers, SameAudits, Answered DEF outside

LEMMA Continued ==
    ASSUME Inv, NEW r \in Request, NEW h \in Handling, Continue(r, h), UNCHANGED outside,
           WellFormed(h), HandlerTrue(h)
    PROVE  Inv' /\ Keeps
<1>1. Becomes(r, h) /\ UNCHANGED << events, users, audits, history >>
  BY DEF Continue
<1>2. UsersOK' /\ Keeps /\ AuditsOK'
  BY <1>1, SameUsers, SameAudits DEF outside
<1>3. (req[r])' = h
  BY <1>1 DEF Becomes, Inv
<1>4. HandlerOK(r)'
  BY <1>1, <1>3 DEF HandlerOK, WellFormed, HandlerTrue, history, Granted
<1>5. OutsideOK' /\ (events \subseteq Event)'
  BY <1>1 DEF Inv, OutsideOK, outside
<1> QED
  BY <1>1, <1>2, <1>4, <1>5, Moved

\* The handlers and the collection are left alone.
LEMMA Elsewhere ==
    ASSUME Inv, UNCHANGED << users, audits, req, history >>, UNCHANGED indexed,
           OutsideOK', (events \subseteq Event)'
    PROVE  Inv' /\ Keeps
<1>1. UsersOK' /\ Keeps /\ AuditsOK'
  BY SameUsers, SameAudits
<1>2. \A r \in Request : HandlerOK(r)'
  BY <1>1, HandlerKept
<1> QED
  BY <1>1, <1>2 DEF Inv

-----------------------------------------------------------------------------
(***************************************************************************)
(* The actions.                                                            *)
(***************************************************************************)

LEMMA EmitTyped ==
    ASSUME Inv, NEW k \in WebhookKinds, NEW a \in Account, NEW v \in Version, Emit(k, a, v)
    PROVE  (events \subseteq Event)'
BY DEF Inv, Emit, Event

LEMMA ClerkStep ==
    ASSUME Inv, NEW a \in Account, SignUp(a) \/ EditProfile(a) \/ CloseAccount(a)
    PROVE  Inv' /\ Keeps
<1>1. /\ clerk \in [ Account -> { "none", "live", "gone" } ] /\ profile \in [ Account -> Version ]
      /\ indexed \in BOOLEAN
  BY DEF Inv, OutsideOK
<1>2. UNCHANGED indexed
  BY DEF SignUp, EditProfile, CloseAccount
<1>3. CASE SignUp(a)
  <2>1. OutsideOK' /\ 0 \in Version
    BY <1>1, <1>3, VersionAssumption DEF SignUp, OutsideOK, Version
  <2> QED
    BY <1>3, <1>2, <2>1, EmitTyped, Elsewhere DEF SignUp, WebhookKinds
<1>4. CASE EditProfile(a)
  <2>1. profile[a] + 1 \in Version
    BY <1>1, <1>4, VersionAssumption DEF EditProfile, Version
  <2>2. OutsideOK'
    BY <1>1, <1>4, <2>1 DEF EditProfile, OutsideOK
  <2> QED
    BY <1>4, <1>2, <2>1, <2>2, EmitTyped, Elsewhere DEF EditProfile, WebhookKinds
<1>5. CASE CloseAccount(a)
  <2>1. OutsideOK' /\ profile[a] \in Version
    BY <1>1, <1>5 DEF CloseAccount, OutsideOK
  <2> QED
    BY <1>5, <1>2, <2>1, EmitTyped, Elsewhere DEF CloseAccount, WebhookKinds
<1> QED
  BY <1>3, <1>4, <1>5

LEMMA HandlingOf ==
    ASSUME Inv, NEW r \in Request
    PROVE  req[r] \in Handling /\ HandlerOK(r)
BY DEF Inv

\* Authenticate, FetchFromClerk, CountUsers and the rest of the look-ups only change what
\* the request holds: HandlerTrue asks nothing of it before it writes or logs.
LEMMA DeliverStep ==
    ASSUME Inv, NEW r \in Request, NEW e \in events, Deliver(r, e)
    PROVE  Inv' /\ Keeps
<1>1. PICK h : h = [ Idle EXCEPT !.pc = "lookup", !.kind = e.kind, !.account = e.account,
                                 !.version = e.version ]
  OBVIOUS
<1>2. e \in Event
  BY DEF Inv
<1>3. h \in Handling /\ h.pc = "lookup" /\ h.doc = NoDoc
  BY <1>1, <1>2, IdleOK DEF Handling, Event
<1>4. WellFormed(h) /\ HandlerTrue(h)
  BY <1>3, NullAssumption DEF WellFormed, HandlerTrue
<1>5. Continue(r, h) /\ UNCHANGED outside
  BY <1>1 DEF Deliver, Continue
<1> QED
  BY <1>3, <1>4, <1>5, Continued

LEMMA SendStep ==
    ASSUME Inv, NEW r \in Request, Send(r)
    PROVE  Inv' /\ Keeps
<1>1. PICK a \in Account, k \in Kinds \cap ClientKinds, d \in Doc \cup {NoDoc}, x \in Role, b \in BOOLEAN :
        /\ IF k = "visit" THEN d = NoDoc ELSE Stored(d) \/ d = NoDoc
        /\ Becomes(r, [ Idle EXCEPT !.pc = "lookup", !.kind = k, !.account = a,
                                    !.doc = d, !.role = x, !.active = b ])
  BY DEF Send
<1>2. PICK h : h = [ Idle EXCEPT !.pc = "lookup", !.kind = k, !.account = a,
                                 !.doc = d, !.role = x, !.active = b ]
  OBVIOUS
<1>3. h \in Handling /\ h.pc = "lookup" /\ (h.doc \in Doc => users[h.doc] # NoUser)
  BY <1>1, <1>2, IdleOK, NullAssumption DEF Handling, Stored
<1>4. WellFormed(h) /\ HandlerTrue(h)
  BY <1>3 DEF WellFormed, HandlerTrue
<1>5. Continue(r, h) /\ UNCHANGED outside
  BY <1>1, <1>2 DEF Send, Continue
<1> QED
  BY <1>3, <1>4, <1>5, Continued

LEMMA AdmitStep ==
    ASSUME Inv, NEW r \in Request, NEW u, At(r, "lookup", ClientKinds), Admit(r, u),
           UNCHANGED outside
    PROVE  Inv' /\ Keeps
<1>1. CASE Reject(r)
  BY <1>1, Rejected
<1>2. CASE Answer(r, TRUE) /\ UNCHANGED << users, audits, history >>
  BY <1>2, SameUsers, SameAudits, Answered DEF outside
<1>3. CASE /\ req[r].kind # "visit"
           /\ Continue(r, [ req[r] EXCEPT !.pc = IF req[r].kind = "remove" THEN "remove" ELSE "read" ])
  <2>1. PICK h : h = [ req[r] EXCEPT !.pc = IF req[r].kind = "remove" THEN "remove" ELSE "read" ]
    OBVIOUS
  <2>2. h \in Handling
    BY <2>1, HandlingOf DEF Handling
  <2>3. WellFormed(h) /\ HandlerTrue(h)
    BY <1>3, <2>1, HandlingOf
       DEF WellFormed, HandlerTrue, HandlerOK, At, ClientKinds, AdminKinds, Handling
  <2> QED
    BY <1>3, <2>1, <2>2, <2>3, Continued
<1> QED
  BY <1>1, <1>2, <1>3 DEF Admit

LEMMA AuthenticateStep ==
    ASSUME Inv, NEW r \in Request, Authenticate(r)
    PROVE  Inv' /\ Keeps
<1>1. CASE \E d \in ByClerkID(req[r].account) : Admit(r, users[d])
  BY <1>1, AdmitStep DEF Authenticate
<1>2. CASE Continue(r, [ req[r] EXCEPT !.pc = "fetch" ])
  <2>1. PICK h : h = [ req[r] EXCEPT !.pc = "fetch" ]
    OBVIOUS
  <2>2. h \in Handling /\ WellFormed(h) /\ HandlerTrue(h)
    BY <2>1, HandlingOf DEF WellFormed, HandlerTrue, HandlerOK, Authenticate, At, Handling
  <2> QED
    BY <1>2, <2>1, <2>2, Continued DEF Authenticate
<1> QED
  BY <1>1, <1>2 DEF Authenticate

LEMMA NewUserOK ==
    ASSUME NEW a \in Account, NEW v \in Version, NEW x \in Role
    PROVE  /\ NewUser(a, v, x) \in User /\ NewUser(a, v, x) # NoUser
           /\ NewUser(a, v, x).account = a /\ ~NewUser(a, v, x).deleted
<1>1. NewUser(a, v, x) \in User
  BY EmailAssumption DEF NewUser, User
<1>2. NewUser(a, v, x).account = a /\ ~NewUser(a, v, x).deleted
  BY DEF NewUser
<1> QED
  BY <1>1, <1>2, NullAssumption

\* A user built for the request's own account is held, ready to be inserted.
LEMMA BuiltStep ==
    ASSUME Inv, NEW r \in Request, NEW v \in Version, NEW x \in Role, NEW u,
           u = NewUser(req[r].account, v, x),
           req[r].kind \in { "created" } \cup ClientKinds,
           Continue(r, [ req[r] EXCEPT !.pc = "insert", !.copy = u ]), UNCHANGED outside
    PROVE  Inv' /\ Keeps
<1>1. PICK h : h = [ req[r] EXCEPT !.pc = "insert", !.copy = u ]
  OBVIOUS
<1>2. req[r] \in Handling /\ HandlerTrue(req[r])
  BY HandlingOf DEF HandlerOK
<1>3. u \in User /\ u # NoUser /\ u.account = req[r].account /\ ~u.deleted
  BY <1>2, NewUserOK DEF Handling
<1>4. h \in Handling
  BY <1>1, <1>2, <1>3 DEF Handling
<1>5. /\ h.pc = "insert" /\ h.copy = u /\ h.account = req[r].account
      /\ h.kind = req[r].kind /\ h.doc = req[r].doc
  BY <1>1, <1>2 DEF Handling
<1>6. WellFormed(h) /\ HandlerTrue(h)
  BY <1>2, <1>3, <1>5 DEF WellFormed, HandlerTrue
<1> QED
  BY <1>1, <1>4, <1>6, Continued

LEMMA FetchFromClerkStep ==
    ASSUME Inv, NEW r \in Request, FetchFromClerk(r)
    PROVE  Inv' /\ Keeps
<1>1. CASE Reject(r)
  BY <1>1, Rejected DEF FetchFromClerk
<1>2. PICK u : u = NewUser(req[r].account, profile[req[r].account], "user")
  OBVIOUS
<1>3. CASE Continue(r, [ req[r] EXCEPT !.pc = "insert", !.copy = u ])
  <2>1. req[r] \in Handling /\ profile \in [ Account -> Version ]
    BY DEF Inv, OutsideOK
  <2>2. profile[req[r].account] \in Version /\ "user" \in Role
    BY <2>1 DEF Handling, Role
  <2>3. req[r].kind \in { "created" } \cup ClientKinds /\ UNCHANGED outside
    BY DEF FetchFromClerk, At
  <2> QED
    BY <1>2, <1>3, <2>2, <2>3, BuiltStep
<1> QED
  BY <1>1, <1>2, <1>3 DEF FetchFromClerk

LEMMA CreateOnVisitStep ==
    ASSUME Inv, NEW r \in Request, CreateOnVisit(r)
    PROVE  Inv' /\ Keeps
<1>1. CASE Reject(r)
  BY <1>1, Rejected DEF CreateOnVisit
<1>2. ASSUME NEW d \in Doc, ~Duplicate(req[r].copy), Insert(d, req[r].copy), Answer(r, TRUE),
             UNCHANGED audits
      PROVE  Inv' /\ Keeps
  <2>1. req[r].copy \in User
    BY HandlingOf DEF HandlerOK, WellFormed, CreateOnVisit, At, Handling
  <2>2. UsersOK' /\ Keeps
    BY <1>2, <2>1, InsertedUser DEF CreateOnVisit, outside
  <2> QED
    BY <1>2, <2>2, SameAudits, Answered DEF CreateOnVisit
<1> QED
  BY <1>1, <1>2 DEF CreateOnVisit

LEMMA LookupCreatedStep ==
    ASSUME Inv, NEW r \in Request, LookupCreated(r)
    PROVE  Inv' /\ Keeps
<1>1. CASE Answer(r, TRUE) /\ UNCHANGED << users, audits, history >>
  BY <1>1, SameUsers, SameAudits, Answered DEF LookupCreated, outside
<1>2. CASE Continue(r, [ req[r] EXCEPT !.pc = "count" ])
  <2>1. PICK h : h = [ req[r] EXCEPT !.pc = "count" ]
    OBVIOUS
  <2>2. h \in Handling /\ WellFormed(h) /\ HandlerTrue(h)
    BY <2>1, HandlingOf DEF WellFormed, HandlerTrue, HandlerOK, LookupCreated, At, Handling
  <2> QED
    BY <1>2, <2>1, <2>2, Continued DEF LookupCreated
<1> QED
  BY <1>1, <1>2 DEF LookupCreated

LEMMA CountUsersStep ==
    ASSUME Inv, NEW r \in Request, CountUsers(r)
    PROVE  Inv' /\ Keeps
<1>1. PICK x \in Role : Continue(r, [ req[r] EXCEPT !.pc = "insert",
                           !.copy = NewUser(req[r].account, req[r].version, x) ])
  BY DEF CountUsers, Role
<1>2. PICK u : u = NewUser(req[r].account, req[r].version, x)
  OBVIOUS
<1>3. req[r].version \in Version
  BY HandlingOf DEF Handling
<1>4. req[r].kind \in { "created" } \cup ClientKinds /\ UNCHANGED outside
  BY DEF CountUsers, At
<1> QED
  BY <1>1, <1>2, <1>3, <1>4, BuiltStep

LEMMA CreateUserStep ==
    ASSUME Inv, NEW r \in Request, CreateUser(r)
    PROVE  Inv' /\ Keeps
<1>1. CASE Reject(r)
  BY <1>1, Rejected DEF CreateUser
<1>2. ASSUME NEW d \in Doc, ~Duplicate(req[r].copy), Insert(d, req[r].copy), UNCHANGED audits,
             UNCHANGED outside,
             \/ /\ Becomes(r, [ req[r] EXCEPT !.pc = "audit", !.doc = d, !.copy = NoUser,
                                              !.role = req[r].copy.role ])
                /\ UNCHANGED events
             \/ Answer(r, FALSE)
      PROVE  Inv' /\ Keeps
  <2>1. req[r].copy \in User /\ req[r].kind = "created"
    BY HandlingOf DEF HandlerOK, WellFormed, CreateUser, At, Handling
  <2>2. UsersOK' /\ Keeps /\ AuditsOK' /\ (req[r].copy.role = "admin" <=> d \in setup')
    BY <1>2, <2>1, InsertedUser, SameAudits DEF outside
  <2>3. CASE Answer(r, FALSE)
    BY <1>2, <2>2, <2>3, Answered
  <2>4. CASE /\ Becomes(r, [ req[r] EXCEPT !.pc = "audit", !.doc = d, !.copy = NoUser,
                                           !.role = req[r].copy.role ])
             /\ UNCHANGED events
    <3>1. PICK h : h = [ req[r] EXCEPT !.pc = "audit", !.doc = d, !.copy = NoUser,
                                       !.role = req[r].copy.role ]
      OBVIOUS
    <3>2. h \in Handling /\ h.pc = "audit" /\ h.doc = d /\ h.kind = "created"
          /\ h.role = req[r].copy.role
      <4>1. req[r].copy.role \in Role
        BY <2>1 DEF User
      <4> QED
        BY <2>1, <3>1, <4>1, HandlingOf DEF Handling
    <3>3. (req[r])' = h /\ users'[d] # NoUser
      BY <1>2, <2>1, <2>4, <3>1, NullAssumption DEF Becomes, Insert, Inv, UsersOK
    <3>4. HandlerOK(r)'
      BY <2>2, <3>2, <3>3 DEF HandlerOK, WellFormed, HandlerTrue
    <3>5. OutsideOK' /\ (events \subseteq Event)'
      BY <1>2, <2>4 DEF Inv, OutsideOK, outside
    <3> QED
      BY <2>2, <2>4, <3>1, <3>2, <3>4, <3>5, Moved
  <2> QED
    BY <1>2, <2>3, <2>4
<1> QED
  BY <1>1, <1>2 DEF CreateUser

LEMMA FindUserStep ==
    ASSUME Inv, NEW r \in Request, FindUser(r)
    PROVE  Inv' /\ Keeps
<1>1. CASE Reject(r)
  BY <1>1, Rejected DEF FindUser
<1>2. ASSUME NEW d \in ByClerkID(req[r].account),
             Continue(r, [ req[r] EXCEPT !.pc = IF req[r].kind = "deleted" THEN "remove" ELSE "read",
                                         !.doc = d ])
      PROVE  Inv' /\ Keeps
  <2>1. PICK h : h = [ req[r] EXCEPT !.pc = IF req[r].kind = "deleted" THEN "remove" ELSE "read",
                                     !.doc = d ]
    OBVIOUS
  <2>2. d \in Doc /\ users[d] # NoUser
    BY DEF ByClerkID, Live, Stored
  <2>3. h \in Handling /\ h.doc = d /\ h.kind = req[r].kind
        /\ h.pc = IF req[r].kind = "deleted" THEN "remove" ELSE "read"
    BY <2>1, <2>2, HandlingOf DEF Handling
  <2>4. WellFormed(h) /\ HandlerTrue(h)
    BY <2>2, <2>3 DEF WellFormed, HandlerTrue, FindUser, At
  <2> QED
    BY <1>2, <2>1, <2>3, <2>4, Continued DEF FindUser
<1> QED
  BY <1>1, <1>2 DEF FindUser

\* What ReadUser reads is the document of the request, and its role was granted.
LEMMA ReadUserStep ==
    ASSUME Inv, NEW r \in Request, ReadUser(r)
    PROVE  Inv' /\ Keeps
<1>1. CASE Reject(r)
  BY <1>1, Rejected DEF ReadUser
<1>2. CASE /\ Live(req[r].doc)
           /\ Continue(r, [ req[r] EXCEPT !.pc = "write", !.copy = users[req[r].doc] ])
  <2>1. PICK h : h = [ req[r] EXCEPT !.pc = "write", !.copy = users[req[r].doc] ]
    OBVIOUS
  <2>2. req[r].doc \in Doc /\ users[req[r].doc] # NoUser /\ users[req[r].doc] \in User
    BY <1>2 DEF Live, Stored, Inv, UsersOK
  <2>3. h \in Handling /\ h.pc = "write" /\ h.copy = users[h.doc] /\ h.doc = req[r].doc
        /\ h.kind = req[r].kind
    BY <2>1, <2>2, HandlingOf DEF Handling
  <2>4. users[h.doc].role = "admin" => h.doc \in Granted
    BY <2>2, <2>3 DEF Inv, UsersOK, PrivilegeIsGranted, Documents, Stored
  <2>5. WellFormed(h) /\ HandlerTrue(h)
    BY <2>2, <2>3, <2>4 DEF WellFormed, HandlerTrue, ReadUser, At
  <2> QED
    BY <1>2, <2>1, <2>3, <2>5, Continued DEF ReadUser
<1> QED
  BY <1>1, <1>2 DEF ReadUser

LEMMA WriteUserStep ==
    ASSUME Inv, NEW r \in Request, WriteUser(r)
    PROVE  Inv' /\ Keeps
<1>1. PICK result \in WriteResults :
        /\ IF result = "refused" THEN UNCHANGED users ELSE Update(req[r].doc, Edited(req[r]))
        /\ assigned' = assigned \cup Assigned(req[r], result)
        /\ IF result = "ok" /\ req[r].kind = "role"
           THEN /\ Becomes(r, [ req[r] EXCEPT !.pc = "audit", !.copy = NoUser ])
                /\ UNCHANGED events
           ELSE Answer(r, result = "ok")
  BY DEF WriteUser
<1>2. At(r, "write", { "updated", "role", "active" })
      /\ UNCHANGED << outside, audits, first, setup >>
  BY DEF WriteUser
<1>3. UsersOK' /\ Keeps
  <2>1. CASE result = "refused"
    <3>1. assigned' = assigned
      BY <1>1, <2>1 DEF Assigned
    <3> QED
      BY <1>1, <1>2, <2>1, <3>1, SameUsers DEF history, outside
  <2>2. CASE result # "refused"
    BY <1>1, <1>2, <2>2, UpdatedUser DEF outside
  <2> QED
    BY <2>1, <2>2
<1>4. AuditsOK'
  BY <1>2, <1>3, SameAudits
<1>5. CASE result = "ok" /\ req[r].kind = "role"
  <2>1. PICK h : h = [ req[r] EXCEPT !.pc = "audit", !.copy = NoUser ]
    OBVIOUS
  <2>2. Becomes(r, h) /\ UNCHANGED events
    BY <1>1, <1>5, <2>1
  <2>3. h \in Handling /\ h.pc = "audit" /\ h.doc = req[r].doc /\ h.kind = "role"
        /\ h.role = req[r].role
    BY <1>5, <2>1, HandlingOf DEF Handling
  <2>4. (req[r])' = h
    BY <2>2 DEF Becomes, Inv
  <2>5. req[r].doc \in Doc /\ users[req[r].doc] # NoUser
        /\ << req[r].doc, req[r].role >> \in assigned'
    BY <1>1, <1>2, <1>5, HandlingOf DEF HandlerOK, WellFormed, At, Assigned
  <2>6. HandlerOK(r)'
    BY <1>3, <2>3, <2>4, <2>5 DEF HandlerOK, WellFormed, HandlerTrue, Keeps
  <2>7. OutsideOK' /\ (events \subseteq Event)'
    BY <1>2, <2>2 DEF Inv, OutsideOK, outside
  <2> QED
    BY <1>3, <1>4, <2>2, <2>3, <2>6, <2>7, Moved
<1>6. CASE ~(result = "ok" /\ req[r].kind = "role")
  <2>1. Answer(r, result = "ok") /\ (result = "ok") \in BOOLEAN
    BY <1>1, <1>6
  <2> QED
    BY <1>2, <1>3, <1>4, <2>1, Answered
<1> QED
  BY <1>5, <1>6

LEMMA RemoveUserStep ==
    ASSUME Inv, NEW r \in Request, RemoveUser(r)
    PROVE  Inv' /\ Keeps
<1>1. PICK result \in WriteResults :
        /\ users' = IF result = "refused" \/ ~Stored(req[r].doc) THEN users
                    ELSE [ users EXCEPT ![req[r].doc].deleted = TRUE ]
        /\ IF result = "ok"
           THEN /\ Becomes(r, [ req[r] EXCEPT !.pc = "audit" ])
                /\ UNCHANGED events
           ELSE Answer(r, FALSE)
  BY DEF RemoveUser
<1>2. At(r, "remove", { "deleted", "remove" }) /\ UNCHANGED << outside, audits, history >>
  BY DEF RemoveUser
<1>3. req[r].doc \in Doc => Stored(req[r].doc)
  BY HandlingOf DEF HandlerOK, HandlerTrue, Stored
<1>4. /\ UsersOK' /\ Keeps
      /\ result = "ok" /\ req[r].doc \in Doc => users'[req[r].doc].deleted
  <2>1. CASE result = "refused" \/ ~Stored(req[r].doc)
    BY <1>1, <1>2, <1>3, <2>1, SameUsers DEF outside
  <2>2. CASE ~(result = "refused" \/ ~Stored(req[r].doc))
    <3>1. req[r].doc \in Doc /\ users[req[r].doc] # NoUser
      BY <2>2 DEF Stored
    <3>2. users' = [ users EXCEPT ![req[r].doc].deleted = TRUE ]
      BY <1>1, <2>2
    <3> QED
      BY <1>2, <3>1, <3>2, RemovedUser DEF outside
  <2> QED
    BY <2>1, <2>2
<1>5. AuditsOK'
  BY <1>2, <1>4, SameAudits
<1>6. CASE result = "ok"
  <2>1. PICK h : h = [ req[r] EXCEPT !.pc = "audit" ]
    OBVIOUS
  <2>2. Becomes(r, h) /\ UNCHANGED events
    BY <1>1, <1>6, <2>1
  <2>3. h \in Handling /\ h.pc = "audit" /\ h.doc = req[r].doc /\ h.kind \in { "deleted", "remove" }
    BY <1>2, <2>1, HandlingOf DEF Handling, At
  <2>4. (req[r])' = h
    BY <2>2 DEF Becomes, Inv
  <2>5. HandlerOK(r)'
    BY <1>3, <1>4, <1>6, <2>3, <2>4 DEF HandlerOK, WellFormed, HandlerTrue, Keeps, Stored
  <2>6. OutsideOK' /\ (events \subseteq Event)'
    BY <1>2, <2>2 DEF Inv, OutsideOK, outside
  <2> QED
    BY <1>4, <1>5, <2>2, <2>3, <2>5, <2>6, Moved
<1>7. CASE result # "ok"
  BY <1>1, <1>2, <1>4, <1>5, <1>7, Answered
<1> QED
  BY <1>6, <1>7

LEMMA WriteAuditStep ==
    ASSUME Inv, NEW r \in Request, WriteAudit(r)
    PROVE  Inv' /\ Keeps
<1>1. /\ UNCHANGED << users, history >> /\ UNCHANGED outside /\ Answer(r, TRUE)
      /\ At(r, "audit", { "created", "role", "deleted", "remove" })
  BY DEF WriteAudit
<1>2. UsersOK' /\ Keeps
  BY <1>1, SameUsers DEF outside
<1>3. CASE audits' = audits
  BY <1>1, <1>2, <1>3, SameAudits, Answered
<1>4. CASE audits' = audits \cup { << AuditAction(req[r].kind), req[r].doc, req[r].role >> }
  <2> DEFINE action == AuditAction(req[r].kind)
  <2>1. /\ req[r].doc \in Doc \cup {NoDoc} /\ req[r].role \in Role
        /\ req[r].doc \in Doc => users[req[r].doc] # NoUser
        /\ action = "user.created" => (req[r].role = "admin" <=> req[r].doc \in setup)
        /\ action = "user.role_updated" => << req[r].doc, req[r].role >> \in assigned
        /\ action \in { "user.created", "user.role_updated", "user.deleted" }
        /\ action = "user.deleted" /\ req[r].doc \in Doc => users[req[r].doc].deleted
    BY <1>1, HandlingOf DEF Handling, HandlerOK, HandlerTrue, At, AuditAction
  <2> HIDE DEF action
  <2>2. UserAuditsAreTrue'
    BY <1>1, <1>4, <2>1 DEF UserAuditsAreTrue, Stored, Inv, AuditsOK, action, history
  <2>3. AuditsOK'
    BY <1>4, <2>1, <2>2 DEF Inv, AuditsOK, action
  <2> QED
    BY <1>1, <1>2, <2>3, Answered
<1> QED
  BY <1>3, <1>4 DEF WriteAudit

LEMMA CrashStep ==
    ASSUME Inv, Crash
    PROVE  Inv' /\ Keeps
<1>1. UsersOK' /\ Keeps /\ AuditsOK'
  BY SameUsers, SameAudits DEF Crash, outside
<1>2. \A r \in Request : HandlerOK(r)'
  BY IdleOK, NullAssumption DEF Crash, HandlerOK, WellFormed, HandlerTrue
<1>3. OutsideOK' /\ (events \subseteq Event)' /\ req' \in [ Request -> Handling ]
  BY IdleOK DEF Crash, Inv, OutsideOK, outside
<1> QED
  BY <1>1, <1>2, <1>3 DEF Inv

LEMMA CreateIndexesStep ==
    ASSUME Inv, CreateIndexes
    PROVE  Inv' /\ Keeps
<1>1. UNCHANGED << users, audits, req, history >> /\ indexed' = TRUE /\ NoDuplicates
  BY DEF CreateIndexes
<1>2. UsersOK' /\ Keeps
  BY <1>1 DEF Inv, UsersOK, Keeps, history, NoDuplicates, PrivilegeIsGranted, Granted, Documents,
     Stored
<1>3. AuditsOK' /\ \A r \in Request : HandlerOK(r)'
  BY <1>1, <1>2, SameAudits, HandlerKept
<1>4. OutsideOK' /\ (events \subseteq Event)' /\ (req \in [ Request -> Handling ])'
  BY <1>1 DEF CreateIndexes, Inv, OutsideOK
<1> QED
  BY <1>2, <1>3, <1>4 DEF Inv

LEMMA HandleStep ==
    ASSUME Inv, NEW r \in Request, Handle(r)
    PROVE  Inv' /\ Keeps
BY AuthenticateStep, FetchFromClerkStep, CreateOnVisitStep, LookupCreatedStep, CountUsersStep,
   CreateUserStep, FindUserStep, ReadUserStep, WriteUserStep, RemoveUserStep, WriteAuditStep
   DEF Handle

LEMMA StepInv == Inv /\ [Next]_vars => Inv' /\ Keeps
<1> SUFFICES ASSUME Inv, [Next]_vars PROVE Inv' /\ Keeps
  OBVIOUS
<1>1. CASE UNCHANGED vars
  BY <1>1, Elsewhere DEF vars, outside, Inv, OutsideOK
<1>2. CASE \E a \in Account : SignUp(a) \/ EditProfile(a) \/ CloseAccount(a)
  BY <1>2, ClerkStep
<1>3. CASE \E r \in Request : Send(r) \/ Handle(r) \/ \E e \in events : Deliver(r, e)
  BY <1>3, SendStep, HandleStep, DeliverStep
<1>4. CASE Crash
  BY <1>4, CrashStep
<1>5. CASE CreateIndexes
  BY <1>5, CreateIndexesStep
<1> QED
  BY <1>1, <1>2, <1>3, <1>4, <1>5 DEF Next

LEMMA Invariance == Spec => []Inv
BY InitInv, StepInv, PTL DEF Spec

-----------------------------------------------------------------------------
(***************************************************************************)
(* Theorems.                                                               *)
(***************************************************************************)

\* Every variable keeps its type, and what a handler holds fits the step it is at
\* (auth_handler.go, auth.go, user_service.go).
THEOREM TypeCorrect == Spec => []TypeOK
BY Invariance, InvImplies, PTL

\* The audit log tells of a creation, a change of role and a deletion only after the collection
\* was written so, and of the first two with the role that was written (user_service.go).
THEOREM AuditsTrue == Spec => []UserAuditsAreTrue
BY Invariance, InvImplies, PTL

\* An administrator was created or appointed as one, whatever stale copy was written back
\* in between (UpdateUser, UpdateRole, userRepo.Update).
THEOREM PrivilegeGranted == Spec => []PrivilegeIsGranted
BY Invariance, InvImplies, PTL

\* No write brings a deleted user back, removes a document or gives it to another account
\* (userRepo.Update and Delete).
THEOREM DeletedStays == Spec => DeletedStaysDeleted
<1>1. Inv /\ [Next]_vars =>
        [ \A d \in Documents :
          /\ users'[d] # NoUser
          /\ users'[d].account = users[d].account
          /\ users[d].deleted => users'[d].deleted ]_vars
  BY StepInv DEF Keeps, Documents, Stored
<1> QED
  BY <1>1, Invariance, PTL DEF Spec, DeletedStaysDeleted

-----------------------------------------------------------------------------
(***************************************************************************)
(* How far the missing first administrator goes.  The violation of         *)
(* FirstUserIsAdmin needs a client's request, which creates an ordinary    *)
(* user; another one is a count of the users that fails.  Webhooks alone,  *)
(* however they race, repeat and fail, make the first user administrator.  *)
(***************************************************************************)

FirstOK ==
    /\ \A r \in Request : req[r].pc = "idle" \/ req[r].kind \in WebhookKinds
    /\ first = NoDoc => /\ \A d \in Doc : users[d] = NoUser
                        /\ \A r \in Request : req[r].pc = "insert" => req[r].copy.role = "admin"
    /\ FirstUserIsAdmin

\* A request goes on or ends; the collection changes only once it has a first document.
LEMMA FirstKeptBy ==
    ASSUME Inv, FirstOK, NEW r \in Request, NEW h, Becomes(r, h),
           h.pc = "idle" \/ h.kind \in WebhookKinds,
           h.pc = "insert" /\ first = NoDoc => h.copy.role = "admin",
           UNCHANGED first, setup \subseteq setup', first = NoDoc => UNCHANGED users
    PROVE  FirstOK'
<1>1. req' = [ req EXCEPT ![r] = h ] /\ req \in [ Request -> Handling ]
  BY DEF Becomes, Inv
<1>2. req'[r] = h /\ \A q \in Request \ {r} : req'[q] = req[q]
  BY <1>1
<1> QED
  BY <1>2 DEF FirstOK, FirstUserIsAdmin

LEMMA FirstKeptByAnswer ==
    ASSUME Inv, FirstOK, NEW r \in Request, NEW ok, Answer(r, ok),
           UNCHANGED first, setup \subseteq setup', first = NoDoc => UNCHANGED users
    PROVE  FirstOK'
<1>1. Becomes(r, Idle)
  BY DEF Answer
<1> QED
  BY <1>1, IdleOK, FirstKeptBy

LEMMA FirstKeptByReject ==
    ASSUME Inv, FirstOK, NEW r \in Request, Reject(r)
    PROVE  FirstOK'
BY FirstKeptByAnswer DEF Reject, history

\* Count and insertion are two steps, and the collection may have gained its first user in
\* between: then the counting request brings a second administrator, never a first user
\* that is none.
LEMMA FirstKeptByCreation ==
    ASSUME "db_read" \notin Faults, Inv, FirstOK, NEW r \in Request,
           LookupCreated(r) \/ CountUsers(r) \/ CreateUser(r)
    PROVE  FirstOK'
<1> DEFINE g == req[r]
<1>1. g \in Handling /\ HandlerOK(r) /\ g.kind = "created" /\ "created" \in WebhookKinds
  BY HandlingOf DEF LookupCreated, CountUsers, CreateUser, At, WebhookKinds
<1>2. CASE LookupCreated(r)
  <2>1. CASE Answer(r, TRUE) /\ UNCHANGED << users, audits, history >>
    BY <2>1, FirstKeptByAnswer DEF history
  <2>2. CASE Continue(r, [ g EXCEPT !.pc = "count" ])
    <3>1. PICK h : h = [ g EXCEPT !.pc = "count" ]
      OBVIOUS
    <3>2. h.pc = "count" /\ h.kind = "created"
      BY <1>1, <3>1 DEF Handling
    <3> QED
      BY <1>1, <2>2, <3>1, <3>2, FirstKeptBy DEF Continue, history
  <2> QED
    BY <1>2, <2>1, <2>2 DEF LookupCreated
<1>3. CASE CountUsers(r)
  <2>1. PICK role \in (IF \A d \in Doc : ~Live(d) THEN { "admin" } ELSE { "user" }) :
            Continue(r, [ g EXCEPT !.pc = "insert",
                                   !.copy = NewUser(g.account, g.version, role) ])
    BY <1>3 DEF CountUsers, ReadFails
  <2>2. first = NoDoc => role = "admin"
    BY <2>1 DEF FirstOK, Live, Stored
  <2>3. PICK h : h = [ g EXCEPT !.pc = "insert", !.copy = NewUser(g.account, g.version, role) ]
    OBVIOUS
  <2>4. h.pc = "insert" /\ h.kind = "created" /\ h.copy.role = role
    BY <1>1, <2>3 DEF Handling, NewUser
  <2> QED
    BY <1>1, <2>1, <2>2, <2>3, <2>4, FirstKeptBy DEF Continue, history
<1>4. CASE CreateUser(r)
  <2>1. CASE Reject(r)
    BY <2>1, FirstKeptByReject
  <2>2. ASSUME NEW d \in Doc, Insert(d, g.copy),
               \/ Becomes(r, [ g EXCEPT !.pc = "audit", !.doc = d, !.copy = NoUser,
                                        !.role = g.copy.role ])
               \/ Answer(r, FALSE)
        PROVE  FirstOK'
    <3>1. g.pc = "insert"
      BY <1>4 DEF CreateUser, At
    <3>2. PICK h : /\ Becomes(r, h) /\ h.pc # "insert"
                   /\ h.pc = "idle" \/ h.kind \in WebhookKinds
      <4>1. PICK j : j = [ g EXCEPT !.pc = "audit", !.doc = d, !.copy = NoUser,
                                    !.role = g.copy.role ]
        OBVIOUS
      <4>2. j.pc = "audit" /\ j.kind = "created"
        BY <1>1, <4>1 DEF Handling
      <4> QED
        BY <1>1, <2>2, <4>1, <4>2, IdleOK DEF Answer
    <3>3. CASE first # NoDoc
      BY <2>2, <3>2, <3>3, FirstKeptBy DEF Insert
    <3>4. CASE first = NoDoc
      <4>1. first' = d /\ d # NoDoc /\ d \in setup'
        BY <2>2, <3>1, <3>4, NullAssumption DEF Insert, FirstOK
      <4>2. \A q \in Request : req'[q].pc = "idle" \/ req'[q].kind \in WebhookKinds
        BY <3>2 DEF Becomes, FirstOK, Inv
      <4> QED
        BY <4>1, <4>2 DEF FirstOK, FirstUserIsAdmin
    <3> QED
      BY <3>3, <3>4
  <2> QED
    BY <1>4, <2>1, <2>2 DEF CreateUser
<1> QED
  BY <1>2, <1>3, <1>4

LEMMA FirstKeptByTheRest ==
    ASSUME Inv, FirstOK, NEW r \in Request,
           FindUser(r) \/ ReadUser(r) \/ WriteUser(r) \/ RemoveUser(r) \/ WriteAudit(r)
    PROVE  FirstOK'
<1> DEFINE g == req[r]
<1>1. g \in Handling /\ WellFormed(g) /\ g.kind \in WebhookKinds
  BY HandlingOf DEF HandlerOK, FirstOK, FindUser, ReadUser, WriteUser, RemoveUser, WriteAudit, At
<1>2. ASSUME NEW h, Becomes(r, h), h.kind = g.kind, h.pc # "insert", UNCHANGED first,
             setup \subseteq setup', first = NoDoc => UNCHANGED users
      PROVE  FirstOK'
  BY <1>1, <1>2, FirstKeptBy
<1>3. CASE FindUser(r)
  <2>1. ASSUME NEW d, Continue(r, [ g EXCEPT !.pc = IF g.kind = "deleted" THEN "remove" ELSE "read",
                                            !.doc = d ])
        PROVE  FirstOK'
    <3>1. PICK h : h = [ g EXCEPT !.pc = IF g.kind = "deleted" THEN "remove" ELSE "read",
                                  !.doc = d ]
      OBVIOUS
    <3>2. h.kind = g.kind /\ h.pc # "insert"
      BY <1>1, <3>1 DEF Handling
    <3> QED
      BY <1>2, <2>1, <3>1, <3>2 DEF Continue, history
  <2> QED
    BY <1>3, <2>1, FirstKeptByReject DEF FindUser
<1>4. CASE ReadUser(r)
  <2>1. PICK h : h = [ g EXCEPT !.pc = "write", !.copy = users[g.doc] ]
    OBVIOUS
  <2>2. h.kind = g.kind /\ h.pc = "write"
    BY <1>1, <2>1 DEF Handling
  <2> QED
    BY <1>2, <1>4, <2>1, <2>2, FirstKeptByReject DEF ReadUser, Continue, history
<1>5. CASE WriteUser(r)
  <2>1. first # NoDoc /\ UNCHANGED << first, setup >>
    BY <1>1, <1>5 DEF WriteUser, At, WellFormed, FirstOK
  <2>2. PICK h : h = [ g EXCEPT !.pc = "audit", !.copy = NoUser ]
    OBVIOUS
  <2>3. h.kind = g.kind /\ h.pc = "audit"
    BY <1>1, <2>2 DEF Handling
  <2>4. Becomes(r, h) \/ \E ok : Answer(r, ok)
    BY <1>5, <2>2 DEF WriteUser
  <2> QED
    BY <1>2, <2>1, <2>3, <2>4, FirstKeptByAnswer
<1>6. CASE RemoveUser(r)
  <2>1. UNCHANGED << first, setup >> /\ (first = NoDoc => UNCHANGED users)
    BY <1>6 DEF RemoveUser, Stored, FirstOK, history
  <2>2. PICK h : h = [ g EXCEPT !.pc = "audit" ]
    OBVIOUS
  <2>3. h.kind = g.kind /\ h.pc = "audit"
    BY <1>1, <2>2 DEF Handling
  <2>4. Becomes(r, h) \/ Answer(r, FALSE)
    BY <1>6, <2>2 DEF RemoveUser
  <2> QED
    BY <1>2, <2>1, <2>3, <2>4, FirstKeptByAnswer
<1>7. CASE WriteAudit(r)
  BY <1>7, FirstKeptByAnswer DEF WriteAudit, history
<1> QED
  BY <1>3, <1>4, <1>5, <1>6, <1>7

LEMMA FirstKept ==
    ASSUME Kinds \cap ClientKinds = {}, "db_read" \notin Faults, Inv, FirstOK, [Next]_vars
    PROVE  FirstOK'
<1>1. \A k \in ClientKinds : k \notin WebhookKinds
  BY DEF ClientKinds, AdminKinds, WebhookKinds
<1>2. ASSUME UNCHANGED << users, req, history >>
      PROVE  FirstOK'
  BY <1>2 DEF FirstOK, FirstUserIsAdmin, history
<1>3. CASE \E a \in Account : SignUp(a) \/ EditProfile(a) \/ CloseAccount(a)
  BY <1>2, <1>3 DEF SignUp, EditProfile, CloseAccount
<1>4. ASSUME NEW r \in Request, Send(r)
      PROVE  FirstOK'
  BY <1>4 DEF Send
<1>5. ASSUME NEW r \in Request, NEW e \in events, Deliver(r, e)
      PROVE  FirstOK'
  <2>1. PICK h : h = [ Idle EXCEPT !.pc = "lookup", !.kind = e.kind, !.account = e.account,
                                   !.version = e.version ]
    OBVIOUS
  <2>2. h.pc = "lookup" /\ h.kind \in WebhookKinds
    BY <2>1 DEF Idle, Inv, Event
  <2> QED
    BY <1>5, <2>1, <2>2, FirstKeptBy DEF Deliver, history
<1>6. ASSUME NEW r \in Request, Handle(r)
      PROVE  FirstOK'
  <2>1. ~(Authenticate(r) \/ FetchFromClerk(r) \/ CreateOnVisit(r))
    BY <1>1 DEF FirstOK, Authenticate, FetchFromClerk, CreateOnVisit, At
  <2> QED
    BY <1>6, <2>1, FirstKeptByCreation, FirstKeptByTheRest DEF Handle
<1>7. CASE Crash
  BY <1>7, IdleOK DEF Crash, FirstOK, FirstUserIsAdmin, history
<1>8. CASE UNCHANGED vars \/ CreateIndexes
  BY <1>2, <1>8 DEF vars, CreateIndexes
<1> QED
  BY <1>3, <1>4, <1>5, <1>6, <1>7, <1>8 DEF Next

\* As long as only webhooks come and the counts succeed, the first user of all is made an
\* administrator (CreateUser, "First user is automatically admin").
THEOREM FirstAdminByWebhook ==
    ASSUME Kinds \cap ClientKinds = {}, "db_read" \notin Faults
    PROVE  Spec => []FirstUserIsAdmin
<1>1. Init => FirstOK
  BY IdleOK DEF Init, FirstOK, FirstUserIsAdmin
<1>2. Inv /\ FirstOK /\ [Next]_vars => FirstOK'
  BY FirstKept
<1>3. FirstOK => FirstUserIsAdmin
  BY DEF FirstOK
<1> QED
  BY <1>1, <1>2, <1>3, Invariance, PTL DEF Spec
===============================================================================

------------------------ MODULE AccountLifecycleProofs ------------------------
(***************************************************************************)
(* The users collection implements AccountLifecycle, for any accounts,     *)
(* documents, requests and faults, with its unique indexes and without.    *)
(* Five kinds of step matter: an insertion, the writing back of a copy, a  *)
(* deletion, the creation of the indexes, and all the others, which leave  *)
(* the collection alone.                                                   *)
(***************************************************************************)
EXTENDS UserAccountsProofs

\* What the documents of account a say of it, when there may be several.
LiveAt(a)    == \E d \in Doc : users[d] # NoUser /\ ~users[d].deleted /\ users[d].account = a
KnownAt(a)   == \E d \in Doc : users[d] # NoUser /\ users[d].account = a
GrantedAt(a) == \E d \in Granted : users[d].account = a
AdminAt(a)   == \E d \in Doc : /\ users[d] # NoUser /\ ~users[d].deleted
                               /\ users[d].role = "admin" /\ users[d].account = a

\* The mapped variables, by what the documents say.
Maps ==
    /\ \A a \in Account :
          /\ Standing[a] = IF LiveAt(a) THEN "member" ELSE IF KnownAt(a) THEN "removed" ELSE "absent"
          /\ a \in Entitled <=> GrantedAt(a)
          /\ a \in Admins <=> AdminAt(a)
    /\ Standing = [ a \in Account |-> Standing[a] ]
    /\ Entitled \subseteq Account /\ Admins \subseteq Account

LEMMA Mapping == Inv => Maps
<1> SUFFICES ASSUME Inv PROVE Maps
  OBVIOUS
<1>1. /\ users \in [ Doc -> User \cup {NoUser} ]
      /\ \A d \in Granted : d \in Doc /\ users[d] # NoUser
  BY DEF Inv, UsersOK, Granted
<1>2. \A d \in Doc : users[d] # NoUser => users[d] \in User /\ users[d].account \in Account
  BY <1>1 DEF User
<1>3. \A a \in Account :
        Standing[a] = IF LiveAt(a) THEN "member" ELSE IF KnownAt(a) THEN "removed" ELSE "absent"
  BY DEF Standing, ByClerkID, Live, Stored, OwnersOf, Documents, LiveAt, KnownAt
<1>4. \A a : a \in Entitled <=> GrantedAt(a)
  BY DEF Entitled, OwnersOf, GrantedAt
<1>5. \A a : a \in Admins <=> AdminAt(a)
  BY DEF Admins, OwnersOf, Documents, Stored, AdminAt
<1>6. Standing = [ a \in Account |-> Standing[a] ]
  BY DEF Standing
<1>7. Entitled \subseteq Account /\ Admins \subseteq Account
  BY <1>1, <1>2, <1>4, <1>5 DEF GrantedAt, AdminAt
<1>8. QED
  BY <1>3, <1>4, <1>5, <1>6, <1>7 DEF Maps

-----------------------------------------------------------------------------
(***************************************************************************)
(* What each step does to the collection.                                  *)
(***************************************************************************)

Inserts(d, u) ==
    /\ UNCHANGED indexed
    /\ users[d] = NoUser /\ d \notin Granted /\ u # NoUser /\ ~u.deleted
    /\ indexed => ~KnownAt(u.account)
    /\ \A e \in Doc : users'[e] = IF e = d THEN u ELSE users[e]
    /\ Granted' = IF u.role = "admin" THEN Granted \cup { d } ELSE Granted

Rewrites(d, u) ==
    /\ UNCHANGED indexed
    /\ users[d] # NoUser /\ u # NoUser
    /\ u.account = users[d].account /\ u.deleted = users[d].deleted
    /\ u.role = "admin" => d \in Granted'
    /\ \A e \in Doc : users'[e] = IF e = d THEN u ELSE users[e]
    /\ Granted' \in { Granted, Granted \cup { d } }
    /\ Granted' # Granted => u.role = "admin"

Deletes(d, u) ==
    /\ UNCHANGED indexed
    /\ users[d] # NoUser /\ u # NoUser
    /\ u.account = users[d].account /\ u.deleted /\ u.role = users[d].role
    /\ \A e \in Doc : users'[e] = IF e = d THEN u ELSE users[e]
    /\ Granted' = Granted

Rests == UNCHANGED << users, indexed >> /\ Granted' = Granted

Changes == \E d \in Doc, u \in User : Inserts(d, u) \/ Rewrites(d, u) \/ Deletes(d, u)

LEMMA InsertsUser ==
    ASSUME Inv, NEW r \in Request, CreateOnVisit(r) \/ CreateUser(r)
    PROVE  Rests \/ Changes
<1>0. UNCHANGED indexed
  BY DEF CreateOnVisit, CreateUser, outside
<1>1. CASE Reject(r)
  BY <1>0, <1>1 DEF Reject, history, Rests, Granted
<1>2. CASE \E d \in Doc : ~Duplicate(req[r].copy) /\ Insert(d, req[r].copy)
  <2>1. PICK d \in Doc : ~Duplicate(req[r].copy) /\ Insert(d, req[r].copy)
    BY <1>2
  <2>2. req[r].copy \in User /\ req[r].copy # NoUser /\ ~req[r].copy.deleted
    BY HandlingOf DEF HandlerOK, HandlerTrue, WellFormed, CreateOnVisit, CreateUser, At, Handling
  <2>3. users[d] = NoUser /\ \A e \in Doc : users'[e] = IF e = d THEN req[r].copy ELSE users[e]
    BY <2>1 DEF Insert, Inv, UsersOK
  <2>4. indexed => ~KnownAt(req[r].copy.account)
    BY <2>1 DEF Duplicate, Stored, KnownAt
  <2>5. Granted' = IF req[r].copy.role = "admin" THEN Granted \cup { d } ELSE Granted
    BY <2>1 DEF Insert, Granted
  <2>6. d \notin Granted
    BY <2>3 DEF Inv, UsersOK
  <2>7. QED
    BY <1>0, <2>2, <2>3, <2>4, <2>5, <2>6 DEF Inserts, Changes
<1>3. QED
  BY <1>1, <1>2 DEF CreateOnVisit, CreateUser

LEMMA RewritesUser ==
    ASSUME Inv, NEW r \in Request, WriteUser(r)
    PROVE  Rests \/ Changes
<1> DEFINE d == req[r].doc
           u == [ Edited(req[r]) EXCEPT !.deleted = users[d].deleted ]
<1>1. At(r, "write", { "updated", "role", "active" }) /\ setup' = setup /\ UNCHANGED indexed
  BY DEF WriteUser, outside
<1>2. /\ d \in Doc /\ users[d] # NoUser /\ users[d] \in User
      /\ users[d].account = req[r].copy.account
      /\ req[r].copy \in User
      /\ req[r].copy.role = "admin" => d \in Granted
  BY <1>1, HandlingOf DEF Inv, UsersOK, HandlerOK, WellFormed, HandlerTrue, At, Handling
<1>3. Edited(req[r]) \in User /\ Edited(req[r]).account = req[r].copy.account
  BY <1>1, EditedUser
<1>4. u \in User /\ u # NoUser /\ u.account = users[d].account /\ u.deleted = users[d].deleted
      /\ u.role = Edited(req[r]).role
  BY <1>2, <1>3, NullAssumption DEF User
<1>5. PICK result \in WriteResults :
        /\ IF result = "refused" THEN UNCHANGED users ELSE Update(d, Edited(req[r]))
        /\ assigned' = assigned \cup Assigned(req[r], result)
  BY DEF WriteUser
<1>6. CASE result = "refused"
  BY <1>1, <1>5, <1>6 DEF Rests, Granted, Assigned
<1>7. CASE result # "refused"
  <2>1. \A e \in Doc : users'[e] = IF e = d THEN u ELSE users[e]
    BY <1>5, <1>7 DEF Update, Inv, UsersOK
  <2>2. Granted' = IF req[r].kind = "role" /\ req[r].role = "admin"
                   THEN Granted \cup { d } ELSE Granted
    <3>1. CASE req[r].kind = "role"
      <4>1. assigned' = assigned \cup { << d, req[r].role >> }
        BY <1>5, <1>7, <3>1 DEF Assigned
      <4>2. QED
        BY <1>1, <1>2, <3>1, <4>1 DEF Granted
    <3>2. CASE req[r].kind # "role"
      BY <1>1, <1>5, <3>2 DEF Granted, Assigned
    <3>3. QED
      BY <3>1, <3>2
  <2>3. req[r].kind = "role" => Edited(req[r]).role = req[r].role
    BY <1>2 DEF Edited, User
  <2>4. Edited(req[r]).role = "admin" => d \in Granted'
    BY <1>1, <1>2, <2>2, EditedUser
  <2> HIDE DEF u, d
  <2>5. Rewrites(d, u)
    BY <1>1, <1>2, <1>4, <2>1, <2>2, <2>3, <2>4 DEF Rewrites
  <2>6. QED
    BY <1>2, <1>4, <2>5 DEF Changes
<1>8. QED
  BY <1>6, <1>7

LEMMA DeletesUser ==
    ASSUME Inv, NEW r \in Request, RemoveUser(r)
    PROVE  Rests \/ Changes
<1> DEFINE d == req[r].doc
           u == [ users[d] EXCEPT !.deleted = TRUE ]
<1>1. Granted' = Granted /\ UNCHANGED indexed
  BY DEF RemoveUser, history, outside, Granted
<1>2. CASE UNCHANGED users
  BY <1>1, <1>2 DEF Rests
<1>3. CASE Stored(d) /\ users' = [ users EXCEPT ![d].deleted = TRUE ]
  <2>1. d \in Doc /\ users[d] # NoUser /\ users[d] \in User
    BY <1>3 DEF Stored, Inv, UsersOK
  <2>2. u \in User /\ u # NoUser /\ u.account = users[d].account /\ u.deleted
        /\ u.role = users[d].role
    BY <2>1, NullAssumption DEF User
  <2>3. \A e \in Doc : users'[e] = IF e = d THEN u ELSE users[e]
    BY <1>3 DEF Inv, UsersOK
  <2> HIDE DEF u, d
  <2>4. QED
    BY <1>1, <2>1, <2>2, <2>3 DEF Deletes, Changes
<1>4. QED
  BY <1>2, <1>3 DEF RemoveUser

LEMMA Steps ==
    ASSUME Inv, [Next]_vars
    PROVE  Rests \/ Changes \/ CreateIndexes
<1>1. ASSUME NEW r \in Request, Handle(r)
      PROVE  Rests \/ Changes
  <2>1. CASE CreateOnVisit(r) \/ CreateUser(r)
    BY <2>1, InsertsUser
  <2>2. CASE WriteUser(r)
    BY <2>2, RewritesUser
  <2>3. CASE RemoveUser(r)
    BY <2>3, DeletesUser
  <2>4. CASE \/ Authenticate(r) \/ FetchFromClerk(r) \/ LookupCreated(r) \/ CountUsers(r)
             \/ FindUser(r) \/ ReadUser(r) \/ WriteAudit(r)
    BY <2>4 DEF Authenticate, Admit, FetchFromClerk, LookupCreated, CountUsers, FindUser, ReadUser,
       WriteAudit, Reject, Continue, history, outside, Rests, Granted
  <2>5. QED
    BY <1>1, <2>1, <2>2, <2>3, <2>4 DEF Handle
<1>2. CASE UNCHANGED vars \/ Crash \/ \E a \in Account : SignUp(a) \/ EditProfile(a) \/ CloseAccount(a)
  BY <1>2 DEF vars, Crash, SignUp, EditProfile, CloseAccount, history, outside, Rests, Granted
<1>3. CASE \E r \in Request : Send(r) \/ \E e \in events : Deliver(r, e)
  BY <1>3 DEF Send, Deliver, history, outside, Rests, Granted
<1>4. QED
  BY <1>1, <1>2, <1>3 DEF Next

-----------------------------------------------------------------------------
(***************************************************************************)
(* What each of them is to the account.                                    *)
(***************************************************************************)

\* A step at one document says nothing new of other accounts.
LEMMA OtherAccounts ==
    ASSUME NEW d \in Doc, NEW u, u # NoUser,
           users[d] # NoUser \/ d \notin Granted,
           users[d] # NoUser => users[d].account = u.account,
           \A e \in Doc : users'[e] = IF e = d THEN u ELSE users[e],
           \A e \in Doc \ {d} : e \in Granted' <=> e \in Granted,
           Granted \subseteq Doc, Granted' \subseteq Doc,
           NEW b, b # u.account
    PROVE  /\ LiveAt(b)' <=> LiveAt(b)
           /\ KnownAt(b)' <=> KnownAt(b)
           /\ GrantedAt(b)' <=> GrantedAt(b)
           /\ AdminAt(b)' <=> AdminAt(b)
<1>1. LiveAt(b)' <=> LiveAt(b)
  BY DEF LiveAt
<1>2. KnownAt(b)' <=> KnownAt(b)
  BY DEF KnownAt
<1>3. GrantedAt(b)' <=> GrantedAt(b)
  <2>1. ASSUME NEW e \in Granted, users[e].account = b PROVE e \in Granted' /\ users'[e].account = b
    BY <2>1
  <2>2. ASSUME NEW e \in Granted', users'[e].account = b PROVE e \in Granted /\ users[e].account = b
    BY <2>2
  <2>3. QED
    BY <2>1, <2>2 DEF GrantedAt
<1>4. AdminAt(b)' <=> AdminAt(b)
  BY DEF AdminAt
<1>5. QED
  BY <1>1, <1>2, <1>3, <1>4

\* So the mapped variables change at one account, if at all.
LEMMA AtOneAccount ==
    ASSUME Maps, Maps', NEW a \in Account, NEW s, s = Standing'[a],
           \A b \in Account : b # a =>
               /\ LiveAt(b)' <=> LiveAt(b)
               /\ KnownAt(b)' <=> KnownAt(b)
               /\ GrantedAt(b)' <=> GrantedAt(b)
               /\ AdminAt(b)' <=> AdminAt(b)
    PROVE  /\ Standing' = [ Standing EXCEPT ![a] = s ]
           /\ Entitled' = IF GrantedAt(a)' THEN Entitled \cup { a } ELSE Entitled \ { a }
           /\ Admins' = IF AdminAt(a)' THEN Admins \cup { a } ELSE Admins \ { a }
<1>1. /\ Standing = [ b \in Account |-> Standing[b] ] /\ Standing' = [ b \in Account |-> Standing'[b] ]
      /\ Entitled \subseteq Account /\ Entitled' \subseteq Account
      /\ Admins \subseteq Account /\ Admins' \subseteq Account
  BY DEF Maps
<1>2. \A b \in Account : b # a =>
        /\ Standing'[b] = Standing[b]
        /\ b \in Entitled' <=> b \in Entitled
        /\ b \in Admins' <=> b \in Admins
  BY DEF Maps
<1>3. (a \in Entitled' <=> GrantedAt(a)') /\ (a \in Admins' <=> AdminAt(a)')
  BY DEF Maps
<1>4. Standing' = [ Standing EXCEPT ![a] = s ]
  BY <1>1, <1>2
<1>5. Entitled' = IF GrantedAt(a)' THEN Entitled \cup { a } ELSE Entitled \ { a }
  BY <1>1, <1>2, <1>3
<1>6. Admins' = IF AdminAt(a)' THEN Admins \cup { a } ELSE Admins \ { a }
  BY <1>1, <1>2, <1>3
<1>7. QED
  BY <1>4, <1>5, <1>6

LEMMA GrantedDocs == Inv => Granted \subseteq Doc
BY DEF Inv, UsersOK, Granted

LEMMA InsertsJoins ==
    ASSUME Inv, Inv', Maps, Maps', NEW d \in Doc, NEW u \in User, Inserts(d, u)
    PROVE  Accounts!Next
<1> DEFINE a == u.account
<1>1. a \in Account
  BY DEF User
<1>2. /\ LiveAt(a)'
      /\ GrantedAt(a)' <=> GrantedAt(a) \/ u.role = "admin"
      /\ AdminAt(a)' <=> AdminAt(a) \/ u.role = "admin"
  <2>1. LiveAt(a)'
    BY DEF Inserts, LiveAt
  <2>2. AdminAt(a)' <=> AdminAt(a) \/ u.role = "admin"
    BY DEF Inserts, AdminAt
  <2>3. GrantedAt(a)' <=> GrantedAt(a) \/ u.role = "admin"
    BY GrantedDocs DEF Inserts, GrantedAt
  <2>4. QED
    BY <2>1, <2>2, <2>3
<1>3. Standing'[a] = "member" /\ (indexed => Standing[a] = "absent")
  <2>1. indexed => ~KnownAt(a) /\ ~LiveAt(a)
    BY DEF Inserts, KnownAt, LiveAt
  <2>2. QED
    BY <1>1, <1>2, <2>1 DEF Maps
<1>4. (a \in Entitled <=> GrantedAt(a)) /\ (a \in Admins <=> AdminAt(a))
  BY <1>1 DEF Maps
<1>5. /\ Standing' = [ Standing EXCEPT ![a] = "member" ]
      /\ Entitled' = IF GrantedAt(a)' THEN Entitled \cup { a } ELSE Entitled \ { a }
      /\ Admins' = IF AdminAt(a)' THEN Admins \cup { a } ELSE Admins \ { a }
  <2>1. \A e \in Doc \ {d} : e \in Granted' <=> e \in Granted
    BY DEF Inserts
  <2>2. \A b \in Account : b # a =>
          /\ LiveAt(b)' <=> LiveAt(b)
          /\ KnownAt(b)' <=> KnownAt(b)
          /\ GrantedAt(b)' <=> GrantedAt(b)
          /\ AdminAt(b)' <=> AdminAt(b)
    BY <2>1, OtherAccounts, GrantedDocs DEF Inserts
  <2>3. QED
    BY <1>1, <1>3, <2>2, AtOneAccount
<1>6. UNCHANGED indexed
  BY DEF Inserts
<1> HIDE DEF a
<1>7. CASE u.role = "admin"
  BY <1>1, <1>2, <1>3, <1>5, <1>6, <1>7 DEF Accounts!Next, Accounts!JoinAsAdmin, Accounts!Joins
<1>8. CASE u.role # "admin"
  <2>1. Entitled' = Entitled /\ Admins' = Admins
    BY <1>2, <1>4, <1>5, <1>8
  <2>2. QED
    BY <1>1, <1>3, <1>5, <1>6, <2>1 DEF Accounts!Next, Accounts!JoinAsUser, Accounts!Joins
<1>9. QED
  BY <1>7, <1>8

LEMMA RewritesChange ==
    ASSUME Inv, Inv', Maps, Maps', NEW d \in Doc, NEW u \in User, Rewrites(d, u)
    PROVE  [Accounts!Next]_(Accounts!vars)
<1> DEFINE a == u.account
<1>1. a \in Account /\ UNCHANGED indexed
  BY DEF User, Rewrites
<1>2. /\ LiveAt(a)' <=> LiveAt(a)
      /\ KnownAt(a) /\ KnownAt(a)'
      /\ ~users[d].deleted => LiveAt(a)
      /\ indexed /\ users[d].deleted => ~LiveAt(a)
  <2>1. LiveAt(a)' <=> LiveAt(a)
    BY DEF Rewrites, LiveAt
  <2>2. KnownAt(a) /\ KnownAt(a)' /\ (~users[d].deleted => LiveAt(a))
    BY DEF Rewrites, KnownAt, LiveAt
  <2>3. indexed => \A e \in Doc : users[e] # NoUser /\ users[e].account = a => e = d
    BY DEF Inv, UsersOK, NoDuplicates, Documents, Stored, Rewrites
  <2>4. QED
    BY <2>1, <2>2, <2>3 DEF LiveAt
<1>3. /\ GrantedAt(a)' <=> GrantedAt(a) \/ d \in Granted'
      /\ d \in Granted => GrantedAt(a)
      /\ u.role = "admin" => d \in Granted'
  BY GrantedDocs DEF Rewrites, GrantedAt
<1>4. /\ users[d].deleted => (AdminAt(a)' <=> AdminAt(a))
      /\ ~users[d].deleted /\ u.role = "admin" => AdminAt(a)'
      /\ u.role # "admin" /\ AdminAt(a)' => AdminAt(a)
  BY DEF Rewrites, AdminAt
<1>5. /\ Standing[a] = IF LiveAt(a) THEN "member" ELSE "removed"
      /\ Standing'[a] = Standing[a]
      /\ a \in Entitled <=> GrantedAt(a)
      /\ a \in Admins <=> AdminAt(a)
  BY <1>1, <1>2 DEF Maps
<1>6. /\ Standing' = [ Standing EXCEPT ![a] = Standing[a] ]
      /\ Entitled' = IF GrantedAt(a)' THEN Entitled \cup { a } ELSE Entitled \ { a }
      /\ Admins' = IF AdminAt(a)' THEN Admins \cup { a } ELSE Admins \ { a }
  <2>1. \A e \in Doc \ {d} : e \in Granted' <=> e \in Granted
    BY DEF Rewrites
  <2>2. \A b \in Account : b # a =>
          /\ LiveAt(b)' <=> LiveAt(b)
          /\ KnownAt(b)' <=> KnownAt(b)
          /\ GrantedAt(b)' <=> GrantedAt(b)
          /\ AdminAt(b)' <=> AdminAt(b)
    BY <2>1, OtherAccounts, GrantedDocs DEF Rewrites
  <2>3. QED
    BY <1>1, <1>5, <2>2, AtOneAccount
<1>7. Standing' = Standing
  BY <1>6 DEF Maps
<1>8. /\ Granted' # Granted => u.role = "admin" /\ d \in Granted'
      /\ u.deleted \in BOOLEAN /\ u.deleted = users[d].deleted
  BY <1>3 DEF Rewrites, User
<1> HIDE DEF a
<1>9. CASE Granted' # Granted
  <2>1. Entitled' = Entitled \cup { a } /\ Standing[a] # "absent"
    BY <1>3, <1>5, <1>6, <1>8, <1>9
  <2>2. CASE ~users[d].deleted
    <3>1. Standing[a] = "member" /\ Admins' = Admins \cup { a }
      BY <1>2, <1>4, <1>5, <1>6, <1>8, <1>9, <2>2
    <3>2. QED
      BY <1>1, <1>7, <2>1, <3>1 DEF Accounts!Next, Accounts!Appoint
  <2>3. CASE users[d].deleted
    <3>1. Standing[a] = "removed" \/ ~indexed
      BY <1>2, <1>5, <2>3
    <3>2. Admins' = Admins
      BY <1>4, <1>5, <1>6, <2>3
    <3>3. QED
      BY <1>1, <1>7, <2>1, <3>1, <3>2 DEF Accounts!Next, Accounts!Appoint
  <2>4. QED
    BY <2>2, <2>3
<1>10. CASE Granted' = Granted
  <2>1. Entitled' = Entitled
    BY <1>3, <1>5, <1>6, <1>10
  <2>2. CASE Admins' = Admins
    BY <1>1, <1>7, <2>1, <2>2 DEF Accounts!vars
  <2>3. CASE u.role = "admin" /\ ~users[d].deleted
    <3>1. Standing[a] = "member" /\ a \in Entitled /\ Admins' = Admins \cup { a }
      BY <1>2, <1>3, <1>4, <1>5, <1>6, <1>10, <2>3
    <3>2. QED
      BY <1>1, <1>7, <2>1, <3>1 DEF Accounts!Next, Accounts!Restore
  <2>4. CASE Admins' = Admins \ { a }
    BY <1>1, <1>7, <2>1, <2>4 DEF Accounts!Next, Accounts!Dismiss
  <2>5. Admins' = Admins \/ Admins' = Admins \ { a } \/ (u.role = "admin" /\ ~users[d].deleted)
    BY <1>4, <1>5, <1>6
  <2>6. QED
    BY <2>2, <2>3, <2>4, <2>5
<1>11. QED
  BY <1>9, <1>10

LEMMA DeletesRemove ==
    ASSUME Inv, Inv', Maps, Maps', NEW d \in Doc, NEW u \in User, Deletes(d, u)
    PROVE  [Accounts!Next]_(Accounts!vars)
<1> DEFINE a == u.account
<1>1. a \in Account /\ UNCHANGED indexed
  BY DEF User, Deletes
<1>2. /\ KnownAt(a) /\ KnownAt(a)'
      /\ LiveAt(a)' => LiveAt(a)
      /\ GrantedAt(a)' <=> GrantedAt(a)
      /\ AdminAt(a)' => AdminAt(a) /\ LiveAt(a)'
  <2>1. KnownAt(a) /\ KnownAt(a)' /\ (LiveAt(a)' => LiveAt(a))
    BY DEF Deletes, KnownAt, LiveAt
  <2>2. GrantedAt(a)' <=> GrantedAt(a)
    BY GrantedDocs DEF Deletes, GrantedAt
  <2>3. AdminAt(a)' => AdminAt(a) /\ LiveAt(a)'
    BY DEF Deletes, AdminAt, LiveAt
  <2>4. QED
    BY <2>1, <2>2, <2>3
<1>3. /\ Standing[a] = IF LiveAt(a) THEN "member" ELSE "removed"
      /\ Standing'[a] = IF LiveAt(a)' THEN "member" ELSE "removed"
      /\ a \in Entitled <=> GrantedAt(a)
      /\ a \in Admins <=> AdminAt(a)
  BY <1>1, <1>2 DEF Maps
<1>4. PICK s : s = Standing'[a]
  OBVIOUS
<1>5. /\ Standing' = [ Standing EXCEPT ![a] = s ]
      /\ Entitled' = IF GrantedAt(a)' THEN Entitled \cup { a } ELSE Entitled \ { a }
      /\ Admins' = IF AdminAt(a)' THEN Admins \cup { a } ELSE Admins \ { a }
  <2>1. \A b \in Account : b # a =>
          /\ LiveAt(b)' <=> LiveAt(b)
          /\ KnownAt(b)' <=> KnownAt(b)
          /\ GrantedAt(b)' <=> GrantedAt(b)
          /\ AdminAt(b)' <=> AdminAt(b)
    BY OtherAccounts, GrantedDocs DEF Deletes
  <2>2. QED
    BY <1>1, <1>4, <2>1, AtOneAccount
<1> HIDE DEF a
<1>6. Entitled' = Entitled /\ (Admins' = Admins \/ Admins' = Admins \ { a })
  BY <1>2, <1>3, <1>5
<1>7. CASE LiveAt(a) /\ ~LiveAt(a)'
  <2>1. /\ Standing[a] = "member" /\ s = "removed"
        /\ Admins' = Admins \ { a }
    BY <1>2, <1>3, <1>4, <1>5, <1>7
  <2>2. QED
    BY <1>1, <1>5, <1>6, <2>1 DEF Accounts!Next, Accounts!Remove
<1>8. CASE LiveAt(a)' <=> LiveAt(a)
  <2>1. Standing' = Standing
    BY <1>3, <1>4, <1>5, <1>8 DEF Maps
  <2>2. QED
    BY <1>1, <1>6, <2>1 DEF Accounts!Next, Accounts!Dismiss, Accounts!vars
<1>9. QED
  BY <1>2, <1>7, <1>8

LEMMA RestsStutters ==
    ASSUME Rests
    PROVE  UNCHANGED << Standing, Entitled, Admins >>
BY DEF Rests, Granted, Standing, Entitled, Admins, ByClerkID, Live, Stored, OwnersOf, Documents

LEMMA IndexesMakeUnique ==
    ASSUME CreateIndexes
    PROVE  Accounts!BecomeUnique
<1>1. UNCHANGED << users, setup, assigned >> /\ ~indexed /\ indexed' = TRUE
  BY DEF CreateIndexes, history
<1>2. UNCHANGED << Standing, Entitled, Admins >>
  BY <1>1 DEF Granted, Standing, Entitled, Admins, ByClerkID, Live, Stored, OwnersOf, Documents
<1>3. QED
  BY <1>1, <1>2 DEF Accounts!BecomeUnique

-----------------------------------------------------------------------------
\* Whichever documents and stale copies of them there are, an account is an administrator only
\* by its creation or an appointment; and from the time the collection has its unique indexes
\* an account gets a user once and loses it once and for all.
THEOREM AccountsRefined == Spec => AccountsSpec
<1>1. Init => Accounts!Init
  <2>1. Init => indexed \in BOOLEAN
    BY InitInv DEF Inv, OutsideOK
  <2>2. QED
    BY <2>1 DEF Init, Accounts!Init, Standing, Entitled, Admins, Granted, ByClerkID, Live, Stored,
       OwnersOf, Documents
<1>2. Inv => Maps
  BY Mapping
<1>3. Inv /\ Inv' /\ Maps /\ Maps' /\ [Next]_vars => [Accounts!Next]_(Accounts!vars)
  <2> SUFFICES ASSUME Inv, Inv', Maps, Maps', [Next]_vars PROVE [Accounts!Next]_(Accounts!vars)
    OBVIOUS
  <2>1. CASE Rests
    BY <2>1, RestsStutters DEF Accounts!vars, Rests
  <2>2. CASE Changes
    <3>1. PICK d \in Doc, u \in User : Inserts(d, u) \/ Rewrites(d, u) \/ Deletes(d, u)
      BY <2>2 DEF Changes
    <3>2. QED
      BY <3>1, InsertsJoins, RewritesChange, DeletesRemove
  <2>3. CASE CreateIndexes
    BY <2>3, IndexesMakeUnique DEF Accounts!Next
  <2>4. QED
    BY <2>1, <2>2, <2>3, Steps
<1>4. QED
  BY <1>1, <1>2, <1>3, Invariance, PTL DEF Spec, AccountsSpec, Accounts!Spec

==============================================================================

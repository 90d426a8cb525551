---------------------------- MODULE ClassroomProofs ----------------------------
(***************************************************************************)
(* Theorems about Accounts and Classroom, for every set of users, emails,  *)
(* classes, rows, codes and overlapping handlers.                          *)
(*                                                                         *)
(* In Accounts a handler goes by what AuthGuard and RolesGuard have read,  *)
(* which stays true of the caller's row until somebody writes it (Known).  *)
(* Classroom implements Accounts, so that what holds of accounts holds     *)
(* here.  What a handler of a class has found in the rows of its caller,   *)
(* its class and its teacher stays true until somebody else writes one of  *)
(* them, which is when the handler is overtaken (CallKnown).               *)
(***************************************************************************)
EXTENDS Classroom, FiniteSetTheorems, TLAPS

-----------------------------------------------------------------------------
(* Accounts alone                                                          *)

Changing == {"updating", "banning", "unbanning", "deleting"}

\* What the guards have found, of rows as they are in us.
Entitled(q, us) ==
  /\ us[q.caller].active
  /\ us[q.caller].role = "ADMIN" \/ (q.at = "deleting" /\ q.caller = q.target)

\* What a handler has found, of rows and logins as they are in us and ls.
Known(q, us, ls) ==
  /\ q.at \in {"signing", "inserting"} => q.email \in Emails /\ q.role \in Roles
  /\ q.at = "inserting" => q.target \in Ids /\ ls[q.email] # NoOne
  /\ q.at \in Changing =>
       /\ q.caller \in Ids /\ us[q.caller] # NoOne
       /\ q.target \in Ids /\ us[q.target] # NoOne
       /\ q.overtaken \/ Entitled(q, us)
  /\ q.at \in {"banning", "unbanning"} => q.caller # q.target

AccountsInv ==
  /\ AccountsTypeOK
  /\ \A m \in confirmed : logins[m] # NoOne
  /\ \A r \in Requests : Known(requests[r], users, logins)

\* What becomes of a login: it is spoilt, or used by its owner, or a row is being made.
LoginOK(m) ==
  logins[m] # NoOne =>
    \/ m \in spoilt
    \/ users[logins[m]] # NoOne /\ users[logins[m]].email = m
    \/ \E r \in Requests :
         At(r, "inserting") /\ requests[r].email = m /\ requests[r].target = logins[m]

LoginsInv ==
  /\ \A m \in Emails : LoginOK(m)
  /\ AccountHasLogin

-----------------------------------------------------------------------------
(* Types, and what handlers know                                           *)

LEMMA IdleKnown ==
  ASSUME NEW us, NEW ls
  PROVE  Idle \in Request /\ Known(Idle, us, ls)
BY DEF Idle, Request, Steps, Null, Known, Changing

\* A handler begins, goes on or ends, and no row is written.
LEMMA FrameStep ==
  ASSUME AccountsInv, users' = users,
         \A m \in Emails : logins[m] # NoOne => logins'[m] = logins[m],
         NEW r \in Requests, NEW q \in Request, Known(q, users', logins'),
         requests' = [requests EXCEPT ![r] = q]
  PROVE  /\ requests' \in [Requests -> Request]
         /\ \A p \in Requests : Known(requests'[p], users', logins')
<1>1. requests' \in [Requests -> Request]
  BY DEF AccountsInv, AccountsTypeOK
<1>2. ASSUME NEW p \in Requests, p # r PROVE Known(requests'[p], users', logins')
  <2>1. requests'[p] = requests[p]
    BY <1>2 DEF AccountsInv, AccountsTypeOK
  <2>2. Known(requests[p], users, logins)
    BY DEF AccountsInv
  <2>3. requests[p].at = "inserting" => logins'[requests[p].email] # NoOne
    BY <2>2 DEF Known
  <2> QED BY <2>1, <2>2, <2>3 DEF Known, Entitled
<1>3. requests'[r] = q
  BY DEF AccountsInv, AccountsTypeOK
<1> QED BY <1>1, <1>2, <1>3

\* A handler ends with the writing of row i.
LEMMA WriteStep ==
  ASSUME AccountsInv, NEW r \in Requests, NEW i \in Ids, NEW row \in User,
         users' = [users EXCEPT ![i] = row], logins' = logins, FinishWith(r, i)
  PROVE  /\ users' \in [Ids -> Null(User)]
         /\ requests' \in [Requests -> Request]
         /\ \A p \in Requests : Known(requests'[p], users', logins')
<1>1. users' \in [Ids -> Null(User)]
  BY DEF AccountsInv, AccountsTypeOK, Null
<1>2. ASSUME NEW p \in Requests
      PROVE  requests'[p] \in Request /\ Known(requests'[p], users', logins')
  <2>1. requests[p] \in Request /\ Known(requests[p], users, logins)
    BY DEF AccountsInv, AccountsTypeOK
  <2>2. CASE p = r
    BY <2>2, IdleKnown DEF FinishWith
  <2>3. CASE p # r /\ requests[p].caller = i
    <3>1. requests'[p] = [requests[p] EXCEPT !.overtaken = TRUE]
      BY <2>3 DEF FinishWith
    <3>2. requests'[p] \in Request /\ requests'[p].overtaken
      BY <2>1, <3>1 DEF Request
    <3>3. /\ requests'[p].at = requests[p].at /\ requests'[p].caller = requests[p].caller
          /\ requests'[p].target = requests[p].target
          /\ requests'[p].email = requests[p].email /\ requests'[p].role = requests[p].role
      BY <2>1, <3>1 DEF Request
    <3>4. \A j \in Ids : users[j] # NoOne => users'[j] # NoOne
      BY AccountsAssumption DEF AccountsInv, AccountsTypeOK
    <3> QED BY <2>1, <3>2, <3>3, <3>4 DEF Known
  <2>4. CASE p # r /\ requests[p].caller # i
    <3>1. requests'[p] = requests[p]
      BY <2>4 DEF FinishWith
    <3>2. \A j \in Ids : users[j] # NoOne => users'[j] # NoOne
      BY AccountsAssumption DEF AccountsInv, AccountsTypeOK
    <3>3. requests[p].at \in Changing => users'[requests[p].caller] = users[requests[p].caller]
      BY <2>1, <2>4 DEF AccountsInv, AccountsTypeOK, Known
    <3> QED BY <2>1, <3>1, <3>2, <3>3 DEF Known, Entitled
  <2> QED BY <2>2, <2>3, <2>4
<1>3. requests' \in [Requests -> Request]
  BY <1>2 DEF FinishWith
<1> QED BY <1>1, <1>2, <1>3

LEMMA AccountsInvInit == AccountsInit => AccountsInv
BY IdleKnown DEF AccountsInit, AccountsInv, AccountsTypeOK, Null

\* updateUser, banUser, unbanUser and deleteAccount begin like this.
LEMMA AdmittedKnown ==
  ASSUME AccountsInv, NEW i \in Ids, NEW j \in Ids, NEW step \in Changing,
         users[j] # NoOne,
         Admitted(i, IF step = "deleting" /\ i = j THEN Roles ELSE {"ADMIN"}),
         step \in {"banning", "unbanning"} => i # j
  PROVE  LET q == [Idle EXCEPT !.at = step, !.caller = i, !.target = j]
         IN  q \in Request /\ Known(q, users, logins)
BY DEF Admitted, Idle, Request, Steps, Null, Known, Entitled, Changing

LEMMA AccountsInvStep == AccountsInv /\ [AccountsNext]_accountVars => AccountsInv'
<1> SUFFICES ASSUME AccountsInv, [AccountsNext]_accountVars PROVE AccountsInv'
  OBVIOUS
<1> USE DEF AccountsInv
<1>1. ASSUME NEW r \in Requests, SignUp(r) PROVE AccountsInv'
  <2> DEFINE m == requests[r].email
  <2>1. m \in Emails /\ requests[r] \in Request /\ Known(requests[r], users, logins)
        /\ requests[r].at = "signing"
    BY <1>1 DEF SignUp, At, AccountsTypeOK, Known
  <2>2. PICK i \in Ids :
          /\ \/ logins[m] = NoOne /\ i \in NewIds /\ logins' = [logins EXCEPT ![m] = i]
             \/ logins[m] = i /\ m \notin confirmed /\ UNCHANGED logins
             \/ m \in confirmed /\ i \in NewIds /\ UNCHANGED logins
          /\ requests' = [requests EXCEPT ![r].at = "inserting", ![r].target = i]
    BY <1>1 DEF SignUp
  <2>3. PICK q : q = [requests[r] EXCEPT !.at = "inserting", !.target = i]
    OBVIOUS
  <2>4. requests' = [requests EXCEPT ![r] = q]
    BY <2>2, <2>3 DEF AccountsTypeOK
  <2>5. q \in Request /\ q.at = "inserting" /\ q.email = m /\ q.target = i
        /\ q.role = requests[r].role
    BY <2>1, <2>3 DEF Request, Steps, Null
  <2>6. /\ logins' \in [Emails -> Null(Ids)]
        /\ \A n \in Emails : logins[n] # NoOne => logins'[n] = logins[n]
    BY <2>1, <2>2 DEF AccountsTypeOK, Null
  <2>7. logins'[m] # NoOne
    BY <2>1, <2>2, AccountsAssumption DEF AccountsTypeOK
  <2>8. Known(q, users', logins')
    BY <2>1, <2>5, <2>7 DEF Known, Changing
  <2>9. /\ requests' \in [Requests -> Request]
        /\ \A p \in Requests : Known(requests'[p], users', logins')
    BY <1>1, <2>4, <2>5, <2>6, <2>8, FrameStep DEF SignUp
  <2> QED BY <1>1, <2>6, <2>9 DEF SignUp, AccountsTypeOK
<1>2. ASSUME NEW r \in Requests, InsertUser(r) PROVE AccountsInv'
  <2>1. PICK i \in Ids, row \in User :
          users' = [users EXCEPT ![i] = row] /\ FinishWith(r, i)
    BY <1>2 DEF InsertUser, At, Known, User, Null
  <2> QED BY <1>2, <2>1, WriteStep DEF InsertUser, AccountsTypeOK
<1>3. ASSUME NEW r \in Requests, Refuse(r) PROVE AccountsInv'
  <2>1. /\ requests' \in [Requests -> Request]
        /\ \A p \in Requests : Known(requests'[p], users', logins')
    BY <1>3, IdleKnown, FrameStep DEF Refuse
  <2>2. spoilt' \in SUBSET Emails
    BY <1>3 DEF Refuse, At, AccountsTypeOK, Known
  <2> QED BY <1>3, <2>1, <2>2 DEF Refuse, AccountsTypeOK
<1>4. ASSUME NEW r \in Requests, SaveUpdate(r) PROVE AccountsInv'
  <2>1. requests[r].target \in Ids /\ users[requests[r].target] \in User
    BY <1>4 DEF SaveUpdate, At, Known, Changing, AccountsTypeOK, Null
  <2>2. PICK role \in Roles, active \in BOOLEAN :
          users' = [users EXCEPT ![requests[r].target].role = role,
                                 ![requests[r].target].active = active]
    BY <1>4 DEF SaveUpdate
  <2>3. PICK i \in Ids, row \in User :
          i = requests[r].target /\ row = [users[i] EXCEPT !.role = role, !.active = active]
    BY <2>1 DEF User
  <2>4. users' = [users EXCEPT ![i] = row] /\ FinishWith(r, i)
    BY <1>4, <2>2, <2>3 DEF SaveUpdate, AccountsTypeOK
  <2> QED BY <1>4, <2>4, WriteStep DEF SaveUpdate, AccountsTypeOK
<1>5. ASSUME NEW r \in Requests, SaveActive(r) PROVE AccountsInv'
  <2>1. requests[r].target \in Ids /\ users[requests[r].target] \in User
    BY <1>5 DEF SaveActive, Known, Changing, AccountsTypeOK, Null
  <2>2. PICK i \in Ids, row \in User :
          i = requests[r].target /\ row = [users[i] EXCEPT !.active = At(r, "unbanning")]
    BY <2>1 DEF User, At
  <2>3. users' = [users EXCEPT ![i] = row] /\ FinishWith(r, i)
    BY <1>5, <2>2 DEF SaveActive, AccountsTypeOK
  <2> QED BY <1>5, <2>3, WriteStep DEF SaveActive, AccountsTypeOK
<1>6. ASSUME NEW r \in Requests, SaveDeleted(r) PROVE AccountsInv'
  <2>1. requests[r].target \in Ids /\ users[requests[r].target] \in User
    BY <1>6 DEF SaveDeleted, At, Known, Changing, AccountsTypeOK, Null
  <2>2. PICK i \in Ids, row \in User :
          i = requests[r].target /\ row = [users[i] EXCEPT !.active = FALSE, !.email = NoOne]
    BY <2>1 DEF User, Null
  <2>3. users' = [users EXCEPT ![i] = row] /\ FinishWith(r, i)
    BY <1>6, <2>2 DEF SaveDeleted, AccountsTypeOK
  <2> QED BY <1>6, <2>3, WriteStep DEF SaveDeleted, AccountsTypeOK
<1>7. ASSUME NEW r \in Requests, NEW m \in Emails, NEW role \in Roles, Register(r, m, role)
      PROVE  AccountsInv'
  <2>1. PICK q \in Request :
          Known(q, users, logins) /\ requests' = [requests EXCEPT ![r] = q]
    BY <1>7 DEF Register, Start, Idle, Request, Steps, Null, Known, Changing
  <2> QED BY <1>7, <2>1, FrameStep DEF Register, AccountsTypeOK
<1>8. ASSUME NEW r \in Requests, NEW m \in Emails, NEW role \in Roles, SeedLogin(r, m, role)
      PROVE  AccountsInv'
  <2>1. PICK i \in NewIds :
          /\ logins' = [logins EXCEPT ![m] = i]
          /\ Start(r, [Idle EXCEPT !.at = "inserting", !.target = i, !.email = m,
                                   !.role = role])
    BY <1>8 DEF SeedLogin
  <2>2. i \in Ids
    BY <2>1 DEF NewIds
  <2>3. /\ logins' \in [Emails -> Null(Ids)]
        /\ logins'[m] # NoOne
        /\ \A n \in Emails : logins[n] # NoOne => logins'[n] = logins[n]
    BY <1>8, <2>1, <2>2, AccountsAssumption DEF SeedLogin, AccountsTypeOK, Null
  <2>4. PICK q : q = [Idle EXCEPT !.at = "inserting", !.target = i, !.email = m,
                                  !.role = role]
    OBVIOUS
  <2>5. q \in Request /\ Known(q, users', logins')
    BY <2>2, <2>3, <2>4 DEF Idle, Request, Steps, Null, Known, Changing
  <2>6. requests' = [requests EXCEPT ![r] = q]
    BY <2>1, <2>4 DEF Start
  <2> QED BY <1>8, <2>3, <2>5, <2>6, FrameStep DEF SeedLogin, AccountsTypeOK
<1>9. ASSUME NEW r \in Requests, NEW i \in Ids, NEW j \in Ids,
             \/ UpdateUser(r, i, j) \/ BanUser(r, i, j) \/ UnbanUser(r, i, j)
             \/ DeleteAccount(r, i, j)
      PROVE  AccountsInv'
  <2>1. PICK step \in Changing :
          /\ users[j] # NoOne
          /\ Admitted(i, IF step = "deleting" /\ i = j THEN Roles ELSE {"ADMIN"})
          /\ step \in {"banning", "unbanning"} => i # j
          /\ requests' = [requests EXCEPT ![r] =
               [Idle EXCEPT !.at = step, !.caller = i, !.target = j]]
    BY <1>9 DEF UpdateUser, BanUser, UnbanUser, DeleteAccount, Start, Changing
  <2>2. PICK q \in Request :
          Known(q, users, logins) /\ requests' = [requests EXCEPT ![r] = q]
    BY <2>1, AdmittedKnown
  <2>3. UNCHANGED <<users, logins, confirmed, spoilt>>
    BY <1>9 DEF UpdateUser, BanUser, UnbanUser, DeleteAccount
  <2> QED BY <2>2, <2>3, FrameStep DEF AccountsTypeOK
<1>10. ASSUME NEW m \in Emails, Confirm(m) PROVE AccountsInv'
  BY <1>10 DEF Confirm, AccountsTypeOK
<1>11. CASE UNCHANGED accountVars
  BY <1>11 DEF accountVars, AccountsTypeOK
<1> QED BY <1>1, <1>2, <1>3, <1>4, <1>5, <1>6, <1>7, <1>8, <1>9, <1>10, <1>11
        DEF AccountsNext

LEMMA AccountsInvariant == AccountsSpec => []AccountsInv
<1> QED BY AccountsInvInit, AccountsInvStep, PTL DEF AccountsSpec

\* Type correctness of accounts, logins and requests.
THEOREM AccountsType == AccountsSpec => []AccountsTypeOK
<1>1. AccountsInv => AccountsTypeOK
  BY DEF AccountsInv
<1> QED BY <1>1, AccountsInvariant, PTL

-----------------------------------------------------------------------------
(* Somebody is left to administer                                          *)

\* A row that no step has written stays an admin's.
LEMMA AdminStays ==
  ASSUME NEW i \in Admins, users'[i] = users[i]
  PROVE  i \in Admins'
BY DEF Admins

LEMMA AdminsStep ==
  ASSUME AccountsInv, [AccountsNext]_accountVars, Admins # {}, Admins' = {}
  PROVE  \E r \in Requests :
           /\ requests[r] # Idle /\ requests'[r] = Idle
           /\ \/ requests[r].overtaken
              \/ /\ requests[r].at \in {"updating", "deleting"}
                 /\ requests[r].caller = requests[r].target
<1>1. users' # users
  BY AdminStays DEF Admins
<1>2. ASSUME NEW r \in Requests, InsertUser(r) PROVE FALSE
  <2>1. PICK i \in Admins : TRUE
    OBVIOUS
  <2>2. i \in Ids /\ i # requests[r].target
    BY <1>2 DEF Admins, InsertUser
  <2>3. users'[i] = users[i]
    BY <1>2, <2>2 DEF InsertUser, AccountsInv, AccountsTypeOK
  <2> QED BY <2>3, AdminStays
<1>3. ASSUME NEW r \in Requests, SaveUpdate(r) \/ SaveActive(r) \/ SaveDeleted(r)
      PROVE  /\ requests[r] # Idle /\ requests'[r] = Idle
             /\ \/ requests[r].overtaken
                \/ /\ requests[r].at \in {"updating", "deleting"}
                   /\ requests[r].caller = requests[r].target
  <2>1. requests[r].at \in Changing /\ Known(requests[r], users, logins)
    BY <1>3 DEF SaveUpdate, SaveActive, SaveDeleted, At, Changing, AccountsInv
  <2>2. requests[r] # Idle
    BY <2>1 DEF Idle, Changing
  <2>3. requests'[r] = Idle
    BY <1>3 DEF SaveUpdate, SaveActive, SaveDeleted, FinishWith
  <2>4. ASSUME ~requests[r].overtaken, requests[r].caller # requests[r].target PROVE FALSE
    <3>1. requests[r].caller \in Admins
      BY <2>1, <2>4 DEF Known, Entitled, Admins
    <3>2. users'[requests[r].caller] = users[requests[r].caller]
      BY <1>3, <2>1, <2>4
         DEF SaveUpdate, SaveActive, SaveDeleted, AccountsInv, AccountsTypeOK, Known
    <3> QED BY <3>1, <3>2, AdminStays
  <2>5. requests[r].at \in {"banning", "unbanning"} => requests[r].caller # requests[r].target
    BY <2>1 DEF Known
  <2> QED BY <2>1, <2>2, <2>3, <2>4, <2>5 DEF Changing
<1> QED
  BY <1>1, <1>2, <1>3
     DEF AccountsNext, SignUp, Refuse, Register, SeedLogin, UpdateUser, BanUser, UnbanUser,
         DeleteAccount, Confirm, accountVars

\* banUser, deleteAccount and updateUser leave an admin, except for one who resigns and
\* for handlers overtaken by another.
THEOREM AccountsKeepAdmin == AccountsSpec => AdminsGoneNeedsOverlap
<1>1. AccountsInv /\ [AccountsNext]_accountVars =>
        [Admins # {} /\ Admins' = {} =>
           \E r \in Requests :
             /\ requests[r] # Idle /\ requests'[r] = Idle
             /\ \/ requests[r].overtaken
                \/ /\ requests[r].at \in {"updating", "deleting"}
                   /\ requests[r].caller = requests[r].target
        ]_accountVars
  BY AdminsStep
<1> QED BY <1>1, AccountsInvariant, PTL DEF AccountsSpec, AdminsGoneNeedsOverlap

-----------------------------------------------------------------------------
(* Each account has a login                                                *)

LEMMA LoginsInit == AccountsInit => LoginsInv
BY DEF AccountsInit, LoginsInv, LoginOK, AccountHasLogin

\* What a step does to a login, a row, and a handler that makes a row.
LoginStays(m) == logins[m] # NoOne => logins'[m] = logins[m]

LoginIsMade(m) ==
  logins[m] = NoOne /\ logins'[m] # NoOne =>
    \E r \in Requests :
      At(r, "inserting")' /\ requests'[r].email = m /\ requests'[r].target = logins'[m]

RowStays(i) ==
  users[i] # NoOne =>
    /\ users'[i] # NoOne
    /\ \/ users'[i].email = users[i].email
       \/ users'[i].email = NoOne /\ users[i].email \in Null(spoilt')

RowIsMade(i) ==
  users[i] = NoOne /\ users'[i] # NoOne =>
    \E r \in Requests : InsertUser(r) /\ requests[r].target = i

MakerGoesOn(r) ==
  At(r, "inserting") =>
    \/ /\ At(r, "inserting")'
       /\ requests'[r].email = requests[r].email
       /\ requests'[r].target = requests[r].target
    \/ InsertUser(r)
    \/ requests[r].email \in spoilt'

Steady ==
  /\ \A m \in Emails : LoginStays(m) /\ LoginIsMade(m)
  /\ \A i \in Ids : RowStays(i) /\ RowIsMade(i)
  /\ \A r \in Requests : MakerGoesOn(r)
  /\ spoilt \subseteq spoilt'

\* A handler that is not making a row begins, goes on or ends.
LEMMA FrameSteady ==
  ASSUME AccountsInv, UNCHANGED <<users, logins>>, spoilt \subseteq spoilt',
         NEW r \in Requests, NEW q, requests' = [requests EXCEPT ![r] = q],
         ~At(r, "inserting") \/ requests[r].email \in spoilt'
  PROVE  Steady
<1>1. ASSUME NEW p \in Requests PROVE MakerGoesOn(p)
  BY DEF MakerGoesOn, At, AccountsInv, AccountsTypeOK
<1> QED BY <1>1 DEF Steady, LoginStays, LoginIsMade, RowStays, RowIsMade

\* A handler ends with the writing of row i.
LEMMA WriteSteady ==
  ASSUME AccountsInv, UNCHANGED logins, spoilt \subseteq spoilt',
         NEW r \in Requests, NEW i \in Ids, NEW row \in User,
         users' = [users EXCEPT ![i] = row], FinishWith(r, i),
         RowStays(i), RowIsMade(i), MakerGoesOn(r)
  PROVE  Steady
<1>1. ASSUME NEW p \in Requests, p # r PROVE MakerGoesOn(p)
  <2>1. /\ requests'[p].at = requests[p].at
        /\ requests'[p].email = requests[p].email
        /\ requests'[p].target = requests[p].target
    BY <1>1 DEF FinishWith, AccountsInv, AccountsTypeOK, Request
  <2> QED BY <2>1 DEF MakerGoesOn, At
<1>2. ASSUME NEW j \in Ids, j # i PROVE RowStays(j) /\ RowIsMade(j)
  BY <1>2 DEF RowStays, RowIsMade, AccountsInv, AccountsTypeOK
<1> QED BY <1>1, <1>2 DEF Steady, LoginStays, LoginIsMade

LEMMA SteadyStep == AccountsInv /\ [AccountsNext]_accountVars => Steady
<1> SUFFICES ASSUME AccountsInv, [AccountsNext]_accountVars PROVE Steady
  OBVIOUS
<1>1. ASSUME NEW r \in Requests, SignUp(r) PROVE Steady
  <2> DEFINE m == requests[r].email
  <2>1. m \in Emails /\ requests[r] \in Request /\ ~At(r, "inserting")
    BY <1>1 DEF SignUp, At, AccountsInv, AccountsTypeOK, Known
  <2>2. PICK i \in Ids :
          /\ \/ logins[m] = NoOne /\ i \in NewIds /\ logins' = [logins EXCEPT ![m] = i]
             \/ logins[m] = i /\ m \notin confirmed /\ UNCHANGED logins
             \/ m \in confirmed /\ i \in NewIds /\ UNCHANGED logins
          /\ requests' = [requests EXCEPT ![r].at = "inserting", ![r].target = i]
    BY <1>1 DEF SignUp
  <2>3. /\ At(r, "inserting")' /\ requests'[r].email = m /\ requests'[r].target = i
        /\ \A p \in Requests \ {r} : requests'[p] = requests[p]
    BY <2>1, <2>2 DEF At, AccountsInv, AccountsTypeOK, Request
  <2>4. \A n \in Emails : LoginStays(n)
    BY <2>1, <2>2 DEF LoginStays, AccountsInv, AccountsTypeOK
  <2>5. ASSUME NEW n \in Emails PROVE LoginIsMade(n)
    BY <2>1, <2>2, <2>3 DEF LoginIsMade, AccountsInv, AccountsTypeOK
  <2>6. \A p \in Requests : MakerGoesOn(p)
    BY <2>1, <2>3 DEF MakerGoesOn, At
  <2> QED BY <1>1, <2>4, <2>5, <2>6 DEF SignUp, Steady, RowStays, RowIsMade
<1>2. ASSUME NEW r \in Requests, InsertUser(r) PROVE Steady
  <2>1. PICK i \in Ids, row \in User :
          /\ i = requests[r].target
          /\ users' = [users EXCEPT ![i] = row] /\ FinishWith(r, i)
    BY <1>2 DEF InsertUser, At, AccountsInv, Known, User, Null
  <2>2. RowStays(i) /\ RowIsMade(i) /\ MakerGoesOn(r)
    BY <1>2, <2>1 DEF InsertUser, RowStays, RowIsMade, MakerGoesOn
  <2>3. UNCHANGED logins /\ spoilt \subseteq spoilt'
    BY <1>2 DEF InsertUser
  <2> QED BY <2>1, <2>2, <2>3, WriteSteady
<1>3. ASSUME NEW r \in Requests, Refuse(r) PROVE Steady
  <2>1. /\ UNCHANGED <<users, logins>> /\ spoilt \subseteq spoilt'
        /\ requests' = [requests EXCEPT ![r] = Idle]
        /\ ~At(r, "inserting") \/ requests[r].email \in spoilt'
    BY <1>3 DEF Refuse
  <2> QED BY <2>1, FrameSteady
<1>4. ASSUME NEW r \in Requests, SaveUpdate(r) \/ SaveActive(r) \/ SaveDeleted(r)
      PROVE  Steady
  <2>1. requests[r].target \in Ids /\ users[requests[r].target] \in User
    BY <1>4 DEF SaveUpdate, SaveActive, SaveDeleted, At, Known, Changing, AccountsInv,
                AccountsTypeOK, Null
  <2>2. PICK i \in Ids : i = requests[r].target
    BY <2>1
  <2>3. PICK row \in User :
          /\ users' = [users EXCEPT ![i] = row]
          /\ \/ row.email = users[i].email
             \/ row.email = NoOne /\ users[i].email \in Null(spoilt')
    <3>1. CASE SaveUpdate(r)
      <4>1. PICK role \in Roles, active \in BOOLEAN :
              users' = [users EXCEPT ![i].role = role, ![i].active = active]
        BY <3>1, <2>2 DEF SaveUpdate
      <4>2. PICK row : row = [users[i] EXCEPT !.role = role, !.active = active]
        OBVIOUS
      <4>3. row \in User /\ row.email = users[i].email
        BY <2>1, <2>2, <4>2 DEF User
      <4>4. users' = [users EXCEPT ![i] = row]
        BY <4>1, <4>2 DEF AccountsInv, AccountsTypeOK
      <4> QED BY <4>3, <4>4
    <3>2. CASE SaveActive(r)
      <4>1. PICK row : row = [users[i] EXCEPT !.active = At(r, "unbanning")]
        OBVIOUS
      <4>2. row \in User /\ row.email = users[i].email
        BY <2>1, <2>2, <4>1 DEF User, At
      <4>3. users' = [users EXCEPT ![i] = row]
        BY <2>2, <3>2, <4>1 DEF SaveActive, AccountsInv, AccountsTypeOK
      <4> QED BY <4>2, <4>3
    <3>3. CASE SaveDeleted(r)
      <4>1. PICK row : row = [users[i] EXCEPT !.active = FALSE, !.email = NoOne]
        OBVIOUS
      <4>2. row \in User /\ row.email = NoOne
        BY <2>1, <2>2, <4>1 DEF User, Null
      <4>3. users' = [users EXCEPT ![i] = row]
        BY <2>2, <3>3, <4>1 DEF SaveDeleted, AccountsInv, AccountsTypeOK
      <4>4. users[i].email \in Null(spoilt')
        BY <2>1, <2>2, <3>3 DEF SaveDeleted, User, Null
      <4> QED BY <4>2, <4>3, <4>4
    <3> QED BY <1>4, <3>1, <3>2, <3>3
  <2>4. RowStays(i) /\ RowIsMade(i)
    BY <2>1, <2>2, <2>3, AccountsAssumption
       DEF RowStays, RowIsMade, AccountsInv, AccountsTypeOK
  <2>5. UNCHANGED logins /\ spoilt \subseteq spoilt' /\ FinishWith(r, i) /\ MakerGoesOn(r)
    BY <1>4, <2>2 DEF SaveUpdate, SaveActive, SaveDeleted, MakerGoesOn, At
  <2> QED BY <2>3, <2>4, <2>5, WriteSteady
<1>5. ASSUME NEW r \in Requests, NEW m \in Emails, NEW role \in Roles, SeedLogin(r, m, role)
      PROVE  Steady
  <2>1. PICK i \in NewIds :
          /\ logins' = [logins EXCEPT ![m] = i]
          /\ Start(r, [Idle EXCEPT !.at = "inserting", !.target = i, !.email = m,
                                   !.role = role])
    BY <1>5 DEF SeedLogin
  <2>2. /\ At(r, "inserting")' /\ requests'[r].email = m /\ requests'[r].target = i
        /\ requests[r] = Idle
        /\ \A p \in Requests \ {r} : requests'[p] = requests[p]
    BY <2>1 DEF Start, At, Idle, AccountsInv, AccountsTypeOK
  <2>3. \A n \in Emails : LoginStays(n) /\ LoginIsMade(n)
    BY <1>5, <2>1, <2>2 DEF SeedLogin, LoginStays, LoginIsMade, AccountsInv, AccountsTypeOK
  <2>4. \A p \in Requests : MakerGoesOn(p)
    BY <2>2 DEF MakerGoesOn, At, Idle
  <2> QED BY <1>5, <2>3, <2>4 DEF SeedLogin, Steady, RowStays, RowIsMade
<1>6. ASSUME NEW r \in Requests, NEW q, Start(r, q),
             UNCHANGED <<users, logins, confirmed, spoilt>>
      PROVE  Steady
  <2>1. ~At(r, "inserting")
    BY <1>6 DEF Start, At, Idle
  <2> QED BY <1>6, <2>1, FrameSteady DEF Start
<1>7. CASE UNCHANGED <<users, logins, requests>> /\ spoilt' = spoilt
  BY <1>7 DEF Steady, LoginStays, LoginIsMade, RowStays, RowIsMade, MakerGoesOn, At
<1> QED
  BY <1>1, <1>2, <1>3, <1>4, <1>5, <1>6, <1>7
     DEF AccountsNext, Register, UpdateUser, BanUser, UnbanUser, DeleteAccount, Confirm,
         accountVars

LEMMA LoginsStep == AccountsInv /\ LoginsInv /\ [AccountsNext]_accountVars => LoginsInv'
<1> SUFFICES ASSUME AccountsInv, LoginsInv, [AccountsNext]_accountVars PROVE LoginsInv'
  OBVIOUS
<1>0. Steady /\ NoOne \notin Ids \cup Emails
  BY SteadyStep, AccountsAssumption
<1>1. ASSUME NEW m \in Emails PROVE LoginOK(m)'
  <2>1. CASE logins[m] = NoOne
    BY <1>0, <2>1 DEF Steady, LoginIsMade, LoginOK
  <2>2. CASE logins[m] # NoOne /\ m \in spoilt
    BY <1>0, <2>2 DEF Steady, LoginOK
  <2>3. CASE /\ logins[m] # NoOne
             /\ users[logins[m]] # NoOne /\ users[logins[m]].email = m
    <3>1. logins[m] \in Ids /\ logins'[m] = logins[m]
      BY <1>0, <2>3 DEF Steady, LoginStays, AccountsInv, AccountsTypeOK, Null
    <3>2. RowStays(logins[m])
      BY <1>0, <3>1 DEF Steady
    <3> QED BY <1>0, <2>3, <3>1, <3>2 DEF RowStays, LoginOK, Null
  <2>4. ASSUME logins[m] # NoOne,
               NEW r \in Requests, At(r, "inserting"), requests[r].email = m,
               requests[r].target = logins[m]
        PROVE  LoginOK(m)'
    <3>1. logins[m] \in Ids /\ logins'[m] = logins[m] /\ MakerGoesOn(r)
      BY <1>0, <2>4 DEF Steady, LoginStays, AccountsInv, AccountsTypeOK, Null
    <3>2. CASE InsertUser(r)
      <4>1. PICK row : row = [role |-> requests[r].role, active |-> TRUE, email |-> m]
        OBVIOUS
      <4>2. users'[logins[m]] = row
        BY <2>4, <3>1, <3>2, <4>1 DEF InsertUser, AccountsInv, AccountsTypeOK
      <4>3. requests[r].role \in Roles
        BY <2>4 DEF AccountsInv, Known, At
      <4>4. row \in User /\ row.email = m
        BY <4>1, <4>3 DEF User, Null
      <4> QED BY <3>1, <4>2, <4>4, AccountsAssumption DEF LoginOK
    <3> QED BY <2>4, <3>1, <3>2 DEF MakerGoesOn, LoginOK
  <2> QED BY <2>1, <2>2, <2>3, <2>4 DEF LoginsInv, LoginOK
<1>2. ASSUME NEW i \in Ids, users'[i] # NoOne
      PROVE  \/ HasLogin(i)'
             \/ users'[i].email \in Null(spoilt')
             \/ \E r \in Requests : At(r, "inserting")' /\ requests'[r].email = users'[i].email
  <2>1. CASE users[i] = NoOne
    <3>1. PICK r \in Requests : InsertUser(r) /\ requests[r].target = i
      BY <1>0, <1>2, <2>1 DEF Steady, RowIsMade
    <3>2. PICK m \in Emails : m = requests[r].email
      BY <3>1 DEF InsertUser, At, AccountsInv, Known
    <3>3. /\ ~EmailTaken(m) /\ users'[i].email = m
          /\ \A j \in Ids \ {i} : users'[j] = users[j]
      BY <3>1, <3>2 DEF InsertUser, AccountsInv, AccountsTypeOK
    <3>4. logins[m] # NoOne /\ logins'[m] = logins[m] /\ logins[m] \in Ids
      BY <3>1, <3>2 DEF InsertUser, At, AccountsInv, AccountsTypeOK, Known, Null
    <3>5. LoginOK(m)'
      BY <1>1
    <3>6. users'[logins[m]] # NoOne /\ users'[logins[m]].email = m => logins[m] = i
      BY <3>3, <3>4 DEF EmailTaken
    <3> QED BY <3>3, <3>4, <3>5, <3>6 DEF LoginOK, HasLogin, Null
  <2>2. CASE users[i] # NoOne
    <3>1. RowStays(i)
      BY <1>0 DEF Steady
    <3>2. CASE HasLogin(i)
      BY <1>0, <3>2 DEF HasLogin, Steady, LoginStays
    <3>3. CASE users[i].email \in Null(spoilt)
      BY <1>0, <2>2, <3>1, <3>3 DEF RowStays, Steady, Null
    <3>4. ASSUME NEW r \in Requests, At(r, "inserting"), requests[r].email = users[i].email
          PROVE  \/ users'[i].email \in Null(spoilt')
                 \/ At(r, "inserting")' /\ requests'[r].email = users'[i].email
      <4>1. ~InsertUser(r)
        BY <2>2, <3>4 DEF InsertUser, EmailTaken
      <4>2. MakerGoesOn(r)
        BY <1>0 DEF Steady
      <4> QED BY <2>2, <3>1, <3>4, <4>1, <4>2 DEF RowStays, MakerGoesOn, Null
    <3> QED BY <2>2, <3>2, <3>3, <3>4 DEF LoginsInv, AccountHasLogin
  <2> QED BY <2>1, <2>2
<1> QED BY <1>1, <1>2 DEF LoginsInv, AccountHasLogin

\* Registering, the seed script and deleting leave no account without a login, other
\* than those of emails used before.
THEOREM AccountsHaveLogin == AccountsSpec => []AccountHasLogin
<1>1. AccountsInv /\ LoginsInv /\ [AccountsNext]_accountVars => (AccountsInv /\ LoginsInv)'
  BY AccountsInvStep, LoginsStep
<1>2. AccountsInit => AccountsInv /\ LoginsInv
  BY AccountsInvInit, LoginsInit
<1>3. LoginsInv => AccountHasLogin
  BY DEF LoginsInv
<1> QED BY <1>1, <1>2, <1>3, PTL DEF AccountsSpec

-----------------------------------------------------------------------------
(* What a handler of a class knows                                         *)

Teaches(i, c, ts) == \E x \in Rows : ts[x] = [class |-> c, teacher |-> i]

Owns(i, c, cs) == c \in Classes /\ cs[c] # NoOne /\ cs[c].creator = i

\* What a handler that has not been overtaken has found, of users, classes and
\* teachers as they are in us, cs and ts.
CallEntitled(q, us, cs, ts) ==
  /\ us[q.caller] # NoOne /\ us[q.caller].active /\ us[q.caller].role = q.role
  /\ q.at \in {"opening", "enrolling", "vetting", "hiring", "dropping"} =>
       Owns(q.caller, q.class, cs)
  /\ q.at = "coding" =>
       /\ q.class \in Classes /\ cs[q.class] # NoOne
       /\ cs[q.class].creator = q.caller \/ Teaches(q.caller, q.class, ts)
  /\ q.at = "hiring" => us[q.teacher].role = "TEACHER"
  /\ q.at \in {"vetting", "hiring"} => ~Teaches(q.teacher, q.class, ts)
  /\ q.at \in {"opening", "enrolling"} => ~Teaches(q.caller, q.class, ts)

\* The row to dismiss may be gone, but is not somebody else's: ids are not used again.
CallKnown(q, us, cs, ts) ==
  /\ q.at # "idle" =>
       /\ q.caller \in Ids
       /\ q.role \in {"TEACHER", "ADMIN"}
       /\ q.overtaken \/ CallEntitled(q, us, cs, ts)
  /\ q.at = "creating" => q.class \in Classes
  /\ q.at \in {"finding", "vetting", "hiring", "looking", "dismissing"} => q.teacher \in Ids
  /\ q.at = "dismissing" =>
       /\ q.row \in Rows
       /\ ts[q.row] # NoOne => ts[q.row] = [class |-> q.class, teacher |-> q.teacher]

\* The foreign key from ClassTeacher to Class.
TeachersOfClasses == \A x \in Rows : teachers[x] # NoOne => classes[teachers[x].class] # NoOne

ClassInv ==
  /\ TypeOK
  /\ AccountsInv
  /\ TeachersOfClasses
  /\ \A k \in Calls : CallKnown(calls[k], users, classes, teachers)

-----------------------------------------------------------------------------
(* Classroom implements Accounts                                           *)

\* Every step of a handler of a class leaves the accounts alone, and every other one
\* is a step of Accounts: registering, updating, banning and deleting accounts go on
\* as if there were no classes.
THEOREM ClassroomImplementsAccounts == Spec => AccountsSpec
<1>1. Init => AccountsInit
  BY DEF Init
<1>2. [Next]_vars => [AccountsNext]_accountVars
  BY DEF Next, vars, AccountStep, Proceed, InsertClass, InsertConversation, EnrollCreator,
         CheckPermission, SaveCode, FindTeacher, VetTeacher, HireTeacher, FindRow,
         DismissTeacher, ReadClass, DeleteClass, Abandon, Admit, JoinClass, LeaveClass,
         OpenConversation
<1> QED BY <1>1, <1>2, PTL DEF Spec, AccountsSpec

\* The rules of updateUser, banUser and deleteAccount leave an admin, in the program
\* with its classes too.
THEOREM KeepAdmin == Spec => AdminsGoneNeedsOverlap
BY ClassroomImplementsAccounts, AccountsKeepAdmin, PTL

\* Each account has a login, in the program with its classes too.
THEOREM HaveLogin == Spec => []AccountHasLogin
BY ClassroomImplementsAccounts, AccountsHaveLogin, PTL

-----------------------------------------------------------------------------
(* What handlers know                                                      *)

LEMMA NoCallKnown ==
  ASSUME NEW us, NEW cs, NEW ts
  PROVE  NoCall \in Call /\ CallKnown(NoCall, us, cs, ts)
BY DEF NoCall, Call, CallSteps, Null, CallKnown

LEMMA NullFacts ==
  /\ NoOne \notin Class /\ NoOne \notin Teacher /\ NoOne \notin Classes /\ NoOne \notin Rows
  /\ NoOne \notin Ids /\ NoOne \notin User
BY ClassroomAssumption, AccountsAssumption

\* The creators of the classes there are stay, whatever is written.
CreatorsStay ==
  \A d \in Classes : classes[d] # NoOne =>
    classes'[d] # NoOne /\ classes'[d].creator = classes[d].creator

\* A handler begins, goes on or ends, and no user or teacher is written.
LEMMA GoingOn ==
  ASSUME ClassInv, users' = users, teachers' = teachers, CreatorsStay,
         NEW k \in Calls, NEW q \in Call, CallKnown(q, users, classes', teachers),
         calls' = [calls EXCEPT ![k] = q]
  PROVE  /\ calls' \in [Calls -> Call]
         /\ \A l \in Calls : CallKnown(calls'[l], users', classes', teachers')
<1>1. ASSUME NEW l \in Calls, l # k PROVE CallKnown(calls'[l], users', classes', teachers')
  <2>1. calls'[l] = calls[l] /\ CallKnown(calls[l], users, classes, teachers)
    BY <1>1 DEF ClassInv, TypeOK
  <2> QED BY <2>1 DEF CallKnown, CallEntitled, Owns, CreatorsStay
<1>2. calls' \in [Calls -> Call] /\ calls'[k] = q
  BY DEF ClassInv, TypeOK
<1> QED BY <1>1, <1>2

\* Only rows of class c are written, and none that a handler has still to dismiss.
OnlyTeachersOf(c) ==
  \A x \in Rows : teachers'[x] # teachers[x] =>
    /\ teachers[x] = NoOne \/ teachers[x].class = c
    /\ teachers'[x] = NoOne \/ (teachers'[x].class = c /\ \A l \in Calls : calls[l].row # x)

\* A handler ends with writing to class c.
LEMMA Wrote ==
  ASSUME ClassInv, users' = users, CreatorsStay,
         NEW c \in Classes, teachers' \in [Rows -> Null(Teacher)], OnlyTeachersOf(c),
         NEW k \in Calls, WroteAndGoesTo(k, "idle", c)
  PROVE  /\ calls' \in [Calls -> Call]
         /\ \A l \in Calls : CallKnown(calls'[l], users', classes', teachers')
<1>1. ASSUME NEW l \in Calls
      PROVE  calls'[l] \in Call /\ CallKnown(calls'[l], users', classes', teachers')
  <2>1. calls[l] \in Call /\ CallKnown(calls[l], users, classes, teachers)
    BY DEF ClassInv, TypeOK
  <2>2. calls[l].at = "dismissing" /\ teachers'[calls[l].row] # NoOne =>
          teachers'[calls[l].row] = teachers[calls[l].row]
    BY <2>1 DEF OnlyTeachersOf, CallKnown
  <2>3. CASE l = k
    BY <2>3, NoCallKnown DEF WroteAndGoesTo
  <2>4. CASE l # k /\ calls[l].class = c
    <3>1. calls'[l] = [calls[l] EXCEPT !.overtaken = TRUE]
      BY <2>4 DEF WroteAndGoesTo
    <3>2. /\ calls'[l] \in Call /\ calls'[l].overtaken
          /\ calls'[l].at = calls[l].at /\ calls'[l].caller = calls[l].caller
          /\ calls'[l].role = calls[l].role /\ calls'[l].class = calls[l].class
          /\ calls'[l].teacher = calls[l].teacher /\ calls'[l].row = calls[l].row
      BY <2>1, <3>1 DEF Call
    <3> QED BY <2>1, <2>2, <3>2 DEF CallKnown
  <2>5. CASE l # k /\ calls[l].class # c
    <3>1. calls'[l] = calls[l]
      BY <2>5 DEF WroteAndGoesTo
    <3>2. ASSUME NEW i \in Ids, calls[l].class \in Classes
          PROVE  Teaches(i, calls[l].class, teachers') <=> Teaches(i, calls[l].class, teachers)
      <4>1. ASSUME NEW x \in Rows, NEW t, t = [class |-> calls[l].class, teacher |-> i]
            PROVE  teachers'[x] = t <=> teachers[x] = t
        <5>1. t # NoOne /\ t.class # c
          BY <2>5, <3>2, <4>1, NullFacts DEF Teacher
        <5> QED BY <5>1 DEF OnlyTeachersOf
      <4> QED BY <4>1 DEF Teaches
    <3>3. calls[l].at \in {"opening", "enrolling", "vetting", "hiring", "coding"} /\
            ~calls[l].overtaken => calls[l].class \in Classes
      BY <2>1 DEF CallKnown, CallEntitled, Owns
    <3>4. calls[l].at # "idle" /\ ~calls[l].overtaken =>
            CallEntitled(calls[l], users', classes', teachers')
      BY <2>1, <3>2, <3>3 DEF CallKnown, CallEntitled, Owns, CreatorsStay
    <3> QED BY <2>1, <2>2, <3>1, <3>4 DEF CallKnown
  <2> QED BY <2>3, <2>4, <2>5
<1> QED BY <1>1 DEF WroteAndGoesTo

-----------------------------------------------------------------------------
LEMMA ClassInit == Init => ClassInv
<1> SUFFICES ASSUME Init PROVE ClassInv
  OBVIOUS
<1>1. AccountsInv
  BY AccountsInvInit DEF Init
<1>2. TypeOK
  BY <1>1, NoCallKnown DEF Init, TypeOK, AccountsInv, Null
<1> QED BY <1>1, <1>2, NoCallKnown DEF Init, ClassInv, TeachersOfClasses

\* A row is added for j to class c, of which there may be one already.
LEMMA AddTeacher ==
  ASSUME ClassInv, NEW c \in Classes, classes[c] # NoOne, classes' = classes, NEW j \in Ids,
         NEW x \in NewRows,
         teachers' = [teachers EXCEPT ![x] = [class |-> c, teacher |-> j]]
  PROVE  /\ teachers' \in [Rows -> Null(Teacher)]
         /\ OnlyTeachersOf(c)
         /\ TeachersOfClasses'
<1>1. PICK t \in Teacher : t = [class |-> c, teacher |-> j]
  BY DEF Teacher
<1>2. x \in Rows /\ teachers[x] = NoOne /\ \A l \in Calls : calls[l].row # x
  BY DEF NewRows
<1>3. teachers' \in [Rows -> Null(Teacher)] /\ teachers'[x] = t /\ t.class = c
      /\ \A y \in Rows \ {x} : teachers'[y] = teachers[y]
  BY <1>1, <1>2 DEF ClassInv, TypeOK, Null
<1>4. OnlyTeachersOf(c)
  BY <1>2, <1>3 DEF OnlyTeachersOf
<1>5. TeachersOfClasses'
  BY <1>2, <1>3 DEF TeachersOfClasses, ClassInv
<1> QED BY <1>3, <1>4, <1>5

\* The class of a handler that has found it.
LEMMA ClassFound ==
  ASSUME ClassInv, NEW k \in Calls, Exists(calls[k].class)
  PROVE  calls[k].class \in Classes /\ classes[calls[k].class] \in Class
BY DEF ClassInv, TypeOK, Call, Exists, Null

\* A handler goes on to its next step, and forgets nothing.
LEMMA Moved ==
  ASSUME ClassInv, NEW k \in Calls, NEW step \in CallSteps, GoTo(k, step)
  PROVE  \E q \in Call :
           /\ calls' = [calls EXCEPT ![k] = q]
           /\ q.at = step /\ q.caller = calls[k].caller /\ q.role = calls[k].role
           /\ q.class = calls[k].class /\ q.teacher = calls[k].teacher
           /\ q.overtaken = calls[k].overtaken
<1>1. PICK q : q = [calls[k] EXCEPT !.at = step]
  OBVIOUS
<1>2. calls[k] \in Call
  BY DEF ClassInv, TypeOK
<1>3. /\ q \in Call
      /\ q.at = step /\ q.caller = calls[k].caller /\ q.role = calls[k].role
      /\ q.class = calls[k].class /\ q.teacher = calls[k].teacher
      /\ q.overtaken = calls[k].overtaken
  BY <1>1, <1>2 DEF Call
<1>4. calls' = [calls EXCEPT ![k] = q]
  BY <1>1 DEF GoTo, ClassInv, TypeOK
<1> QED BY <1>3, <1>4

LEMMA ClassStep == ClassInv /\ [Next]_vars => ClassInv'
<1> SUFFICES ASSUME ClassInv, [Next]_vars PROVE ClassInv'
  OBVIOUS
<1> USE DEF ClassInv
<1>0. [AccountsNext]_accountVars
  BY DEF Next, vars, AccountStep, Proceed, InsertClass, InsertConversation, EnrollCreator,
         CheckPermission, SaveCode, FindTeacher, VetTeacher, HireTeacher, FindRow,
         DismissTeacher, ReadClass, DeleteClass, Abandon, Admit, JoinClass, LeaveClass,
         OpenConversation
<1>a. AccountsInv' /\ AccountsTypeOK'
  BY <1>0, AccountsInvStep DEF AccountsInv
<1>1. ASSUME AccountStep PROVE ClassInv'
  <2>1. ASSUME NEW k \in Calls
        PROVE  calls'[k] \in Call /\ CallKnown(calls'[k], users', classes', teachers')
    <3>1. calls[k] \in Call /\ CallKnown(calls[k], users, classes, teachers)
      BY DEF TypeOK
    <3>2. CASE \E i \in {calls[k].caller, calls[k].teacher} \cap Ids : users'[i] # users[i]
      <4>1. calls'[k] = [calls[k] EXCEPT !.overtaken = TRUE]
        BY <1>1, <3>2 DEF AccountStep
      <4>2. /\ calls'[k] \in Call /\ calls'[k].overtaken
            /\ calls'[k].at = calls[k].at /\ calls'[k].caller = calls[k].caller
            /\ calls'[k].role = calls[k].role /\ calls'[k].class = calls[k].class
            /\ calls'[k].teacher = calls[k].teacher /\ calls'[k].row = calls[k].row
        BY <3>1, <4>1 DEF Call
      <4> QED BY <1>1, <3>1, <4>2 DEF CallKnown, AccountStep, classVars
    <3>3. CASE \A i \in {calls[k].caller, calls[k].teacher} \cap Ids : users'[i] = users[i]
      <4>1. calls'[k] = calls[k]
        BY <1>1, <3>3 DEF AccountStep
      <4> QED BY <1>1, <3>1, <3>3, <4>1 DEF CallKnown, CallEntitled, AccountStep, classVars
    <3> QED BY <3>2, <3>3
  <2>2. calls' \in [Calls -> Call]
    BY <1>1, <2>1 DEF AccountStep
  <2> QED BY <1>1, <1>a, <2>1, <2>2 DEF AccountStep, classVars, TypeOK, TeachersOfClasses
<1>2. ASSUME NEW k \in Calls, NEW i \in Ids, NEW c \in Classes, NEW step, NEW j,
             Admit(k, i, step, c, j),
             \/ step \in {"creating", "permitting", "disposing"} /\ j = NoOne
             \/ step \in {"finding", "looking"} /\ j \in Ids
      PROVE  ClassInv'
  <2>1. PICK q : q = [NoCall EXCEPT !.at = step, !.caller = i, !.role = users[i].role,
                                    !.class = c, !.teacher = j]
    OBVIOUS
  <2>2. users[i] # NoOne /\ users[i].active /\ users[i].role \in {"TEACHER", "ADMIN"}
    BY <1>2 DEF Admit, Admitted
  <2>3. q \in Call
    BY <1>2, <2>1, <2>2 DEF NoCall, Call, CallSteps, Null, Roles
  <2>4. q.at = step /\ q.caller = i /\ q.role = users[i].role /\ q.class = c /\ q.teacher = j
    BY <2>1 DEF NoCall
  <2>5. CallKnown(q, users, classes, teachers)
    BY <1>2, <2>2, <2>4 DEF CallKnown, CallEntitled
  <2>6. calls' = [calls EXCEPT ![k] = q] /\ UNCHANGED <<users, classVars>> /\ CreatorsStay
    BY <1>2, <2>1 DEF Admit, classVars, accountVars, CreatorsStay
  <2> QED BY <1>a, <2>3, <2>5, <2>6, GoingOn DEF TypeOK, TeachersOfClasses, classVars
<1>3. ASSUME NEW k \in Calls, InsertClass(k) PROVE ClassInv'
  <2> DEFINE c == calls[k].class
  <2>1. /\ calls[k] \in Call /\ CallKnown(calls[k], users, classes, teachers)
        /\ c \in Classes /\ calls[k].at = "creating" /\ classes[c] = NoOne
        /\ calls[k].caller \in Ids
    BY <1>3 DEF InsertClass, Doing, TypeOK, CallKnown
  <2>2. PICK row \in Class :
          row.creator = calls[k].caller /\ classes' = [classes EXCEPT ![c] = row]
    <3>1. PICK code \in Codes :
            classes' = [classes EXCEPT ![c] = [creator |-> calls[k].caller, code |-> code]]
      BY <1>3 DEF InsertClass
    <3>2. PICK row : row = [creator |-> calls[k].caller, code |-> code]
      OBVIOUS
    <3>3. row \in Class /\ row.creator = calls[k].caller
      BY <2>1, <3>2 DEF Class
    <3> QED BY <3>1, <3>2, <3>3
  <2>3. /\ classes' \in [Classes -> Null(Class)]
        /\ classes'[c] # NoOne /\ classes'[c].creator = calls[k].caller
        /\ \A d \in Classes \ {c} : classes'[d] = classes[d]
    BY <2>1, <2>2, NullFacts DEF TypeOK, Null
  <2>4. PICK q : q = [calls[k] EXCEPT !.at = "opening"]
    OBVIOUS
  <2>5. /\ q \in Call /\ q.at = "opening" /\ q.caller = calls[k].caller
        /\ q.role = calls[k].role /\ q.class = c /\ q.overtaken = calls[k].overtaken
    BY <2>1, <2>4 DEF Call, CallSteps
  <2>6. ~Teaches(calls[k].caller, c, teachers)
    <3> SUFFICES ASSUME NEW x \in Rows,
                        teachers[x] = [class |-> c, teacher |-> calls[k].caller]
                 PROVE  FALSE
      BY DEF Teaches
    <3>1. teachers[x] \in Teacher /\ teachers[x].class = c
      BY <2>1 DEF Teacher
    <3> QED BY <2>1, <3>1, NullFacts DEF TeachersOfClasses
  <2>7. CallKnown(q, users, classes', teachers)
    BY <2>1, <2>3, <2>5, <2>6 DEF CallKnown, CallEntitled, Owns
  <2>8. CreatorsStay
    BY <2>1, <2>3 DEF CreatorsStay
  <2>9. calls' = [calls EXCEPT ![k] = q] /\ UNCHANGED <<users, teachers, students, chats>>
    BY <1>3, <2>4 DEF InsertClass, GoTo, accountVars, TypeOK
  <2>10. TeachersOfClasses'
    BY <2>3, <2>8, <2>9 DEF TeachersOfClasses, TypeOK, Null, Teacher, CreatorsStay
  <2> QED BY <1>a, <2>3, <2>5, <2>7, <2>8, <2>9, <2>10, GoingOn DEF TypeOK
<1>4. ASSUME NEW k \in Calls, NEW q \in Call, calls' = [calls EXCEPT ![k] = q],
             CallKnown(q, users, classes, teachers),
             UNCHANGED <<users, classes, teachers, students>>, chats' \in SUBSET Classes
      PROVE  ClassInv'
  <2>1. CreatorsStay
    BY <1>4 DEF CreatorsStay
  <2> QED BY <1>4, <1>a, <2>1, GoingOn DEF TypeOK, TeachersOfClasses
<1>5. ASSUME NEW k \in Calls, EnrollCreator(k) PROVE ClassInv'
  <2> DEFINE c == calls[k].class
  <2>1. c \in Classes /\ classes[c] # NoOne /\ calls[k].caller \in Ids
    BY <1>5, ClassFound DEF EnrollCreator, Exists, Doing, CallKnown
  <2>2. /\ WroteAndGoesTo(k, "idle", c) /\ UNCHANGED <<users, classes, chats>>
        /\ CreatorsStay /\ students' \in [Classes -> SUBSET Ids]
    BY <1>5, <2>1 DEF EnrollCreator, accountVars, CreatorsStay, TypeOK
  <2>3. /\ teachers' \in [Rows -> Null(Teacher)]
        /\ OnlyTeachersOf(c)
        /\ TeachersOfClasses'
    <3>1. CASE calls[k].role = "TEACHER"
      <4>1. PICK x \in NewRows :
              teachers' = [teachers EXCEPT ![x] = [class |-> c, teacher |-> calls[k].caller]]
        BY <1>5, <3>1 DEF EnrollCreator
      <4> QED BY <2>1, <2>2, <4>1, AddTeacher
    <3>2. CASE calls[k].role # "TEACHER"
      BY <1>5, <2>2, <3>2 DEF EnrollCreator, OnlyTeachersOf, TypeOK, TeachersOfClasses
    <3> QED BY <3>1, <3>2
  <2> QED BY <1>a, <2>1, <2>2, <2>3, Wrote DEF TypeOK
<1>6. ASSUME NEW k \in Calls, SaveCode(k) PROVE ClassInv'
  <2> DEFINE c == calls[k].class
  <2>1. c \in Classes /\ classes[c] \in Class
    BY <1>6, ClassFound DEF SaveCode
  <2>2. PICK code \in Codes : classes' = [classes EXCEPT ![c].code = code]
    BY <1>6 DEF SaveCode
  <2>3. /\ classes'[c] \in Class /\ classes'[c].creator = classes[c].creator
        /\ \A d \in Classes \ {c} : classes'[d] = classes[d]
        /\ classes' \in [Classes -> Null(Class)]
    BY <2>1, <2>2 DEF TypeOK, Class, Null
  <2>4. CreatorsStay
    BY <2>3, NullFacts DEF CreatorsStay
  <2>5. WroteAndGoesTo(k, "idle", c) /\ UNCHANGED <<users, teachers, students, chats>>
    BY <1>6 DEF SaveCode, accountVars
  <2>6. teachers' \in [Rows -> Null(Teacher)] /\ OnlyTeachersOf(c)
    BY <2>5 DEF TypeOK, OnlyTeachersOf
  <2>7. TeachersOfClasses'
    BY <2>4, <2>5 DEF TeachersOfClasses, TypeOK, Null, Teacher, CreatorsStay
  <2> QED BY <1>a, <2>1, <2>3, <2>4, <2>5, <2>6, <2>7, Wrote DEF TypeOK
<1>7. ASSUME NEW k \in Calls, HireTeacher(k) PROVE ClassInv'
  <2> DEFINE c == calls[k].class
  <2>1. c \in Classes /\ classes[c] # NoOne /\ calls[k].teacher \in Ids
    BY <1>7, ClassFound DEF HireTeacher, Exists, Doing, CallKnown
  <2>2. WroteAndGoesTo(k, "idle", c) /\ UNCHANGED <<users, classes, students, chats>>
        /\ CreatorsStay
    BY <1>7 DEF HireTeacher, accountVars, CreatorsStay
  <2>3. PICK x \in NewRows :
          teachers' = [teachers EXCEPT ![x] = [class |-> c, teacher |-> calls[k].teacher]]
    BY <1>7 DEF HireTeacher
  <2>4. /\ teachers' \in [Rows -> Null(Teacher)]
        /\ OnlyTeachersOf(c)
        /\ TeachersOfClasses'
    BY <2>1, <2>2, <2>3, AddTeacher
  <2> QED BY <1>a, <2>1, <2>2, <2>4, Wrote DEF TypeOK
<1>8. ASSUME NEW k \in Calls, FindRow(k) PROVE ClassInv'
  <2>1. PICK x \in RowsOf(calls[k].class, calls[k].teacher) :
          calls' = [calls EXCEPT ![k].at = "dismissing", ![k].row = x]
    BY <1>8 DEF FindRow
  <2>2. x \in Rows /\ teachers[x] = [class |-> calls[k].class, teacher |-> calls[k].teacher]
    BY <2>1 DEF RowsOf
  <2>3. PICK q : q = [calls[k] EXCEPT !.at = "dismissing", !.row = x]
    OBVIOUS
  <2>4. calls[k] \in Call /\ calls[k].at = "looking"
        /\ CallKnown(calls[k], users, classes, teachers)
    BY <1>8 DEF FindRow, Doing, TypeOK
  <2>5. /\ q \in Call /\ q.at = "dismissing" /\ q.row = x /\ q.caller = calls[k].caller
        /\ q.role = calls[k].role /\ q.class = calls[k].class
        /\ q.teacher = calls[k].teacher /\ q.overtaken = calls[k].overtaken
    BY <2>2, <2>3, <2>4 DEF Call, CallSteps, Null
  <2>6. CallKnown(q, users, classes, teachers)
    BY <2>2, <2>4, <2>5 DEF CallKnown, CallEntitled
  <2>7. calls' = [calls EXCEPT ![k] = q] /\ UNCHANGED <<users, classVars>> /\ CreatorsStay
    BY <1>8, <2>1, <2>3 DEF FindRow, accountVars, classVars, TypeOK, CreatorsStay
  <2> QED BY <1>a, <2>5, <2>6, <2>7, GoingOn DEF TypeOK, TeachersOfClasses, classVars
<1>9. ASSUME NEW k \in Calls, DismissTeacher(k) PROVE ClassInv'
  <2> DEFINE x == calls[k].row
             c == calls[k].class
  <2>1. /\ x \in Rows /\ teachers[x] \in Teacher
        /\ teachers[x] = [class |-> c, teacher |-> calls[k].teacher]
    BY <1>9 DEF DismissTeacher, Doing, CallKnown, TypeOK, Null
  <2>2. c \in Classes /\ teachers[x].class = c
    BY <2>1 DEF Teacher
  <2>3. /\ WroteAndGoesTo(k, "idle", c) /\ UNCHANGED <<users, classes, students, chats>>
        /\ teachers' = [teachers EXCEPT ![x] = NoOne] /\ CreatorsStay
    BY <1>9 DEF DismissTeacher, accountVars, CreatorsStay
  <2>4. /\ teachers' \in [Rows -> Null(Teacher)]
        /\ OnlyTeachersOf(c)
        /\ TeachersOfClasses'
    BY <2>1, <2>2, <2>3 DEF TypeOK, Null, OnlyTeachersOf, TeachersOfClasses
  <2> QED BY <1>a, <2>2, <2>3, <2>4, Wrote DEF TypeOK
<1>10. ASSUME NEW k \in Calls, DeleteClass(k) PROVE ClassInv'
  <2> DEFINE c == calls[k].class
  <2>1. /\ c \in Classes /\ \A i \in Ids : RowsOf(c, i) = {}
        /\ classes' = [classes EXCEPT ![c] = NoOne] /\ chats' = chats \ {c}
        /\ UNCHANGED <<users, teachers, students>>
    BY <1>10, ClassFound DEF DeleteClass, accountVars
  <2>2. \A x \in Rows : teachers[x] # NoOne => teachers[x] \in Teacher /\ teachers[x].class # c
    <3> SUFFICES ASSUME NEW x \in Rows, teachers[x] # NoOne
                 PROVE  teachers[x] \in Teacher /\ teachers[x].class # c
      OBVIOUS
    <3>1. teachers[x] \in Teacher
      BY DEF TypeOK, Null
    <3>2. teachers[x].teacher \in Ids
          /\ teachers[x] = [class |-> teachers[x].class, teacher |-> teachers[x].teacher]
      BY <3>1 DEF Teacher
    <3> QED BY <2>1, <3>1, <3>2 DEF RowsOf
  <2>3. /\ classes' \in [Classes -> Null(Class)]
        /\ \A d \in Classes \ {c} : classes'[d] = classes[d]
    BY <2>1 DEF TypeOK, Null
  <2>4. TeachersOfClasses'
    BY <2>1, <2>2, <2>3 DEF TeachersOfClasses, Teacher
  <2>5. ASSUME NEW l \in Calls
        PROVE  calls'[l] \in Call /\ CallKnown(calls'[l], users', classes', teachers')
    <3>1. calls[l] \in Call /\ CallKnown(calls[l], users, classes, teachers)
      BY DEF TypeOK
    <3>2. CASE l = k
      BY <1>10, <3>2, NoCallKnown DEF DeleteClass
    <3>3. CASE l # k /\ calls[l].class = c /\ ~Doing(l, "creating")
      <4>1. calls'[l] = [calls[l] EXCEPT !.class = NoOne, !.overtaken = TRUE]
        BY <1>10, <3>3 DEF DeleteClass
      <4>2. /\ calls'[l] \in Call /\ calls'[l].overtaken
            /\ calls'[l].at = calls[l].at /\ calls'[l].caller = calls[l].caller
            /\ calls'[l].role = calls[l].role
            /\ calls'[l].teacher = calls[l].teacher /\ calls'[l].row = calls[l].row
        BY <3>1, <4>1 DEF Call, Null
      <4>3. calls[l].at = "dismissing" => teachers[calls[l].row] = NoOne
        BY <2>2, <3>1, <3>3 DEF CallKnown
      <4> QED BY <2>1, <3>1, <3>3, <4>2, <4>3 DEF CallKnown, Doing
    <3>4. CASE l # k /\ calls[l].class # c
      <4>1. calls'[l] = calls[l]
        BY <1>10, <3>4 DEF DeleteClass
      <4>2. calls[l].at # "idle" /\ ~calls[l].overtaken =>
              CallEntitled(calls[l], users', classes', teachers')
        BY <2>1, <2>3, <3>1, <3>4 DEF CallKnown, CallEntitled, Owns
      <4> QED BY <2>1, <3>1, <4>1, <4>2 DEF CallKnown
    <3>5. CASE l # k /\ calls[l].class = c /\ Doing(l, "creating")
      <4>1. calls'[l] = calls[l] /\ calls[l].at = "creating"
        BY <1>10, <3>5 DEF DeleteClass, Doing
      <4> QED BY <2>1, <3>1, <4>1 DEF CallKnown, CallEntitled
    <3> QED BY <3>2, <3>3, <3>4, <3>5
  <2>6. calls' \in [Calls -> Call]
    BY <1>10, <2>5 DEF DeleteClass
  <2> QED BY <1>a, <2>1, <2>3, <2>4, <2>5, <2>6 DEF TypeOK
<1>11. ASSUME NEW k \in Calls, Abandon(k) PROVE ClassInv'
  <2>1. CreatorsStay /\ UNCHANGED <<users, classVars>>
    BY <1>11 DEF Abandon, accountVars, classVars, CreatorsStay
  <2> QED BY <1>11, <1>a, <2>1, NoCallKnown, GoingOn
          DEF Abandon, TypeOK, TeachersOfClasses, classVars
<1>12. ASSUME NEW i \in Ids, NEW c \in Classes,
              JoinClass(i, c) \/ LeaveClass(i, c) \/ OpenConversation(i, c)
       PROVE  ClassInv'
  <2>1. UNCHANGED <<users, classes, teachers, calls>>
    BY <1>12 DEF JoinClass, LeaveClass, OpenConversation, accountVars
  <2>2. students' \in [Classes -> SUBSET Ids] /\ chats' \in SUBSET Classes
    BY <1>12 DEF JoinClass, LeaveClass, OpenConversation, TypeOK
  <2> QED BY <1>a, <2>1, <2>2 DEF TypeOK, TeachersOfClasses
<1>13. CASE UNCHANGED vars
  BY <1>a, <1>13 DEF vars, accountVars, classVars, TypeOK, TeachersOfClasses
<1>14. ASSUME NEW k \in Calls, InsertConversation(k) PROVE ClassInv'
  <2>1. calls[k].at = "opening" /\ GoTo(k, "enrolling")
        /\ CallKnown(calls[k], users, classes, teachers)
    BY <1>14 DEF InsertConversation, Doing
  <2>2. PICK q \in Call :
          /\ calls' = [calls EXCEPT ![k] = q]
          /\ q.at = "enrolling" /\ q.caller = calls[k].caller /\ q.role = calls[k].role
          /\ q.class = calls[k].class /\ q.teacher = calls[k].teacher
          /\ q.overtaken = calls[k].overtaken
    BY <2>1, Moved DEF CallSteps
  <2>3. CallKnown(q, users, classes, teachers)
    BY <1>14, <2>1, <2>2, ClassFound
       DEF InsertConversation, CallKnown, CallEntitled
  <2>4. chats' \in SUBSET Classes
    BY <1>14, ClassFound DEF InsertConversation, TypeOK
  <2> QED BY <1>4, <1>14, <2>2, <2>3, <2>4 DEF InsertConversation, accountVars
<1>15. ASSUME NEW k \in Calls, CheckPermission(k) PROVE ClassInv'
  <2>1. calls[k].at = "permitting" /\ GoTo(k, "coding")
        /\ CallKnown(calls[k], users, classes, teachers)
    BY <1>15 DEF CheckPermission, Doing
  <2>2. PICK q \in Call :
          /\ calls' = [calls EXCEPT ![k] = q]
          /\ q.at = "coding" /\ q.caller = calls[k].caller /\ q.role = calls[k].role
          /\ q.class = calls[k].class /\ q.teacher = calls[k].teacher
          /\ q.overtaken = calls[k].overtaken
    BY <2>1, Moved DEF CallSteps
  <2>3. CallKnown(q, users, classes, teachers)
    BY <1>15, <2>1, <2>2, ClassFound
       DEF CheckPermission, CallKnown, CallEntitled, MayManage, RowsOf,
           Teaches, Exists
  <2> QED BY <1>4, <1>15, <2>2, <2>3 DEF CheckPermission, accountVars, classVars, TypeOK
<1>16. ASSUME NEW k \in Calls, FindTeacher(k) PROVE ClassInv'
  <2>1. calls[k].at = "finding" /\ GoTo(k, "vetting")
        /\ CallKnown(calls[k], users, classes, teachers)
    BY <1>16 DEF FindTeacher, Doing
  <2>2. PICK q \in Call :
          /\ calls' = [calls EXCEPT ![k] = q]
          /\ q.at = "vetting" /\ q.caller = calls[k].caller /\ q.role = calls[k].role
          /\ q.class = calls[k].class /\ q.teacher = calls[k].teacher
          /\ q.overtaken = calls[k].overtaken
    BY <2>1, Moved DEF CallSteps
  <2>3. CallKnown(q, users, classes, teachers)
    BY <1>16, <2>1, <2>2, ClassFound
       DEF FindTeacher, CallKnown, CallEntitled, Owns, RowsOf, Teaches, Exists
  <2> QED BY <1>4, <1>16, <2>2, <2>3 DEF FindTeacher, accountVars, classVars, TypeOK
<1>17. ASSUME NEW k \in Calls, VetTeacher(k) PROVE ClassInv'
  <2>1. calls[k].at = "vetting" /\ GoTo(k, "hiring")
        /\ CallKnown(calls[k], users, classes, teachers)
    BY <1>17 DEF VetTeacher, Doing
  <2>2. PICK q \in Call :
          /\ calls' = [calls EXCEPT ![k] = q]
          /\ q.at = "hiring" /\ q.caller = calls[k].caller /\ q.role = calls[k].role
          /\ q.class = calls[k].class /\ q.teacher = calls[k].teacher
          /\ q.overtaken = calls[k].overtaken
    BY <2>1, Moved DEF CallSteps
  <2>3. CallKnown(q, users, classes, teachers)
    BY <1>17, <2>1, <2>2, ClassFound
       DEF VetTeacher, CallKnown, CallEntitled
  <2> QED BY <1>4, <1>17, <2>2, <2>3 DEF VetTeacher, accountVars, classVars, TypeOK
<1>18. ASSUME NEW k \in Calls, ReadClass(k) PROVE ClassInv'
  <2>1. calls[k].at = "disposing" /\ GoTo(k, "dropping")
        /\ CallKnown(calls[k], users, classes, teachers)
    BY <1>18 DEF ReadClass, Doing
  <2>2. PICK q \in Call :
          /\ calls' = [calls EXCEPT ![k] = q]
          /\ q.at = "dropping" /\ q.caller = calls[k].caller /\ q.role = calls[k].role
          /\ q.class = calls[k].class /\ q.teacher = calls[k].teacher
          /\ q.overtaken = calls[k].overtaken
    BY <2>1, Moved DEF CallSteps
  <2>3. CallKnown(q, users, classes, teachers)
    BY <1>18, <2>1, <2>2, ClassFound
       DEF ReadClass, CallKnown, CallEntitled, Owns, Exists
  <2> QED BY <1>4, <1>18, <2>2, <2>3 DEF ReadClass, accountVars, classVars, TypeOK
<1>19. ASSUME NEW k \in Calls, Proceed(k) PROVE ClassInv'
  BY <1>3, <1>5, <1>6, <1>7, <1>8, <1>9, <1>10, <1>11, <1>14, <1>15, <1>16, <1>17, <1>18,
     <1>19
     DEF Proceed
<1> QED BY <1>1, <1>2, <1>12, <1>13, <1>19 DEF Next

LEMMA ClassInvariant == Spec => []ClassInv
BY ClassInit, ClassStep, PTL DEF Spec

\* Type correctness of users, classes, teachers and the handlers' requests.
THEOREM ClassroomType == Spec => []TypeOK
<1>1. ClassInv => TypeOK
  BY DEF ClassInv
<1> QED BY <1>1, ClassInvariant, PTL

-----------------------------------------------------------------------------
(* What the writes may rest on                                             *)

\* Two rows for the same teacher: one of them is new.
LEMMA TwinIsNew ==
  ASSUME ClassInv, NEW x \in Rows, NEW y \in Rows, ~Twins(x, y), Twins(x, y)',
         NEW c, NEW j, NEW z \in NewRows,
         teachers' = [teachers EXCEPT ![z] = [class |-> c, teacher |-> j]]
  PROVE  RowsOf(c, j) # {}
<1>1. teachers'[z] = [class |-> c, teacher |-> j] /\ z \in Rows
      /\ \A w \in Rows \ {z} : teachers'[w] = teachers[w]
  BY DEF NewRows, ClassInv, TypeOK
<1>2. CASE x = z
  BY <1>1, <1>2 DEF Twins, RowsOf
<1>3. CASE y = z
  BY <1>1, <1>3 DEF Twins, RowsOf
<1>4. CASE x # z /\ y # z
  BY <1>1, <1>4 DEF Twins
<1> QED BY <1>2, <1>3, <1>4

\* Where the rows of teachers are written.
LEMMA TeachersWritten ==
  ASSUME ClassInv, [Next]_vars, teachers' # teachers
  PROVE  \E k \in Calls :
           \/ EnrollCreator(k) /\ calls[k].role = "TEACHER"
           \/ HireTeacher(k)
           \/ DismissTeacher(k)
BY DEF Next, vars, classVars, AccountStep, Proceed, InsertClass, InsertConversation,
       EnrollCreator, CheckPermission, SaveCode, FindTeacher, VetTeacher, FindRow, ReadClass,
       DeleteClass, Abandon, Admit, JoinClass, LeaveClass, OpenConversation

LEMMA ClassesWritten ==
  ASSUME ClassInv, [Next]_vars, classes' # classes
  PROVE  \E k \in Calls : InsertClass(k) \/ SaveCode(k) \/ DeleteClass(k)
BY DEF Next, vars, classVars, AccountStep, Proceed, InsertConversation, DismissTeacher,
       EnrollCreator, CheckPermission, HireTeacher, FindTeacher, VetTeacher, FindRow,
       ReadClass, Abandon, Admit, JoinClass, LeaveClass, OpenConversation

LEMMA TwinStep ==
  ASSUME ClassInv, [Next]_vars, NEW x \in Rows, NEW y \in Rows, ~Twins(x, y), Twins(x, y)'
  PROVE  \E k \in Calls :
           /\ calls[k].at \in {"hiring", "enrolling"}
           /\ calls'[k] = NoCall
           /\ calls[k].overtaken
<1>1. teachers' # teachers
  BY DEF Twins
<1>2. ASSUME NEW k \in Calls, EnrollCreator(k), calls[k].role = "TEACHER"
      PROVE  /\ calls[k].at = "enrolling" /\ calls'[k] = NoCall /\ calls[k].overtaken
  <2>1. PICK z \in NewRows : teachers' =
          [teachers EXCEPT ![z] = [class |-> calls[k].class, teacher |-> calls[k].caller]]
    BY <1>2 DEF EnrollCreator
  <2>2. Teaches(calls[k].caller, calls[k].class, teachers)
    <3>1. RowsOf(calls[k].class, calls[k].caller) # {}
      BY <2>1, TwinIsNew
    <3> QED BY <3>1 DEF RowsOf, Teaches
  <2>3. calls[k].at = "enrolling" /\ calls'[k] = NoCall
    BY <1>2 DEF EnrollCreator, Doing, WroteAndGoesTo
  <2> QED BY <2>2, <2>3 DEF ClassInv, CallKnown, CallEntitled
<1>3. ASSUME NEW k \in Calls, HireTeacher(k)
      PROVE  /\ calls[k].at = "hiring" /\ calls'[k] = NoCall /\ calls[k].overtaken
  <2>1. PICK z \in NewRows : teachers' =
          [teachers EXCEPT ![z] = [class |-> calls[k].class, teacher |-> calls[k].teacher]]
    BY <1>3 DEF HireTeacher
  <2>2. Teaches(calls[k].teacher, calls[k].class, teachers)
    <3>1. RowsOf(calls[k].class, calls[k].teacher) # {}
      BY <2>1, TwinIsNew
    <3> QED BY <3>1 DEF RowsOf, Teaches
  <2>3. calls[k].at = "hiring" /\ calls'[k] = NoCall
    BY <1>3 DEF HireTeacher, Doing, WroteAndGoesTo
  <2> QED BY <2>2, <2>3 DEF ClassInv, CallKnown, CallEntitled
<1>4. ASSUME NEW k \in Calls, DismissTeacher(k) PROVE FALSE
  <2>1. \A z \in Rows : teachers'[z] = teachers[z] \/ teachers'[z] = NoOne
    BY <1>4 DEF DismissTeacher, ClassInv, TypeOK
  <2> QED BY <2>1 DEF Twins
<1> QED BY <1>1, <1>2, <1>3, <1>4, TeachersWritten

\* addTeacher and createClass put the same teacher in a class twice only in a handler that
\* another one overtook between the query and the insertion.
THEOREM TwinsNeedOverlap == Spec => TwinTeacherNeedsOverlap
<1>1. ClassInv /\ [Next]_vars =>
        [\A x, y \in Rows :
           ~Twins(x, y) /\ Twins(x, y)' =>
             \E k \in Calls :
               /\ calls[k].at \in {"hiring", "enrolling"}
               /\ calls'[k] = NoCall
               /\ calls[k].overtaken
        ]_vars
  BY TwinStep
<1> QED BY <1>1, ClassInvariant, PTL DEF Spec, TwinTeacherNeedsOverlap

-----------------------------------------------------------------------------
(* How often the same teacher can be in a class                            *)

\* The handlers that are to insert a row for i in c.
Hiring(c, i) ==
  {k \in Calls :
     /\ calls[k].class = c
     /\ \/ calls[k].at \in {"vetting", "hiring"} /\ calls[k].teacher = i
        \/ calls[k].at \in {"opening", "enrolling"} /\ calls[k].caller = i}

\* What a step may do to the rows for i in c and to the handlers about to insert one.
Hired(c, i) ==
  \/ RowsOf(c, i)' = {}
  \/ RowsOf(c, i)' \subseteq RowsOf(c, i) /\ Hiring(c, i)' \subseteq Hiring(c, i)
  \/ \E x : \E k \in Hiring(c, i) : /\ RowsOf(c, i)' \subseteq RowsOf(c, i) \cup {x}
                                     /\ Hiring(c, i)' \subseteq Hiring(c, i) \ {k}

\* Rows R and handlers P of K become R2 and P2: all the rows go, none comes, or one
\* handler turns into one row.
LEMMA Counting ==
  ASSUME NEW K, IsFiniteSet(K),
         NEW R, NEW P \in SUBSET K, NEW R2, NEW P2 \in SUBSET K,
         IsFiniteSet(R),
         Cardinality(R) + Cardinality(P) <= Cardinality(K),
         \/ R2 = {}
         \/ R2 \subseteq R /\ P2 \subseteq P
         \/ \E x : \E k \in P : R2 \subseteq R \cup {x} /\ P2 \subseteq P \ {k}
  PROVE  /\ IsFiniteSet(R2)
         /\ Cardinality(R2) + Cardinality(P2) <= Cardinality(K)
<1>0. IsFiniteSet(P) /\ IsFiniteSet(P2) /\ Cardinality(P2) <= Cardinality(K)
  BY FS_Subset
<1>1. /\ Cardinality(K) \in Nat /\ Cardinality(P) \in Nat /\ Cardinality(P2) \in Nat
      /\ Cardinality(R) \in Nat
  BY <1>0, FS_CardinalityType
<1>2. CASE R2 = {}
  BY <1>0, <1>1, <1>2, FS_EmptySet
<1>3. CASE R2 \subseteq R /\ P2 \subseteq P
  <2>1. IsFiniteSet(R2) /\ Cardinality(R2) <= Cardinality(R) /\ Cardinality(P2) <= Cardinality(P)
    BY <1>0, <1>3, FS_Subset
  <2>2. Cardinality(R2) \in Nat
    BY <2>1, FS_CardinalityType
  <2> QED BY <1>1, <2>1, <2>2
<1>4. ASSUME NEW k \in P, NEW x, R2 \subseteq R \cup {x}, P2 \subseteq P \ {k}
      PROVE  /\ IsFiniteSet(R2)
             /\ Cardinality(R2) + Cardinality(P2) <= Cardinality(K)
  <2>1. IsFiniteSet(R \cup {x}) /\ Cardinality(R \cup {x}) <= Cardinality(R) + 1
    <3>1. /\ IsFiniteSet(R \cup {x})
          /\ Cardinality(R \cup {x}) = IF x \in R THEN Cardinality(R) ELSE Cardinality(R) + 1
      BY FS_AddElement
    <3> QED BY <1>1, <3>1
  <2>2. IsFiniteSet(R2) /\ Cardinality(R2) <= Cardinality(R \cup {x})
    BY <1>4, <2>1, FS_Subset
  <2>3. IsFiniteSet(P \ {k}) /\ Cardinality(P \ {k}) = Cardinality(P) - 1
    BY <1>0, FS_RemoveElement
  <2>4. Cardinality(P2) <= Cardinality(P \ {k})
    BY <1>4, <2>3, FS_Subset
  <2>5. Cardinality(R2) \in Nat /\ Cardinality(R \cup {x}) \in Nat
    BY <2>1, <2>2, FS_CardinalityType
  <2> QED BY <1>1, <2>1, <2>2, <2>3, <2>4, <2>5
<1> QED BY <1>2, <1>3, <1>4

\* A handler ends with inserting a row.
LEMMA InsertionHired ==
  ASSUME ClassInv, NEW k \in Calls, EnrollCreator(k) \/ HireTeacher(k),
         NEW c \in Classes, NEW i \in Ids
  PROVE  Hired(c, i)
<1> DEFINE j == IF calls[k].at = "hiring" THEN calls[k].teacher ELSE calls[k].caller
<1>1. /\ calls[k].at \in {"hiring", "enrolling"}
      /\ \A l \in Calls : calls'[l] \in {NoCall, calls[l], [calls[l] EXCEPT !.overtaken = TRUE]}
      /\ calls'[k] = NoCall
  BY DEF EnrollCreator, HireTeacher, Doing, WroteAndGoesTo
<1>2. Hiring(c, i)' \subseteq Hiring(c, i) \ {k}
  <2> SUFFICES ASSUME NEW l \in Hiring(c, i)' PROVE l \in Hiring(c, i) \ {k}
    OBVIOUS
  <2>1. l \in Calls /\ calls'[l] # NoCall /\ calls[l] \in Call
    BY DEF Hiring, NoCall, ClassInv, TypeOK
  <2>2. /\ calls'[l].at = calls[l].at /\ calls'[l].class = calls[l].class
        /\ calls'[l].teacher = calls[l].teacher /\ calls'[l].caller = calls[l].caller
    BY <1>1, <2>1 DEF Call
  <2> QED BY <1>1, <2>1, <2>2 DEF Hiring
<1>3. CASE teachers' = teachers
  BY <1>2, <1>3 DEF Hired, RowsOf
<1>4. ASSUME NEW x \in Rows,
             teachers' = [teachers EXCEPT ![x] = [class |-> calls[k].class, teacher |-> j]]
      PROVE  Hired(c, i)
  <2>1. RowsOf(c, i)' \subseteq RowsOf(c, i) \cup {x}
    BY <1>4 DEF RowsOf, ClassInv, TypeOK
  <2>2. CASE calls[k].class = c /\ j = i
    BY <1>1, <1>2, <2>1, <2>2 DEF Hired, Hiring
  <2>3. CASE ~(calls[k].class = c /\ j = i)
    <3>1. teachers'[x] # [class |-> c, teacher |-> i]
      BY <1>4, <2>3 DEF ClassInv, TypeOK
    <3>2. RowsOf(c, i)' \subseteq RowsOf(c, i)
      BY <2>1, <3>1 DEF RowsOf
    <3> QED BY <1>2, <3>2 DEF Hired
  <2> QED BY <2>2, <2>3
<1> QED BY <1>1, <1>3, <1>4 DEF EnrollCreator, HireTeacher, Doing, NewRows

\* Who starts to insert a row has seen none: the class is new, or was looked through.
LEMMA SearchHired ==
  ASSUME ClassInv, NEW k \in Calls, InsertClass(k) \/ FindTeacher(k),
         NEW c \in Classes, NEW i \in Ids
  PROVE  Hired(c, i)
<1>1. RowsOf(c, i)' = RowsOf(c, i)
  BY DEF InsertClass, FindTeacher, RowsOf, classVars
<1>2. CASE RowsOf(c, i) = {}
  BY <1>1, <1>2 DEF Hired
<1>3. CASE RowsOf(c, i) # {}
  <2>1. PICK x \in Rows : teachers[x] = [class |-> c, teacher |-> i]
    BY <1>3 DEF RowsOf
  <2>2. classes[c] # NoOne
    <3>1. teachers[x] \in Teacher /\ teachers[x].class = c
      BY <2>1 DEF Teacher
    <3> QED BY <3>1, NullFacts DEF ClassInv, TeachersOfClasses
  <2>3. ~InsertClass(k) \/ calls[k].class # c
    BY <2>2 DEF InsertClass
  <2>4. ~FindTeacher(k) \/ calls[k].class # c \/ calls[k].teacher # i
    BY <1>3 DEF FindTeacher
  <2>5. /\ \A l \in Calls \ {k} : calls'[l] = calls[l]
        /\ calls'[k].class = calls[k].class /\ calls'[k].teacher = calls[k].teacher
        /\ InsertClass(k) => calls'[k].at = "opening"
        /\ FindTeacher(k) => calls'[k].at = "vetting"
    BY DEF InsertClass, FindTeacher, GoTo, ClassInv, TypeOK, Call
  <2>6. k \notin Hiring(c, i)'
    BY <2>3, <2>4, <2>5 DEF Hiring
  <2>7. Hiring(c, i)' \subseteq Hiring(c, i)
    BY <2>5, <2>6 DEF Hiring
  <2> QED BY <1>1, <2>7 DEF Hired
<1> QED BY <1>2, <1>3

\* A handler that is to insert a row goes on to do so, another ends or is overtaken.
LEMMA OthersHired ==
  ASSUME ClassInv, NEW c \in Classes, NEW i \in Ids,
         RowsOf(c, i)' \subseteq RowsOf(c, i),
         \A l \in Calls :
           \/ calls'[l] = calls[l]
           \/ calls'[l].at \notin {"opening", "enrolling", "vetting", "hiring"}
           \/ calls'[l].class = NoOne
           \/ /\ calls'[l].class = calls[l].class /\ calls'[l].teacher = calls[l].teacher
              /\ calls'[l].caller = calls[l].caller
              /\ \/ calls'[l].at = calls[l].at
                 \/ calls[l].at = "opening" /\ calls'[l].at = "enrolling"
                 \/ calls[l].at = "vetting" /\ calls'[l].at = "hiring"
  PROVE  Hired(c, i)
<1>1. Hiring(c, i)' \subseteq Hiring(c, i)
  BY NullFacts DEF Hiring
<1> QED BY <1>1 DEF Hired

LEMMA StepHired ==
  ASSUME ClassInv, [Next]_vars, NEW c \in Classes, NEW i \in Ids
  PROVE  Hired(c, i)
<1>0. /\ calls \in [Calls -> Call]
      /\ NoCall.at \notin {"opening", "enrolling", "vetting", "hiring"}
  BY DEF ClassInv, TypeOK, NoCall
<1>1. ASSUME UNCHANGED teachers PROVE RowsOf(c, i)' = RowsOf(c, i)
  BY <1>1 DEF RowsOf
<1>2. CASE AccountStep
  <2>1. \A l \in Calls : calls'[l] \in {calls[l], [calls[l] EXCEPT !.overtaken = TRUE]}
    BY <1>2 DEF AccountStep
  <2> QED BY <1>0, <1>1, <1>2, <2>1, OthersHired DEF AccountStep, classVars, Call
<1>3. ASSUME NEW k \in Calls,
             \/ InsertConversation(k) \/ CheckPermission(k) \/ VetTeacher(k) \/ FindRow(k)
             \/ ReadClass(k) \/ Abandon(k)
      PROVE  Hired(c, i)
  <2>1. UNCHANGED teachers
    BY <1>3 DEF InsertConversation, CheckPermission, VetTeacher, FindRow, ReadClass, Abandon,
                classVars
  <2>2. \A l \in Calls \ {k} : calls'[l] = calls[l]
    BY <1>0, <1>3 DEF InsertConversation, CheckPermission, VetTeacher, FindRow, ReadClass, Abandon,
                      GoTo
  <2>3. CASE InsertConversation(k) \/ VetTeacher(k)
    <3>1. /\ calls'[k].class = calls[k].class /\ calls'[k].teacher = calls[k].teacher
          /\ calls'[k].caller = calls[k].caller
          /\ \/ calls[k].at = "opening" /\ calls'[k].at = "enrolling"
             \/ calls[k].at = "vetting" /\ calls'[k].at = "hiring"
      BY <1>0, <2>3 DEF InsertConversation, VetTeacher, GoTo, Doing, Call
    <3> QED BY <1>1, <2>1, <2>2, <3>1, OthersHired
  <2>4. CASE CheckPermission(k) \/ FindRow(k) \/ ReadClass(k) \/ Abandon(k)
    <3>1. calls'[k].at \notin {"opening", "enrolling", "vetting", "hiring"}
      BY <1>0, <2>4 DEF CheckPermission, FindRow, ReadClass, Abandon, GoTo, Call
    <3> QED BY <1>1, <2>1, <2>2, <3>1, OthersHired
  <2> QED BY <1>3, <2>3, <2>4
<1>4. ASSUME NEW k \in Calls, SaveCode(k) \/ DismissTeacher(k)
      PROVE  Hired(c, i)
  <2>1. RowsOf(c, i)' \subseteq RowsOf(c, i)
    <3>1. CASE SaveCode(k)
      BY <1>1, <3>1 DEF SaveCode
    <3>2. CASE DismissTeacher(k)
      <4>1. \A x \in Rows : teachers'[x] = teachers[x] \/ teachers'[x] = NoOne
        BY <3>2 DEF DismissTeacher, ClassInv, TypeOK
      <4>2. [class |-> c, teacher |-> i] # NoOne
        BY NullFacts DEF Teacher
      <4> QED BY <4>1, <4>2 DEF RowsOf
    <3> QED BY <1>4, <3>1, <3>2
  <2>2. \A l \in Calls : calls'[l] \in {NoCall, calls[l], [calls[l] EXCEPT !.overtaken = TRUE]}
    BY <1>4 DEF SaveCode, DismissTeacher, WroteAndGoesTo
  <2> QED BY <1>0, <2>1, <2>2, OthersHired DEF Call
<1>5. ASSUME NEW k \in Calls, DeleteClass(k)
      PROVE  Hired(c, i)
  <2>1. \A l \in Calls : calls'[l] \in
          {NoCall, calls[l], [calls[l] EXCEPT !.class = NoOne, !.overtaken = TRUE]}
    BY <1>5 DEF DeleteClass
  <2>2. \A l \in Calls : [calls[l] EXCEPT !.class = NoOne, !.overtaken = TRUE].class = NoOne
    BY <1>0 DEF Call
  <2>3. \A l \in Calls : \/ calls'[l] = calls[l] \/ calls'[l].class = NoOne
                          \/ calls'[l].at \notin {"opening", "enrolling", "vetting", "hiring"}
    BY <1>0, <2>1, <2>2
  <2>4. RowsOf(c, i)' \subseteq RowsOf(c, i)
    BY <1>1, <1>5 DEF DeleteClass
  <2> QED BY <2>3, <2>4, OthersHired
<1>6. ASSUME NEW k \in Calls, NEW j, NEW d, NEW t,
             NEW step \in {"creating", "permitting", "disposing", "finding", "looking"},
             Admit(k, j, step, d, t)
      PROVE  Hired(c, i)
  <2>1. /\ \A l \in Calls \ {k} : calls'[l] = calls[l]
        /\ calls'[k].at = step
    BY <1>0, <1>6 DEF Admit, NoCall
  <2> QED BY <1>1, <1>6, <2>1, OthersHired DEF Admit, classVars
<1>7. ASSUME UNCHANGED <<teachers, calls>> PROVE Hired(c, i)
  BY <1>1, <1>7, OthersHired
<1>8. ASSUME NEW j, NEW d, JoinClass(j, d) \/ LeaveClass(j, d) \/ OpenConversation(j, d)
      PROVE  Hired(c, i)
  BY <1>7, <1>8 DEF JoinClass, LeaveClass, OpenConversation
<1>9. CASE UNCHANGED vars
  BY <1>7, <1>9 DEF vars, classVars
<1>10. ASSUME NEW k \in Calls, Proceed(k) PROVE Hired(c, i)
  BY <1>3, <1>4, <1>5, <1>10, InsertionHired, SearchHired DEF Proceed
<1> QED BY <1>2, <1>6, <1>8, <1>9, <1>10 DEF Next

\* Removals hit one row only: a teacher who is in a class more than once stays in it.
\* But addTeacher and createClass never make more rows of a teacher in a class than
\* handlers can overlap, however often teachers are added and removed; and so, one
\* handler after the other, no more than one.
THEOREM TwinsStayBounded ==
  ASSUME IsFiniteSet(Calls)
  PROVE  Spec => [](\A c \in Classes, i \in Ids :
                      /\ IsFiniteSet(RowsOf(c, i))
                      /\ Cardinality(RowsOf(c, i)) <= Cardinality(Calls))
<1> DEFINE CountedFor(c, i) ==
             /\ IsFiniteSet(RowsOf(c, i))
             /\ Cardinality(RowsOf(c, i)) + Cardinality(Hiring(c, i)) <= Cardinality(Calls)
           CountInv == \A c \in Classes, i \in Ids : CountedFor(c, i)
<1>1. Init => CountInv
  <2> SUFFICES ASSUME Init, NEW c \in Classes, NEW i \in Ids PROVE CountedFor(c, i)
    OBVIOUS
  <2>1. [class |-> c, teacher |-> i] # NoOne
    BY NullFacts DEF Teacher
  <2>2. RowsOf(c, i) = {} /\ Hiring(c, i) = {}
    BY <2>1 DEF Init, RowsOf, Hiring, NoCall
  <2>3. Cardinality(Calls) \in Nat
    BY FS_CardinalityType
  <2> QED BY <2>2, <2>3, FS_EmptySet
<1>2. ClassInv /\ CountInv /\ [Next]_vars => CountInv'
  <2> SUFFICES ASSUME ClassInv, CountInv, [Next]_vars, NEW c \in Classes, NEW i \in Ids
               PROVE  CountedFor(c, i)'
    OBVIOUS
  <2>1. Hiring(c, i) \in SUBSET Calls /\ Hiring(c, i)' \in SUBSET Calls
    BY DEF Hiring
  <2>2. CountedFor(c, i) /\ Hired(c, i)
    BY StepHired
  <2>3. /\ IsFiniteSet(RowsOf(c, i)')
        /\ Cardinality(RowsOf(c, i)') + Cardinality(Hiring(c, i)') <= Cardinality(Calls)
    BY <2>1, <2>2, Counting DEF Hired
  <2> QED BY <2>3
<1>3. CountInv => \A c \in Classes, i \in Ids :
                    /\ IsFiniteSet(RowsOf(c, i))
                    /\ Cardinality(RowsOf(c, i)) <= Cardinality(Calls)
  <2> SUFFICES ASSUME CountInv, NEW c \in Classes, NEW i \in Ids
               PROVE  /\ IsFiniteSet(RowsOf(c, i))
                      /\ Cardinality(RowsOf(c, i)) <= Cardinality(Calls)
    OBVIOUS
  <2>1. Hiring(c, i) \in SUBSET Calls
    BY DEF Hiring
  <2>2. /\ Cardinality(RowsOf(c, i)) \in Nat /\ Cardinality(Hiring(c, i)) \in Nat
        /\ Cardinality(Calls) \in Nat
    BY <2>1, FS_Subset, FS_CardinalityType
  <2> QED BY <2>2
<1> QED BY <1>1, <1>2, <1>3, ClassInvariant, PTL DEF Spec

-----------------------------------------------------------------------------
(* Who may write to a class                                                *)

LEMMA EntitledHasRight ==
  ASSUME ClassInv, NEW k \in Calls, calls[k].at \in Writing
  PROVE  HasRight(calls[k]) \/ calls[k].overtaken
<1>1. CallKnown(calls[k], users, classes, teachers) /\ calls[k].at # "idle"
  BY DEF ClassInv, Writing
<1> QED BY <1>1, NullFacts DEF CallKnown, CallEntitled, Owns, HasRight, MayManage, Exists, RowsOf,
                    Teaches, Writing

LEMMA ClassWriteStep ==
  ASSUME ClassInv, [Next]_vars, <<classes, teachers>>' # <<classes, teachers>>
  PROVE  \E k \in Calls :
           /\ calls[k].at \in Writing
           /\ calls'[k].at # calls[k].at
           /\ HasRight(calls[k]) \/ calls[k].overtaken
<1>1. PICK k \in Calls :
        \/ InsertClass(k) \/ SaveCode(k) \/ DeleteClass(k)
        \/ EnrollCreator(k) \/ HireTeacher(k) \/ DismissTeacher(k)
  BY TeachersWritten, ClassesWritten
<1>2. calls[k] \in Call
  BY DEF ClassInv, TypeOK
<1>3. calls[k].at \in Writing
  BY <1>1 DEF InsertClass, SaveCode, DeleteClass, EnrollCreator, HireTeacher,
              DismissTeacher, Doing, Writing
<1>4. calls'[k].at # calls[k].at
  <2>1. CASE InsertClass(k)
    BY <1>2, <2>1 DEF InsertClass, GoTo, Doing, Call, ClassInv, TypeOK
  <2>2. CASE \/ SaveCode(k) \/ DeleteClass(k) \/ EnrollCreator(k) \/ HireTeacher(k)
             \/ DismissTeacher(k)
    <3>1. calls'[k] = NoCall
      BY <2>2 DEF SaveCode, DeleteClass, EnrollCreator, HireTeacher, DismissTeacher,
                  WroteAndGoesTo
    <3> QED BY <1>3, <3>1 DEF NoCall, Writing
  <2> QED BY <1>1, <2>1, <2>2
<1> QED BY <1>3, <1>4, EntitledHasRight

\* createClass, regenerateInviteCode, addTeacher, removeTeacher and deleteClass write by
\* the right they have asked for, unless overtaken since.
THEOREM ClassWritesNeedRight == Spec => ClassWriteNeedsRight
<1>1. ClassInv /\ [Next]_vars =>
        [<<classes, teachers>>' # <<classes, teachers>> =>
           \E k \in Calls :
             /\ calls[k].at \in Writing
             /\ calls'[k].at # calls[k].at
             /\ HasRight(calls[k]) \/ calls[k].overtaken
        ]_vars
  BY ClassWriteStep
<1> QED BY <1>1, ClassInvariant, PTL DEF Spec, ClassWriteNeedsRight
=============================================================================

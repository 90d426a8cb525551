------------------------------- MODULE Accounts -------------------------------
(***************************************************************************)
(* UserService and the guards: who has an account, its role, and who may   *)
(* change that.                                                            *)
(*                                                                         *)
(* An account is two things: a login, which Supabase keeps, and a row of   *)
(* the table User with the login's id.  Registering makes the one, then    *)
(* the other.  AuthGuard reads the row of the caller before every handler, *)
(* and the handler goes by the role it read.  No row is ever deleted: a    *)
(* deleted account is an inactive one without its email.                   *)
(*                                                                         *)
(* A handler is a slot of requests, one query after the other.  POST /user,*)
(* which inserts the row of the caller that the guard has just found, can  *)
(* only fail, and is not an action; names and avatars are left out.        *)
(***************************************************************************)
EXTENDS Naturals

CONSTANTS
  Ids,        \* ids of users: how many there may be
  Emails,
  Requests,   \* slots for running handlers: how many may overlap
  NoOne       \* null

Roles == {"ADMIN", "TEACHER", "STUDENT"}

Null(S) == S \cup {NoOne}

\* email: none once the account is deleted ("...@bannedAccount.com").
User == [role : Roles, active : BOOLEAN, email : Null(Emails)]

ASSUME AccountsAssumption == NoOne \notin Ids \cup Emails \cup Roles \cup User

VARIABLES
  users,      \* the User rows, by id
  logins,     \* the id of the login with each email, at Supabase
  confirmed,  \* the emails whose owner has confirmed them
  spoilt,     \* emails of accounts that were deleted, or registered in part only;
              \* the code has no such thing, the properties do
  requests    \* running handlers

accountVars == <<users, logins, confirmed, spoilt, requests>>

\* Where a handler is:
\*   signing    createUserWithCredentials, at signUp
\*   inserting  ... or the seed script, at the row
\*   updating, banning, unbanning, deleting   at the writing of the target's row
Steps == {"idle", "signing", "inserting", "updating", "banning", "unbanning", "deleting"}

Idle == [at |-> "idle", caller |-> NoOne, target |-> NoOne, email |-> NoOne,
         role |-> NoOne, overtaken |-> FALSE]

\* role: of the row to insert.  overtaken: the row of the caller has been written
\* since the guard read it; the code has no such thing.
Request == [at : Steps, caller : Null(Ids), target : Null(Ids), email : Null(Emails),
            role : Null(Roles), overtaken : BOOLEAN]

AccountsTypeOK ==
  /\ users \in [Ids -> Null(User)]
  /\ logins \in [Emails -> Null(Ids)]
  /\ confirmed \in SUBSET Emails
  /\ spoilt \in SUBSET Emails
  /\ requests \in [Requests -> Request]

AccountsInit ==
  /\ users = [i \in Ids |-> NoOne]
  /\ logins = [m \in Emails |-> NoOne]
  /\ confirmed = {}
  /\ spoilt = {}
  /\ requests = [r \in Requests |-> Idle]

-----------------------------------------------------------------------------
(* Rows and handlers                                                       *)

At(r, step) == requests[r].at = step

Start(r, request) ==
  /\ requests[r] = Idle
  /\ requests' = [requests EXCEPT ![r] = request]

\* The handler ends with the writing of row i.
FinishWith(r, i) ==
  requests' = [q \in Requests |->
    IF q = r THEN Idle
    ELSE IF requests[q].caller = i THEN [requests[q] EXCEPT !.overtaken = TRUE]
    ELSE requests[q]]

HasLogin(i) == \E m \in Emails : logins[m] = i

EmailTaken(m) == \E i \in Ids : users[i] # NoOne /\ users[i].email = m

\* An id nobody has been given yet.
NewIds ==
  {i \in Ids : /\ users[i] = NoOne /\ ~HasLogin(i)
               /\ \A r \in Requests : requests[r].target # i}

\* AuthGuard and RolesGuard: a token of the caller's, an active row, a role.
Admitted(i, roles) ==
  /\ HasLogin(i)
  /\ users[i] # NoOne
  /\ users[i].active
  /\ users[i].role \in roles

-----------------------------------------------------------------------------
(* Mutated forms of operations, each with the slip its name says.           *)

BanUser_Itself(r, i, j) ==
  /\ Admitted(i, {"ADMIN"})
  /\ users[j] # NoOne
  /\ Start(r, [Idle EXCEPT !.at = "banning", !.caller = i, !.target = j])
  /\ UNCHANGED <<users, logins, confirmed, spoilt>>

InsertUser_NewId(r) ==
  /\ At(r, "inserting")
  /\ ~EmailTaken(requests[r].email)
  /\ \E i \in NewIds :
       /\ users' = [users EXCEPT ![i] =
            [role |-> requests[r].role, active |-> TRUE, email |-> requests[r].email]]
       /\ FinishWith(r, i)
  /\ UNCHANGED <<logins, confirmed, spoilt>>

-----------------------------------------------------------------------------
(* Registering                                                             *)

\* createUserWithCredentials, public: the caller may ask for any role.
Register(r, m, role) ==
  /\ ~EmailTaken(m)
  /\ Start(r, [Idle EXCEPT !.at = "signing", !.email = m, !.role = role])
  /\ UNCHANGED <<users, logins, confirmed, spoilt>>

\* Supabase: a new login; for an email not confirmed yet, the same again; for one that
\* is, an id made up for the answer, so as not to tell (or no user: Refuse).
SignUp(r) ==
  LET m == requests[r].email
  IN /\ At(r, "signing")
     /\ \E i \in Ids :
          /\ \/ logins[m] = NoOne /\ i \in NewIds /\ logins' = [logins EXCEPT ![m] = i]
             \/ logins[m] = i /\ m \notin confirmed /\ UNCHANGED logins
             \/ m \in confirmed /\ i \in NewIds /\ UNCHANGED logins
          /\ requests' = [requests EXCEPT ![r].at = "inserting", ![r].target = i]
     /\ UNCHANGED <<users, confirmed, spoilt>>

\* The id and the email are unique.
InsertUser(r) ==
  LET i == requests[r].target
      m == requests[r].email
  IN /\ At(r, "inserting")
     /\ users[i] = NoOne /\ ~EmailTaken(m)
     /\ users' = [users EXCEPT ![i] =
          [role |-> requests[r].role, active |-> TRUE, email |-> m]]
     /\ FinishWith(r, i)
     /\ UNCHANGED <<logins, confirmed, spoilt>>

\* The seed script: a confirmed login, then createUser.
SeedLogin(r, m, role) ==
  /\ logins[m] = NoOne
  /\ role # "ADMIN"
  /\ \E i \in NewIds :
       /\ logins' = [logins EXCEPT ![m] = i]
       /\ Start(r, [Idle EXCEPT !.at = "inserting", !.target = i, !.email = m,
                                !.role = role])
  /\ confirmed' = confirmed \cup {m}
  /\ UNCHANGED <<users, spoilt>>

\* The owner of the email follows the link.
Confirm(m) ==
  /\ logins[m] # NoOne /\ m \notin confirmed
  /\ confirmed' = confirmed \cup {m}
  /\ UNCHANGED <<users, logins, spoilt, requests>>

\* A check that does not hold, a query that fails; of a registration it may leave the
\* login without a row.
Refuse(r) ==
  /\ requests[r] # Idle
  /\ requests' = [requests EXCEPT ![r] = Idle]
  /\ spoilt' = IF At(r, "inserting") THEN spoilt \cup {requests[r].email} ELSE spoilt
  /\ UNCHANGED <<users, logins, confirmed>>

-----------------------------------------------------------------------------
(* The handlers that change a row: admitted by the guards, they find the    *)
(* row, which does not go away, and write it                               *)

\* updateUser: what is not an admin's to change is left out.
UpdateUser(r, i, j) ==
  /\ Admitted(i, {"ADMIN"})
  /\ users[j] # NoOne
  /\ Start(r, [Idle EXCEPT !.at = "updating", !.caller = i, !.target = j])
  /\ UNCHANGED <<users, logins, confirmed, spoilt>>

BanUser(r, i, j) ==
  /\ Admitted(i, {"ADMIN"})
  /\ users[j] # NoOne
  /\ i # j
  /\ Start(r, [Idle EXCEPT !.at = "banning", !.caller = i, !.target = j])
  /\ UNCHANGED <<users, logins, confirmed, spoilt>>

UnbanUser(r, i, j) ==
  /\ Admitted(i, {"ADMIN"})
  /\ users[j] # NoOne
  /\ i # j
  /\ Start(r, [Idle EXCEPT !.at = "unbanning", !.caller = i, !.target = j])
  /\ UNCHANGED <<users, logins, confirmed, spoilt>>

\* By an admin, for somebody else; or DELETE /user/me.
DeleteAccount(r, i, j) ==
  /\ Admitted(i, IF i = j THEN Roles ELSE {"ADMIN"})
  /\ users[j] # NoOne
  /\ Start(r, [Idle EXCEPT !.at = "deleting", !.caller = i, !.target = j])
  /\ UNCHANGED <<users, logins, confirmed, spoilt>>

SaveUpdate(r) ==
  LET j == requests[r].target
  IN /\ At(r, "updating")
     /\ \E role \in Roles, active \in BOOLEAN :
          users' = [users EXCEPT ![j].role = role, ![j].active = active]
     /\ FinishWith(r, j)
     /\ UNCHANGED <<logins, confirmed, spoilt>>

SaveActive(r) ==
  LET j == requests[r].target
  IN /\ requests[r].at \in {"banning", "unbanning"}
     /\ users' = [users EXCEPT ![j].active = At(r, "unbanning")]
     /\ FinishWith(r, j)
     /\ UNCHANGED <<logins, confirmed, spoilt>>

\* The role stays, and so do the login and all that refers to the row; an admin may
\* make it active again.
SaveDeleted(r) ==
  LET j == requests[r].target
  IN /\ At(r, "deleting")
     /\ users' = [users EXCEPT ![j].active = FALSE, ![j].email = NoOne]
     /\ spoilt' = spoilt \cup ({users[j].email} \cap Emails)
     /\ FinishWith(r, j)
     /\ UNCHANGED <<logins, confirmed>>

-----------------------------------------------------------------------------
AccountsNext ==
  \/ \E r \in Requests :
       \/ SignUp(r) \/ InsertUser(r) \/ Refuse(r)
       \/ SaveUpdate(r) \/ SaveActive(r) \/ SaveDeleted(r)
       \/ \E m \in Emails, role \in Roles : Register(r, m, role) \/ SeedLogin(r, m, role)
       \/ \E i, j \in Ids :
            UpdateUser(r, i, j) \/ BanUser(r, i, j) \/ UnbanUser(r, i, j)
              \/ DeleteAccount(r, i, j)
  \/ \E m \in Emails : Confirm(m)

AccountsSpec == AccountsInit /\ [][AccountsNext]_accountVars

-----------------------------------------------------------------------------
(* Safety                                                                  *)

\* Who can still ban, unban and appoint.
Admins == {i \in Ids : users[i] # NoOne /\ users[i].role = "ADMIN" /\ users[i].active}

\* No admin can ban or delete itself through the handlers for others, so that one is
\* left, unless the last one resigns (by updateUser, or DELETE /user/me), or two are at
\* it at the same time: each was an admin when the guard looked.
AdminsGoneNeedsOverlap ==
  [][Admins # {} /\ Admins' = {} =>
       \E r \in Requests :
         /\ requests[r] # Idle /\ requests'[r] = Idle
         /\ \/ requests[r].overtaken
            \/ /\ requests[r].at \in {"updating", "deleting"}
               /\ requests[r].caller = requests[r].target
    ]_accountVars

\* Somebody can use each account: a row has the id of a login, unless its email had an
\* account that was deleted, or half of one, before.
AccountHasLogin ==
  \A i \in Ids : users[i] # NoOne =>
    \/ HasLogin(i)
    \/ users[i].email \in Null(spoilt)
    \/ \E r \in Requests : At(r, "inserting") /\ requests[r].email = users[i].email
=============================================================================

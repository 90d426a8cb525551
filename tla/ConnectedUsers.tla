--------------------------- MODULE ConnectedUsers ---------------------------
(***************************************************************************)
(* ConnectedUsersManager: the two in-memory maps that say who is in which  *)
(* live session.  The class has no lock and no check of its own, so its    *)
(* methods are given as actions on the two maps for the gateway's handlers *)
(* to use.                                                                 *)
(*                                                                         *)
(* A ConnectedUser record is cut down to its user and session; the socket  *)
(* is the key it is stored under in one map and the value in the other.    *)
(***************************************************************************)

CONSTANTS
  Users,      \* user ids (the "sub" of a token)
  Sessions,   \* class sessions that can be joined
  Sockets,    \* Socket.IO client ids: a reconnection gets a new one
  NoOne       \* "null", or a missing key of a map

ASSUME NoOneAssumption ==
  NoOne \notin Users \cup Sessions \cup Sockets \cup [user : Users, session : Sessions]

VARIABLES
  sessionUsers,   \* sessionId -> userId -> the socket of the stored record
  socketToUser    \* socketId -> the stored record

rosterVars == <<sessionUsers, socketToUser>>

ConnectedUser == [user : Users, session : Sessions]

RosterTypeOK ==
  /\ sessionUsers \in [Sessions -> [Users -> Sockets \cup {NoOne}]]
  /\ socketToUser \in [Sockets -> ConnectedUser \cup {NoOne}]

RosterInit ==
  /\ sessionUsers = [s \in Sessions |-> [u \in Users |-> NoOne]]
  /\ socketToUser = [k \in Sockets |-> NoOne]

\* Mutated forms of the two methods: the wrong id is stored, and the session's
\* map is not cleaned.
AddUser_StoresUser(k, u, s) ==
  /\ sessionUsers' = [sessionUsers EXCEPT ![s][u] = u]
  /\ socketToUser' = [socketToUser EXCEPT ![k] = [user |-> u, session |-> s]]

RemoveUserBySocket_KeepsEntry(k) ==
  /\ socketToUser' = [socketToUser EXCEPT ![k] = NoOne]
  /\ UNCHANGED sessionUsers

\* Overwrites both entries: neither an older socket of the same user nor the
\* entry of the same socket in another session is looked for.
AddUser(k, u, s) ==
  /\ sessionUsers' = [sessionUsers EXCEPT ![s][u] = k]
  /\ socketToUser' = [socketToUser EXCEPT ![k] = [user |-> u, session |-> s]]

\* Deletes the session's entry of the record's user, whichever socket that
\* entry holds by now.
RemoveUserBySocket(k) ==
  IF socketToUser[k] = NoOne
  THEN UNCHANGED rosterVars
  ELSE /\ sessionUsers' = [sessionUsers EXCEPT
                             ![socketToUser[k].session][socketToUser[k].user] = NoOne]
       /\ socketToUser' = [socketToUser EXCEPT ![k] = NoOne]

\* getUser(u, s) finds a record.
IsConnected(u, s) == sessionUsers[s][u] # NoOne

\* getUserBySocket(getUserSocketId(u, s)) finds a record: the test the stage
\* handlers make before they take the screen or the canvas from its owner.
IsReachable(u, s) ==
  \E k \in Sockets : sessionUsers[s][u] = k /\ socketToUser[k] # NoOne
=============================================================================

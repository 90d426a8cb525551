-------------------------- MODULE RoomAccessProofs --------------------------
(***************************************************************************)
(* Theorems about RoomAccess: what MeetGatewayProofs shows of the room     *)
(* holds while access comes and goes, and nobody enters without it.        *)
(*                                                                         *)
(* A handler of join-room that was let in stands at "joining" for somebody *)
(* who has access, until that is lost and the handler overtaken.           *)
(***************************************************************************)
EXTENDS RoomAccess, MeetGatewayProofs

AccessInv ==
  /\ AccessTypeOK
  /\ \A r \in validated : requests[r].at = "joining"
  /\ \A r \in validated \ overtaken : Guest(r) \in access

-----------------------------------------------------------------------------
(* RoomAccess implements MeetGateway                                       *)

\* Every step of the room with changing access is one of MeetGateway, where whoever may
\* ever have access has it, or leaves the room as it is.
THEOREM RoomAccessImplementsMeetGateway == AccessSpec => Spec
<1>1. AccessInit => Init
  BY DEF AccessInit
<1>2. [AccessNext]_accessVars => [Next]_vars
  BY DEF AccessNext, accessVars, RoomStep, ValidateAccess, LoseAccess, GainAccess
<1> QED BY <1>1, <1>2, PTL DEF AccessSpec, Spec

\* The timer registered for a user is a live one of that user and session, while access
\* comes and goes.
THEOREM RegistryStaysLive == AccessSpec => []RegistryLive
BY RoomAccessImplementsMeetGateway, RegistryIsLive, PTL

\* The canvas is the lock of CanvasLock, while access comes and goes.
THEOREM CanvasStaysLocked == AccessSpec => CanvasIsLock
BY RoomAccessImplementsMeetGateway, CanvasLocked, PTL

-----------------------------------------------------------------------------
(* Entering                                                                *)

\* A suspended join-room keeps its user and session as long as it is one.
LEMMA JoiningKept ==
  ASSUME BasicInv, [Next]_vars, NEW r \in Requests,
         requests[r].at = "joining", requests'[r].at = "joining"
  PROVE  requests'[r] = requests[r]
<1>1. ASSUME NEW q \in Requests, Resume(q) PROVE requests'[r] = requests[r]
  <2>1. CASE q = r
    <3>1. JoinTrack(r) \/ JoinEnd(r)
      BY <1>1, <2>1 DEF Resume, JoinRecord, JoinArm, ResumeScreenShare,
          OpenCanvasAuthorized, ResumeOpenCanvas, OpenCanvasRefused, ResumeCloseCanvas,
          CloseCanvasFail, KickStopShare, KickRemove, KickFail
    <3> QED BY <3>1 DEF JoinTrack, JoinEnd, GoTo, Finish, Idle, BasicInv, TypeOK, Request
  <2>2. CASE q # r
    BY <1>1, <2>2 DEF Resume, JoinTrack, JoinRecord, JoinArm, JoinEnd, ResumeScreenShare,
        OpenCanvasAuthorized, ResumeOpenCanvas, OpenCanvasRefused, ResumeCloseCanvas,
        CloseCanvasFail, KickStopShare, KickRemove, KickFail, GoTo, Finish, BasicInv, TypeOK
  <2> QED BY <2>1, <2>2
<1>2. ASSUME NEW k \in Sockets, Receive(k) \/ Disconnect(k) PROVE requests'[r] = requests[r]
  <2>1. \/ UNCHANGED requests
        \/ \E q \in Requests : /\ requests[q] = Idle
                               /\ \E x : requests' = [requests EXCEPT ![q] = x]
    BY <1>2 DEF Receive, LeaveRoom, StopScreenShare, JoinRoom, StartScreenShare, OpenCanvas,
        CloseCanvas, KickParticipant, Disconnect, Start
  <2>2. requests[r] # Idle
    BY DEF Idle
  <2> QED BY <2>1, <2>2 DEF BasicInv, TypeOK
<1>3. ASSUME NEW t \in Timers, TimerFire(t) \/ TimerDone(t) PROVE requests'[r] = requests[r]
  BY <1>3 DEF TimerFire, TimerDone
<1>4. CASE UNCHANGED vars
  BY <1>4 DEF vars
<1> QED BY <1>1, <1>2, <1>3, <1>4 DEF Next

LEMMA AccessStep ==
  ASSUME BasicInv, AccessInv, [AccessNext]_accessVars
  PROVE  AccessInv'
<1>1. CASE RoomStep
  <2>1. \A r \in validated' : r \in validated /\ requests'[r].at = "joining"
    BY <1>1 DEF RoomStep
  <2>2. \A r \in validated' : requests'[r] = requests[r]
    BY <1>1, <2>1, JoiningKept DEF RoomStep, AccessInv, AccessTypeOK
  <2> QED BY <1>1, <2>1, <2>2 DEF RoomStep, AccessInv, AccessTypeOK, Guest
<1>2. ASSUME NEW r \in Requests, ValidateAccess(r) PROVE AccessInv'
  BY <1>2 DEF ValidateAccess, AccessInv, AccessTypeOK, Guest, vars
<1>3. ASSUME NEW u \in Students, NEW s \in Sessions, LoseAccess(u, s) PROVE AccessInv'
  BY <1>3 DEF LoseAccess, AccessInv, AccessTypeOK, Guest, vars
<1>4. ASSUME NEW u \in Students, NEW s \in Sessions, GainAccess(u, s) PROVE AccessInv'
  BY <1>4 DEF GainAccess, AccessInv, AccessTypeOK, Guest, vars
<1>5. CASE UNCHANGED accessVars
  BY <1>5 DEF accessVars, AccessInv, AccessTypeOK, Guest, vars
<1> QED BY <1>1, <1>2, <1>3, <1>4, <1>5 DEF AccessNext

LEMMA AccessInvariant == AccessSpec => [](BasicInv /\ AccessInv)
<1>1. AccessInit => AccessInv
  BY DEF AccessInit, AccessInv, AccessTypeOK
<1>2. AccessSpec => []BasicInv
  BY RoomAccessImplementsMeetGateway, Basic, PTL
<1> QED BY <1>1, <1>2, AccessStep, PTL DEF AccessSpec

\* Who has access, and who was let in, keep their types.
THEOREM AccessType == AccessSpec => []AccessTypeOK
<1>1. AccessInv => AccessTypeOK
  BY DEF AccessInv
<1> QED BY <1>1, AccessInvariant, PTL

\* Somebody comes to be in the room only by addConnectedUser of a join-room.
LEMMA EnteredByJoin ==
  ASSUME BasicInv, [Next]_vars, NEW u \in Users, NEW s \in Sessions,
         ~Present(u, s), Present(u, s)'
  PROVE  \E r \in Requests : JoinTrack(r) /\ Guest(r) = <<u, s>>
<1>1. ~UNCHANGED rosterVars
  BY DEF Present, IsConnected, rosterVars
<1>2. ASSUME NEW k \in Sockets, RemoveUserBySocket(k) PROVE FALSE
  <2>1. socketToUser[k] # NoOne
    BY <1>1, <1>2 DEF RemoveUserBySocket
  <2>2. socketToUser[k].user \in Users /\ socketToUser[k].session \in Sessions
    BY <2>1 DEF BasicInv, TypeOK, RosterTypeOK, ConnectedUser
  <2>3. sessionUsers'[s][u] \in {sessionUsers[s][u], NoOne}
    BY <1>2, <2>1, <2>2 DEF RemoveUserBySocket, BasicInv, TypeOK, RosterTypeOK
  <2>4. \A l \in Sockets : socketToUser'[l] \in {socketToUser[l], NoOne}
    BY <1>2, <2>1 DEF RemoveUserBySocket, BasicInv, TypeOK, RosterTypeOK
  <2> QED BY <2>3, <2>4, NoOneAssumption DEF Present, IsConnected
<1>3. PICK r \in Requests : JoinTrack(r)
  BY <1>1, <1>2, RosterStep
<1>4. Guest(r) = <<u, s>>
  BY <1>3 DEF JoinTrack, AddUser, Present, IsConnected, Guest, BasicInv, TypeOK, RosterTypeOK
<1> QED BY <1>3, <1>4

LEMMA EntryStep ==
  ASSUME BasicInv, AccessInv, [AccessNext]_accessVars, NEW u \in Users, NEW s \in Sessions,
         ~Present(u, s), Present(u, s)'
  PROVE  \/ <<u, s>> \in access
         \/ \E r \in overtaken : Guest(r) = <<u, s>> /\ requests'[r].at = "tracked"
<1>1. CASE RoomStep
  <2>1. PICK r \in Requests : JoinTrack(r) /\ Guest(r) = <<u, s>>
    BY <1>1, EnteredByJoin DEF RoomStep
  <2>2. requests[r].at = "joining" /\ requests'[r].at = "tracked"
    BY <2>1 DEF JoinTrack, GoTo, BasicInv, TypeOK, Request
  <2>3. r \in validated
    BY <1>1, <2>2 DEF RoomStep
  <2> QED BY <2>1, <2>2, <2>3 DEF AccessInv
<1>2. CASE UNCHANGED vars
  BY <1>2 DEF vars, Present, IsConnected
<1> QED BY <1>1, <1>2 DEF AccessNext, accessVars, ValidateAccess, LoseAccess, GainAccess

\* Through whatever overlaps, who is not in the room gets there only with access, or by
\* a join-room that was let in before the access was lost.
THEOREM EntriesNeedAccess == AccessSpec => EntryNeedsAccess
<1>1. BasicInv /\ AccessInv /\ [AccessNext]_accessVars =>
        [\A u \in Users, s \in Sessions :
           ~Present(u, s) /\ Present(u, s)' =>
             \/ <<u, s>> \in access
             \/ \E r \in overtaken : Guest(r) = <<u, s>> /\ requests'[r].at = "tracked"
        ]_accessVars
  BY EntryStep
<1> QED BY <1>1, AccessInvariant, PTL DEF AccessSpec, EntryNeedsAccess
=============================================================================

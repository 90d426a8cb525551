-------------------------- MODULE MeetGatewayProofs --------------------------
(***************************************************************************)
(* Theorems about MeetGateway, for every set of users, sessions, sockets,  *)
(* suspended handlers and timers.                                          *)
(*                                                                         *)
(* Handlers touch the roster, the canvas and the timers in a few ways only.*)
(* One lemma per part lists them; the invariance proofs go by those cases. *)
(***************************************************************************)
EXTENDS MeetGateway, TLAPS

\* A suspended handler remembers a user and a session; a join-room handler the
\* message it answers, a kick-participant handler its target.
RequestOK(q) ==
  /\ q.at # "idle" => q.user \in Users /\ q.session \in Sessions
  /\ q.at \in {"joining", "tracked", "recorded"} =>
       <<q.socket, q.user, q.session>> \in JoinRequests
  /\ q.at \in {"kicking", "removing"} => q.target \in Users

\* A timer that is set is set for a user and a session.
TimerOK(t) == t.phase # "free" => t.user \in Users /\ t.session \in Sessions

BasicInv ==
  /\ TypeOK
  /\ \A r \in Requests : RequestOK(requests[r])
  /\ \A t \in Timers : TimerOK(timers[t])

-----------------------------------------------------------------------------
(* The operations on the roster                                            *)

\* addUser keeps the types of the two maps.
LEMMA AddUserType ==
  ASSUME RosterTypeOK, NEW k \in Sockets, NEW u \in Users, NEW s \in Sessions,
         AddUser(k, u, s)
  PROVE  RosterTypeOK'
BY DEF RosterTypeOK, AddUser, ConnectedUser

\* removeUserBySocket keeps the types of the two maps.
LEMMA RemoveUserType ==
  ASSUME RosterTypeOK, NEW k \in Sockets, RemoveUserBySocket(k)
  PROVE  RosterTypeOK'
BY DEF RosterTypeOK, RemoveUserBySocket, ConnectedUser, rosterVars

\* A socket in the lookup map is one of a user in a session.
LEMMA SocketType ==
  ASSUME RosterTypeOK, NEW k \in Sockets, socketToUser[k] # NoOne
  PROVE  /\ socketToUser[k] \in ConnectedUser
         /\ socketToUser[k].user \in Users
         /\ socketToUser[k].session \in Sessions
BY DEF RosterTypeOK, ConnectedUser

-----------------------------------------------------------------------------
(* Suspending, resuming, ending                                            *)

LEMMA StartOK ==
  ASSUME TypeOK, \A r \in Requests : RequestOK(requests[r]),
         NEW r \in Requests, NEW step \in Steps, NEW k \in Null(Sockets),
         NEW u \in Users, NEW s \in Sessions, NEW v \in Null(Users),
         step \in {"joining", "tracked", "recorded"} => <<k, u, s>> \in JoinRequests,
         step \in {"kicking", "removing"} => v \in Users,
         Start(r, step, k, u, s, v)
  PROVE  /\ requests' \in [Requests -> Request]
         /\ \A q \in Requests : RequestOK(requests'[q])
BY DEF TypeOK, RequestOK, Request, Start, Null

LEMMA GoToOK ==
  ASSUME TypeOK, \A r \in Requests : RequestOK(requests[r]),
         NEW r \in Requests, NEW step \in Steps, requests[r].at # "idle",
         step \in {"joining", "tracked", "recorded"} =>
           requests[r].at \in {"joining", "tracked", "recorded"},
         step \in {"kicking", "removing"} => requests[r].at \in {"kicking", "removing"},
         GoTo(r, step)
  PROVE  /\ requests' \in [Requests -> Request]
         /\ \A q \in Requests : RequestOK(requests'[q])
BY DEF TypeOK, RequestOK, Request, GoTo

LEMMA FinishOK ==
  ASSUME TypeOK, \A r \in Requests : RequestOK(requests[r]),
         NEW r \in Requests, Finish(r)
  PROVE  /\ requests' \in [Requests -> Request]
         /\ \A q \in Requests : RequestOK(requests'[q])
BY DEF TypeOK, RequestOK, Request, Finish, Idle, Steps, Null

-----------------------------------------------------------------------------
(* Timers                                                                  *)

LEMMA FreeTimerOK == FreeTimer \in Timer /\ TimerOK(FreeTimer)
BY DEF FreeTimer, Timer, TimerOK, Null

\* Replacing one timer by a well-formed one.
LEMMA SetTimerOK ==
  ASSUME NEW f \in [Timers -> Timer], \A x \in Timers : TimerOK(f[x]),
         NEW t \in Timers, NEW v \in Timer, TimerOK(v)
  PROVE  /\ [f EXCEPT ![t] = v] \in [Timers -> Timer]
         /\ \A x \in Timers : TimerOK([f EXCEPT ![t] = v][x])
OBVIOUS

\* clearTimeout leaves every timer well-formed.
LEMMA ClearedOK ==
  ASSUME TypeOK, \A x \in Timers : TimerOK(timers[x]), NEW t
  PROVE  /\ Cleared(t) \in [Timers -> Timer]
         /\ \A x \in Timers : TimerOK(Cleared(t)[x])
<1>1. CASE t \in Timers /\ timers[t].phase = "armed"
  <2>1. Cleared(t) = [timers EXCEPT ![t] = FreeTimer]
    BY <1>1 DEF Cleared
  <2> QED BY <1>1, <2>1, FreeTimerOK, SetTimerOK DEF TypeOK
<1>2. CASE ~(t \in Timers /\ timers[t].phase = "armed")
  BY <1>2 DEF Cleared, TypeOK
<1> QED BY <1>1, <1>2

-----------------------------------------------------------------------------
(* Type correctness                                                        *)

LEMMA InitBasic == Init => BasicInv
BY NoOneAssumption, GatewayAssumption
DEF Init, RosterInit, BasicInv, TypeOK, RosterTypeOK, RequestOK, TimerOK, Idle,
    FreeTimer, Request, Timer, Steps, Null, ConnectedUser

\* Every step keeps the types and what suspended handlers and timers remember.
LEMMA NextBasic == BasicInv /\ [Next]_vars => BasicInv'
<1> SUFFICES ASSUME BasicInv, [Next]_vars PROVE BasicInv'
  OBVIOUS
<1> USE DEF BasicInv
<1>0. CASE UNCHANGED vars
  BY <1>0 DEF vars, TypeOK, RosterTypeOK, RequestOK, TimerOK
<1>1. ASSUME NEW r \in Requests, JoinTrack(r) PROVE BasicInv'
  <2>1. /\ requests[r].socket \in Sockets
        /\ requests[r].user \in Users
        /\ requests[r].session \in Sessions
    BY <1>1, GatewayAssumption DEF JoinTrack, RequestOK
  <2>2. RosterTypeOK'
    BY <1>1, <2>1, AddUserType DEF JoinTrack, TypeOK
  <2>3. /\ requests' \in [Requests -> Request]
        /\ \A q \in Requests : RequestOK(requests'[q])
    BY <1>1, GoToOK DEF JoinTrack, Steps
  <2> QED BY <1>1, <2>2, <2>3 DEF JoinTrack, TypeOK, stageVars, timerVars, TimerOK
<1>2. ASSUME NEW r \in Requests, JoinRecord(r) PROVE BasicInv'
  <2>1. /\ requests' \in [Requests -> Request]
        /\ \A q \in Requests : RequestOK(requests'[q])
    BY <1>2, GoToOK DEF JoinRecord, Steps
  <2>2. attendance' \in [Sessions -> [Users -> {"none", "joined", "attended"}]]
    BY <1>2 DEF JoinRecord, TypeOK
  <2> QED BY <1>2, <2>1, <2>2
          DEF JoinRecord, TypeOK, RosterTypeOK, rosterVars, stageVars, TimerOK
<1>3. ASSUME NEW r \in Requests, JoinArm(r) PROVE BasicInv'
  <2>1. /\ requests[r].user \in Users
        /\ requests[r].session \in Sessions
    BY <1>3 DEF JoinArm, RequestOK
  <2>2. /\ requests' \in [Requests -> Request]
        /\ \A q \in Requests : RequestOK(requests'[q])
    BY <1>3, FinishOK DEF JoinArm
  <2>3. /\ timers' \in [Timers -> Timer]
        /\ \A x \in Timers : TimerOK(timers'[x])
        /\ attendanceTimers' \in [Sessions -> [Users -> Null(Timers)]]
    <3> DEFINE u == requests[r].user
               s == requests[r].session
               cleared == Cleared(attendanceTimers[s][u])
               armed == [phase |-> "armed", user |-> u, session |-> s]
    <3>1. PICK t \in Timers : /\ timers' = [cleared EXCEPT ![t] = armed]
                              /\ attendanceTimers' = [attendanceTimers EXCEPT ![s][u] = t]
      BY <1>3 DEF JoinArm
    <3>2. armed \in Timer /\ TimerOK(armed)
      BY <2>1 DEF Timer, TimerOK, Null
    <3>3. cleared \in [Timers -> Timer] /\ \A x \in Timers : TimerOK(cleared[x])
      BY ClearedOK
    <3>4. attendanceTimers' \in [Sessions -> [Users -> Null(Timers)]]
      BY <3>1, <2>1 DEF TypeOK, Null
    <3> HIDE DEF cleared, armed
    <3> QED BY <3>1, <3>2, <3>3, <3>4, SetTimerOK
  <2> QED BY <1>3, <2>2, <2>3 DEF JoinArm, TypeOK, RosterTypeOK, rosterVars, stageVars
<1>4. ASSUME NEW r \in Requests, JoinEnd(r) PROVE BasicInv'
  BY <1>4, FinishOK
  DEF JoinEnd, TypeOK, RosterTypeOK, rosterVars, stageVars, timerVars, TimerOK
<1>5. ASSUME NEW k \in Sockets, NEW r \in Requests, NEW u \in Users, NEW s \in Sessions,
             JoinRoom(r, k, u, s)
      PROVE  BasicInv'
  <2>1. /\ requests' \in [Requests -> Request]
        /\ \A q \in Requests : RequestOK(requests'[q])
    BY <1>5, StartOK DEF JoinRoom, Steps, Null
  <2> QED BY <1>5, <2>1
          DEF JoinRoom, TypeOK, RosterTypeOK, rosterVars, stageVars, timerVars, TimerOK
<1>6. ASSUME NEW k \in Sockets, LeaveRoom(k) PROVE BasicInv'
  <2>1. /\ socketToUser[k].user \in Users
        /\ socketToUser[k].session \in Sessions
        /\ RosterTypeOK'
    BY <1>6, SocketType, RemoveUserType DEF LeaveRoom, TypeOK
  <2> QED BY <1>6, <2>1
          DEF LeaveRoom, TypeOK, WithoutHolder, Null, timerVars, RequestOK, TimerOK
<1>7. ASSUME NEW k \in Sockets, Disconnect(k) PROVE BasicInv'
  <2>1. CASE socketToUser[k] = NoOne
    BY <1>7, <2>1 DEF Disconnect, TypeOK, RosterTypeOK, rosterVars, stageVars, RequestOK,
                      TimerOK
  <2>2. CASE socketToUser[k] # NoOne
    <3>1. /\ socketToUser[k].user \in Users
          /\ socketToUser[k].session \in Sessions
          /\ RosterTypeOK'
      BY <1>7, <2>2, SocketType, RemoveUserType DEF Disconnect, TypeOK
    <3>2. /\ timers' \in [Timers -> Timer]
          /\ \A t \in Timers : TimerOK(timers'[t])
      BY <1>7, <2>2, ClearedOK DEF Disconnect
    <3>3. attendanceTimers' \in [Sessions -> [Users -> Null(Timers)]]
      <4>1. attendanceTimers' = [attendanceTimers EXCEPT
                                   ![socketToUser[k].session][socketToUser[k].user] = NoOne]
        BY <1>7, <2>2 DEF Disconnect
      <4> QED BY <3>1, <4>1 DEF TypeOK, Null
    <3>4. /\ activeScreenSharers' \in [Sessions -> Null(Users)]
          /\ activeCanvasSessions' \in [Sessions -> Null(Users)]
      BY <1>7, <2>2 DEF Disconnect, TypeOK, WithoutHolder, Null
    <3>5. /\ connected' \subseteq Sockets
          /\ UNCHANGED <<attendance, requests>>
      BY <1>7 DEF Disconnect, TypeOK
    <3> QED BY <3>1, <3>2, <3>3, <3>4, <3>5 DEF TypeOK, RequestOK
  <2> QED BY <2>1, <2>2
<1>8. ASSUME NEW t \in Timers, TimerFire(t) PROVE BasicInv'
  <2>1. /\ timers[t].user \in Users
        /\ timers[t].session \in Sessions
    BY <1>8 DEF TimerFire, TimerOK
  <2>2. /\ timers' \in [Timers -> Timer]
        /\ \A x \in Timers : TimerOK(timers'[x])
    <3>1. CASE timers' = [timers EXCEPT ![t].phase = "marking"]
      BY <2>1, <3>1 DEF TypeOK, Timer, TimerOK
    <3>2. CASE timers' = [timers EXCEPT ![t] = FreeTimer]
      BY <3>2, FreeTimerOK, SetTimerOK DEF TypeOK
    <3> QED BY <1>8, <3>1, <3>2 DEF TimerFire
  <2>3. attendanceTimers' \in [Sessions -> [Users -> Null(Timers)]]
    <3>1. CASE UNCHANGED attendanceTimers
      BY <3>1 DEF TypeOK
    <3>2. CASE attendanceTimers' = [attendanceTimers EXCEPT
                                      ![timers[t].session][timers[t].user] = NoOne]
      BY <2>1, <3>2 DEF TypeOK, Null
    <3> QED BY <1>8, <3>1, <3>2 DEF TimerFire
  <2> QED BY <1>8, <2>2, <2>3
          DEF TimerFire, TypeOK, RosterTypeOK, rosterVars, stageVars, RequestOK, Null
<1>9. ASSUME NEW t \in Timers, TimerDone(t) PROVE BasicInv'
  <2>1. /\ timers[t].user \in Users
        /\ timers[t].session \in Sessions
    BY <1>9 DEF TimerDone, TimerOK
  <2>2. /\ timers' \in [Timers -> Timer]
        /\ \A x \in Timers : TimerOK(timers'[x])
    BY <1>9, FreeTimerOK, SetTimerOK DEF TimerDone, TypeOK
  <2>3. attendance' \in [Sessions -> [Users -> {"none", "joined", "attended"}]]
    <3> DEFINE u == timers[t].user
               s == timers[t].session
    <3>1. CASE attendance' = [attendance EXCEPT ![s][u] = IF @ = "none" THEN @ ELSE "attended"]
      BY <2>1, <3>1 DEF TypeOK
    <3>2. CASE UNCHANGED attendance
      BY <3>2 DEF TypeOK
    <3> QED BY <1>9, <3>1, <3>2 DEF TimerDone
  <2> QED BY <1>9, <2>1, <2>2, <2>3
          DEF TimerDone, TypeOK, RosterTypeOK, rosterVars, stageVars, RequestOK, Null
<1>10. ASSUME NEW k \in Sockets, NEW r \in Requests, StartScreenShare(r, k) PROVE BasicInv'
  <2>1. /\ socketToUser[k].user \in Users
        /\ socketToUser[k].session \in Sessions
    BY <1>10, SocketType DEF StartScreenShare, TypeOK
  <2>2. /\ requests' \in [Requests -> Request]
        /\ \A q \in Requests : RequestOK(requests'[q])
    <3>1. CASE Start(r, "sharing", NoOne, socketToUser[k].user, socketToUser[k].session, NoOne)
      BY <2>1, <3>1, StartOK DEF Steps, Null
    <3>2. CASE UNCHANGED requests
      BY <3>2 DEF TypeOK
    <3> QED BY <1>10, <3>1, <3>2 DEF StartScreenShare
  <2>3. /\ activeScreenSharers' \in [Sessions -> Null(Users)]
        /\ activeCanvasSessions' \in [Sessions -> Null(Users)]
    BY <1>10, <2>1 DEF StartScreenShare, TypeOK, Null
  <2> QED BY <1>10, <2>2, <2>3
          DEF StartScreenShare, TypeOK, RosterTypeOK, rosterVars, timerVars, TimerOK
<1>11. ASSUME NEW r \in Requests, ResumeScreenShare(r) PROVE BasicInv'
  <2>1. /\ requests[r].user \in Users
        /\ requests' \in [Requests -> Request]
        /\ \A q \in Requests : RequestOK(requests'[q])
    BY <1>11, FinishOK DEF ResumeScreenShare, RequestOK
  <2> QED BY <1>11, <2>1
          DEF ResumeScreenShare, TypeOK, RosterTypeOK, rosterVars, timerVars, TimerOK, Null
<1>12. ASSUME NEW k \in Sockets, StopScreenShare(k) PROVE BasicInv'
  BY <1>12
  DEF StopScreenShare, TypeOK, RosterTypeOK, rosterVars, timerVars, TimerOK, RequestOK, Null
<1>13. ASSUME NEW k \in Sockets, NEW r \in Requests, OpenCanvas(r, k) PROVE BasicInv'
  <2>1. /\ socketToUser[k].user \in Users
        /\ socketToUser[k].session \in Sessions
    BY <1>13, SocketType DEF OpenCanvas, TypeOK
  <2>2. /\ requests' \in [Requests -> Request]
        /\ \A q \in Requests : RequestOK(requests'[q])
    BY <1>13, <2>1, StartOK DEF OpenCanvas, Steps, Null
  <2> QED BY <1>13, <2>2
          DEF OpenCanvas, TypeOK, RosterTypeOK, rosterVars, stageVars, timerVars, TimerOK
<1>14. ASSUME NEW r \in Requests, OpenCanvasAuthorized(r) PROVE BasicInv'
  <2>1. requests[r].user \in Users
    BY <1>14 DEF OpenCanvasAuthorized, RequestOK
  <2>2. /\ requests' \in [Requests -> Request]
        /\ \A q \in Requests : RequestOK(requests'[q])
    BY <1>14, GoToOK, FinishOK DEF OpenCanvasAuthorized, Steps
  <2>3. /\ activeScreenSharers' \in [Sessions -> Null(Users)]
        /\ activeCanvasSessions' \in [Sessions -> Null(Users)]
    BY <1>14, <2>1 DEF OpenCanvasAuthorized, ServiceOpenCanvas, TypeOK, Null
  <2> QED BY <1>14, <2>2, <2>3
          DEF OpenCanvasAuthorized, TypeOK, RosterTypeOK, rosterVars, timerVars, TimerOK
<1>15. ASSUME NEW r \in Requests, ResumeOpenCanvas(r) PROVE BasicInv'
  <2>1. /\ requests[r].user \in Users
        /\ requests' \in [Requests -> Request]
        /\ \A q \in Requests : RequestOK(requests'[q])
    BY <1>15, FinishOK DEF ResumeOpenCanvas, RequestOK
  <2> QED BY <1>15, <2>1
          DEF ResumeOpenCanvas, ServiceOpenCanvas, TypeOK, RosterTypeOK, rosterVars,
              timerVars, TimerOK, Null
<1>16. ASSUME NEW r \in Requests, OpenCanvasRefused(r) PROVE BasicInv'
  BY <1>16, FinishOK
  DEF OpenCanvasRefused, TypeOK, RosterTypeOK, rosterVars, stageVars, timerVars, TimerOK
<1>17. ASSUME NEW k \in Sockets, NEW r \in Requests, CloseCanvas(r, k) PROVE BasicInv'
  <2>1. /\ socketToUser[k].user \in Users
        /\ socketToUser[k].session \in Sessions
    BY <1>17, SocketType DEF CloseCanvas, TypeOK
  <2>2. /\ requests' \in [Requests -> Request]
        /\ \A q \in Requests : RequestOK(requests'[q])
    <3>1. CASE Start(r, "saving", NoOne, socketToUser[k].user, socketToUser[k].session, NoOne)
      BY <2>1, <3>1, StartOK DEF Steps, Null
    <3>2. CASE UNCHANGED requests
      BY <3>2 DEF TypeOK
    <3> QED BY <1>17, <3>1, <3>2 DEF CloseCanvas
  <2>3. activeCanvasSessions' \in [Sessions -> Null(Users)]
    BY <1>17 DEF CloseCanvas, TypeOK, Null
  <2> QED BY <1>17, <2>2, <2>3
          DEF CloseCanvas, TypeOK, RosterTypeOK, rosterVars, timerVars, TimerOK
<1>18. ASSUME NEW r \in Requests, ResumeCloseCanvas(r) PROVE BasicInv'
  BY <1>18, FinishOK
  DEF ResumeCloseCanvas, TypeOK, RosterTypeOK, rosterVars, timerVars, TimerOK, Null
<1>19. ASSUME NEW r \in Requests, CloseCanvasFail(r) PROVE BasicInv'
  BY <1>19, FinishOK
  DEF CloseCanvasFail, TypeOK, RosterTypeOK, rosterVars, stageVars, timerVars, TimerOK
<1>20. ASSUME NEW k \in Sockets, NEW r \in Requests, NEW v \in Users, KickParticipant(r, k, v)
       PROVE  BasicInv'
  <2>1. /\ socketToUser[k].user \in Users
        /\ socketToUser[k].session \in Sessions
    BY <1>20, SocketType DEF KickParticipant, TypeOK
  <2>2. /\ requests' \in [Requests -> Request]
        /\ \A q \in Requests : RequestOK(requests'[q])
    BY <1>20, <2>1, StartOK DEF KickParticipant, Steps, Null
  <2> QED BY <1>20, <2>2
          DEF KickParticipant, TypeOK, RosterTypeOK, rosterVars, stageVars, timerVars, TimerOK
<1>21. ASSUME NEW r \in Requests, KickStopShare(r) PROVE BasicInv'
  <2>1. /\ requests' \in [Requests -> Request]
        /\ \A q \in Requests : RequestOK(requests'[q])
    BY <1>21, GoToOK DEF KickStopShare, Steps
  <2> QED BY <1>21, <2>1
          DEF KickStopShare, WithoutHolder, TypeOK, RosterTypeOK, rosterVars, timerVars,
              TimerOK, Null
<1>22. ASSUME NEW r \in Requests, KickRemove(r) PROVE BasicInv'
  <2>1. /\ requests' \in [Requests -> Request]
        /\ \A q \in Requests : RequestOK(requests'[q])
    BY <1>22, FinishOK DEF KickRemove
  <2>2. RosterTypeOK'
    <3> DEFINE entry == sessionUsers[requests[r].session][requests[r].target]
    <3>1. CASE entry = NoOne
      BY <1>22, <3>1 DEF KickRemove, TypeOK, RosterTypeOK, rosterVars
    <3>2. CASE entry # NoOne
      <4>1. requests[r].session \in Sessions /\ requests[r].target \in Users
        BY <1>22 DEF KickRemove, RequestOK
      <4>2. entry \in Sockets
        BY <3>2, <4>1 DEF TypeOK, RosterTypeOK
      <4> QED BY <1>22, <3>2, <4>2, RemoveUserType DEF KickRemove, TypeOK
    <3> QED BY <3>1, <3>2
  <2> QED BY <1>22, <2>1, <2>2 DEF KickRemove, TypeOK, stageVars, timerVars, TimerOK
<1>23. ASSUME NEW r \in Requests, KickFail(r) PROVE BasicInv'
  BY <1>23, FinishOK
  DEF KickFail, TypeOK, RosterTypeOK, rosterVars, stageVars, timerVars, TimerOK
<1> QED
  BY <1>0, <1>1, <1>2, <1>3, <1>4, <1>5, <1>6, <1>7, <1>8, <1>9, <1>10, <1>11, <1>12,
     <1>13, <1>14, <1>15, <1>16, <1>17, <1>18, <1>19, <1>20, <1>21, <1>22, <1>23
  DEF Next, Resume, Receive

LEMMA Basic == Spec => []BasicInv
BY InitBasic, NextBasic, PTL DEF Spec

\* The state of the room always has its type.
THEOREM TypeCorrect == Spec => []TypeOK
<1>1. BasicInv => TypeOK
  BY DEF BasicInv
<1> QED BY <1>1, Basic, PTL


-----------------------------------------------------------------------------
(* What a step can do to each part of the state                            *)

\* The roster changes when a validated join tracks a socket, or by a call of
\* removeUserBySocket.
LEMMA RosterStep ==
  ASSUME BasicInv, [Next]_vars
  PROVE  \/ UNCHANGED rosterVars
         \/ \E r \in Requests : JoinTrack(r)
         \/ \E k \in Sockets : RemoveUserBySocket(k)
<1>1. ASSUME NEW r \in Requests, KickRemove(r)
      PROVE  UNCHANGED rosterVars \/ \E k \in Sockets : RemoveUserBySocket(k)
  <2> DEFINE entry == sessionUsers[requests[r].session][requests[r].target]
  <2>1. requests[r].session \in Sessions /\ requests[r].target \in Users
    BY <1>1 DEF KickRemove, BasicInv, RequestOK
  <2>2. entry \in Sockets \cup {NoOne}
    BY <2>1 DEF BasicInv, TypeOK, RosterTypeOK
  <2> QED BY <1>1, <2>2 DEF KickRemove
<1>2. ASSUME NEW k \in Sockets, LeaveRoom(k) \/ Disconnect(k)
      PROVE  UNCHANGED rosterVars \/ RemoveUserBySocket(k)
  BY <1>2 DEF LeaveRoom, Disconnect
<1>3. ASSUME NEW r \in Requests, Resume(r)
      PROVE  UNCHANGED rosterVars \/ JoinTrack(r) \/ KickRemove(r)
  BY <1>3 DEF Resume, JoinRecord, JoinArm, JoinEnd, ResumeScreenShare,
              OpenCanvasAuthorized, ResumeOpenCanvas, OpenCanvasRefused,
              ResumeCloseCanvas, CloseCanvasFail, KickStopShare, KickFail
<1>4. ASSUME NEW k \in Sockets, Receive(k)
      PROVE  UNCHANGED rosterVars \/ LeaveRoom(k)
  BY <1>4 DEF Receive, StopScreenShare, JoinRoom, StartScreenShare, OpenCanvas,
              CloseCanvas, KickParticipant
<1>5. ASSUME NEW t \in Timers, TimerFire(t) \/ TimerDone(t)
      PROVE  UNCHANGED rosterVars
  BY <1>5 DEF TimerFire, TimerDone
<1>6. CASE UNCHANGED vars
  BY <1>6 DEF vars, rosterVars
<1> QED BY <1>1, <1>2, <1>3, <1>4, <1>5, <1>6 DEF Next

\* The canvas of session s is closed, whoever had it.
Closed(s) == activeCanvasSessions' = [activeCanvasSessions EXCEPT ![s] = NoOne]

\* The canvas of one session is closed; or openCanvas runs for
\* the user of an open-canvas handler past its authorization.
LEMMA CanvasStep ==
  ASSUME BasicInv, [Next]_vars
  PROVE  \/ UNCHANGED activeCanvasSessions
         \/ \E s \in Sessions : Closed(s)
         \/ \E r \in Requests :
              /\ \/ requests[r].at = "opening"
                 \/ /\ requests[r].at = "authorizing"
                    /\ <<requests[r].user, requests[r].session>> \in Teachers
              /\ ServiceOpenCanvas(requests[r].user, requests[r].session)
<1>1. ASSUME NEW k \in Sockets, Disconnect(k)
      PROVE  UNCHANGED activeCanvasSessions \/ \E s \in Sessions : Closed(s)
  <2>1. CASE socketToUser[k] = NoOne
    BY <1>1, <2>1 DEF Disconnect, stageVars
  <2>2. CASE socketToUser[k] # NoOne
    <3> DEFINE u == socketToUser[k].user
               s == socketToUser[k].session
    <3>1. /\ s \in Sessions
          /\ activeCanvasSessions' = WithoutHolder(activeCanvasSessions, u, s)
      BY <1>1, <2>2, SocketType DEF Disconnect, BasicInv, TypeOK
    <3>2. CASE activeCanvasSessions[s] = u
      BY <3>1, <3>2 DEF WithoutHolder, Closed
    <3>3. CASE activeCanvasSessions[s] # u
      <4>1. activeCanvasSessions' = activeCanvasSessions
        BY <3>1, <3>3 DEF WithoutHolder, BasicInv, TypeOK
      <4> QED BY <4>1
    <3> QED BY <3>2, <3>3
  <2> QED BY <2>1, <2>2
<1>2. ASSUME NEW k \in Sockets, NEW r \in Requests, StartScreenShare(r, k) \/ CloseCanvas(r, k)
      PROVE  UNCHANGED activeCanvasSessions \/ \E s \in Sessions : Closed(s)
  <2>1. socketToUser[k].session \in Sessions
    BY <1>2, SocketType DEF StartScreenShare, CloseCanvas, BasicInv, TypeOK
  <2>2. UNCHANGED activeCanvasSessions \/ Closed(socketToUser[k].session)
    BY <1>2 DEF StartScreenShare, CloseCanvas, Closed
  <2> QED BY <2>1, <2>2
<1>3. ASSUME NEW r \in Requests, ResumeCloseCanvas(r)
      PROVE  \E s \in Sessions : Closed(s)
  BY <1>3 DEF ResumeCloseCanvas, BasicInv, RequestOK, Closed
<1>4. ASSUME NEW r \in Requests, OpenCanvasAuthorized(r) \/ ResumeOpenCanvas(r)
      PROVE  \/ UNCHANGED activeCanvasSessions
             \/ /\ \/ requests[r].at = "opening"
                   \/ /\ requests[r].at = "authorizing"
                      /\ <<requests[r].user, requests[r].session>> \in Teachers
                /\ ServiceOpenCanvas(requests[r].user, requests[r].session)
  BY <1>4 DEF OpenCanvasAuthorized, ResumeOpenCanvas
<1>5. ASSUME NEW r \in Requests, Resume(r)
      PROVE  \/ UNCHANGED activeCanvasSessions
             \/ OpenCanvasAuthorized(r) \/ ResumeOpenCanvas(r) \/ ResumeCloseCanvas(r)
  BY <1>5 DEF Resume, JoinTrack, JoinRecord, JoinArm, JoinEnd, ResumeScreenShare,
              OpenCanvasRefused, CloseCanvasFail, KickStopShare, KickRemove, KickFail,
              stageVars
<1>6. ASSUME NEW k \in Sockets, Receive(k)
      PROVE  \/ UNCHANGED activeCanvasSessions
             \/ \E r \in Requests : StartScreenShare(r, k) \/ CloseCanvas(r, k)
  BY <1>6 DEF Receive, LeaveRoom, StopScreenShare, JoinRoom, OpenCanvas,
              KickParticipant, stageVars
<1>7. ASSUME NEW t \in Timers, TimerFire(t) \/ TimerDone(t)
      PROVE  UNCHANGED activeCanvasSessions
  BY <1>7 DEF TimerFire, TimerDone, stageVars
<1>8. CASE UNCHANGED vars
  BY <1>8 DEF vars
<1>9. CASE \E r \in Requests : Resume(r)
  <2>1. PICK r \in Requests : Resume(r)
    BY <1>9
  <2> QED BY <2>1, <1>3, <1>4, <1>5
<1>10. CASE \E k \in Sockets : Receive(k) \/ Disconnect(k)
  <2>1. PICK k \in Sockets : Receive(k) \/ Disconnect(k)
    BY <1>10
  <2> QED BY <2>1, <1>1, <1>2, <1>6
<1> QED BY <1>7, <1>8, <1>9, <1>10 DEF Next

\* The screen of one session is released, whoever had it; or taken by the user
\* of a tracked socket or of a suspended start-screen-share.
Released(s) == activeScreenSharers' = [activeScreenSharers EXCEPT ![s] = NoOne]
Taken(u, s) == activeScreenSharers' = [activeScreenSharers EXCEPT ![s] = u]

LEMMA WithoutHolderReleases ==
  ASSUME BasicInv, NEW u, NEW s \in Sessions,
         activeScreenSharers' = WithoutHolder(activeScreenSharers, u, s)
  PROVE  UNCHANGED activeScreenSharers \/ Released(s)
<1>1. CASE activeScreenSharers[s] = u
  BY <1>1 DEF WithoutHolder, Released
<1>2. CASE activeScreenSharers[s] # u
  <2>1. activeScreenSharers' = activeScreenSharers
    BY <1>2 DEF WithoutHolder, BasicInv, TypeOK
  <2> QED BY <2>1
<1> QED BY <1>1, <1>2

LEMMA ScreenStep ==
  ASSUME BasicInv, [Next]_vars
  PROVE  \/ UNCHANGED activeScreenSharers
         \/ \E s \in Sessions : Released(s)
         \/ \E k \in Sockets : /\ socketToUser[k] # NoOne
                               /\ Taken(socketToUser[k].user, socketToUser[k].session)
         \/ \E r \in Requests : /\ requests[r].at = "sharing"
                                /\ Taken(requests[r].user, requests[r].session)
<1>1. ASSUME NEW k \in Sockets, Receive(k) \/ Disconnect(k)
      PROVE  \/ UNCHANGED activeScreenSharers
             \/ \E s \in Sessions : Released(s)
             \/ /\ socketToUser[k] # NoOne
                /\ Taken(socketToUser[k].user, socketToUser[k].session)
  <2> DEFINE u == socketToUser[k].user
             s == socketToUser[k].session
  <2>1. socketToUser[k] # NoOne => s \in Sessions
    BY SocketType DEF BasicInv, TypeOK
  <2>2. CASE LeaveRoom(k)
    <3>1. s \in Sessions /\ activeScreenSharers' = WithoutHolder(activeScreenSharers, u, s)
      BY <2>1, <2>2 DEF LeaveRoom
    <3> QED BY <3>1, WithoutHolderReleases
  <2>3. CASE Disconnect(k)
    <3>1. CASE socketToUser[k] = NoOne
      BY <2>3, <3>1 DEF Disconnect, stageVars
    <3>2. CASE socketToUser[k] # NoOne
      <4>1. activeScreenSharers' = WithoutHolder(activeScreenSharers, u, s)
        BY <2>3, <3>2 DEF Disconnect
      <4> QED BY <2>1, <3>2, <4>1, WithoutHolderReleases
    <3> QED BY <3>1, <3>2
  <2>4. CASE StopScreenShare(k)
    BY <2>1, <2>4 DEF StopScreenShare, Released
  <2>5. ASSUME NEW r \in Requests, StartScreenShare(r, k)
        PROVE  \/ UNCHANGED activeScreenSharers
               \/ /\ socketToUser[k] # NoOne
                  /\ Taken(u, s)
    BY <2>5 DEF StartScreenShare, Taken
  <2>6. Receive(k) => \/ UNCHANGED activeScreenSharers
                      \/ LeaveRoom(k) \/ StopScreenShare(k)
                      \/ \E r \in Requests : StartScreenShare(r, k)
    BY DEF Receive, JoinRoom, OpenCanvas, CloseCanvas, KickParticipant, stageVars
  <2> QED BY <1>1, <2>2, <2>3, <2>4, <2>5, <2>6
<1>2. ASSUME NEW r \in Requests, Resume(r)
      PROVE  \/ UNCHANGED activeScreenSharers
             \/ \E s \in Sessions : Released(s)
             \/ /\ requests[r].at = "sharing"
                /\ Taken(requests[r].user, requests[r].session)
  <2> DEFINE s == requests[r].session
  <2>1. requests[r].at # "idle" => s \in Sessions
    BY DEF BasicInv, RequestOK
  <2>2. CASE ResumeScreenShare(r)
    BY <2>2 DEF ResumeScreenShare, Taken
  <2>3. CASE OpenCanvasAuthorized(r)
    BY <2>1, <2>3 DEF OpenCanvasAuthorized, Released
  <2>4. CASE KickStopShare(r)
    <3>1. /\ s \in Sessions
          /\ activeScreenSharers' = WithoutHolder(activeScreenSharers, requests[r].target, s)
      BY <2>1, <2>4 DEF KickStopShare
    <3> QED BY <3>1, WithoutHolderReleases
  <2>5. \/ UNCHANGED activeScreenSharers
        \/ ResumeScreenShare(r) \/ OpenCanvasAuthorized(r) \/ KickStopShare(r)
    BY <1>2 DEF Resume, JoinTrack, JoinRecord, JoinArm, JoinEnd, ResumeOpenCanvas,
                OpenCanvasRefused, ResumeCloseCanvas, CloseCanvasFail, KickRemove,
                KickFail, stageVars
  <2> QED BY <2>2, <2>3, <2>4, <2>5
<1>3. ASSUME NEW t \in Timers, TimerFire(t) \/ TimerDone(t)
      PROVE  UNCHANGED activeScreenSharers
  BY <1>3 DEF TimerFire, TimerDone, stageVars
<1>4. CASE UNCHANGED vars
  BY <1>4 DEF vars
<1>5. CASE \E k \in Sockets : Receive(k) \/ Disconnect(k)
  <2>1. PICK k \in Sockets : Receive(k) \/ Disconnect(k)
    BY <1>5
  <2> QED BY <2>1, <1>1
<1>6. CASE \E r \in Requests : Resume(r)
  <2>1. PICK r \in Requests : Resume(r)
    BY <1>6
  <2> QED BY <2>1, <1>2
<1> QED BY <1>3, <1>4, <1>5, <1>6 DEF Next

-----------------------------------------------------------------------------
(* Nobody is in a room without access to it                                *)

\* A handler suspended past the access check is one of a user with access, and
\* an open-canvas past its authorization one of a teacher.
Admitted(q) ==
  /\ q.at \notin {"idle", "joining"} => <<q.user, q.session>> \in MayEnter
  /\ q.at = "opening" => <<q.user, q.session>> \in Teachers

AdmittedInv ==
  /\ AdmittedOnly
  /\ \A r \in Requests : Admitted(requests[r])

LEMMA InitAdmitted == Init => AdmittedInv
BY NoOneAssumption
DEF Init, RosterInit, AdmittedInv, AdmittedOnly, Admitted, Idle, IsConnected

LEMMA RequestsAdmitted ==
  ASSUME BasicInv, AdmittedInv, [Next]_vars
  PROVE  \A r \in Requests : Admitted(requests'[r])
<1> SUFFICES ASSUME NEW q \in Requests PROVE Admitted(requests'[q])
  OBVIOUS
<1> USE DEF BasicInv, TypeOK, AdmittedInv
<1>1. ASSUME NEW r \in Requests, Resume(r) PROVE Admitted(requests'[q])
  <2>1. CASE Finish(r)
    BY <2>1 DEF Finish, Idle, Admitted
  <2>2. CASE UNCHANGED requests
    BY <2>2
  <2>3. CASE JoinTrack(r)
    BY <2>3 DEF JoinTrack, GoTo, Request, Admitted
  <2>4. CASE JoinRecord(r)
    BY <2>4 DEF JoinRecord, GoTo, Request, Admitted
  <2>5. CASE OpenCanvasAuthorized(r) /\ GoTo(r, "opening")
    BY <2>5 DEF OpenCanvasAuthorized, GoTo, Request, Admitted
  <2>6. CASE KickStopShare(r)
    BY <2>6 DEF KickStopShare, GoTo, Request, Admitted
  <2> QED
    BY <1>1, <2>1, <2>2, <2>3, <2>4, <2>5, <2>6
    DEF Resume, JoinArm, JoinEnd, ResumeScreenShare, OpenCanvasAuthorized, ResumeOpenCanvas,
        OpenCanvasRefused, ResumeCloseCanvas, CloseCanvasFail, KickRemove, KickFail
<1>2. ASSUME NEW k \in Sockets, Receive(k) PROVE Admitted(requests'[q])
  <2>1. CASE UNCHANGED requests
    BY <2>1
  <2>2. ASSUME NEW r \in Requests, NEW u, NEW s, NEW v, Start(r, "joining", k, u, s, v)
        PROVE  Admitted(requests'[q])
    BY <2>2 DEF Start, Admitted
  <2>3. ASSUME socketToUser[k] # NoOne, NEW r \in Requests,
               NEW step \in {"sharing", "authorizing", "saving", "kicking"}, NEW x, NEW v,
               Start(r, step, x, socketToUser[k].user, socketToUser[k].session, v)
        PROVE  Admitted(requests'[q])
    BY <2>3 DEF Start, Admitted, AdmittedOnly
  <2>4. \/ UNCHANGED requests
        \/ \E r \in Requests, u \in Users, s \in Sessions : Start(r, "joining", k, u, s, NoOne)
        \/ /\ socketToUser[k] # NoOne
           /\ \E r \in Requests, step \in {"sharing", "authorizing", "saving", "kicking"},
                 v \in Null(Users) :
                Start(r, step, NoOne, socketToUser[k].user, socketToUser[k].session, v)
    BY <1>2 DEF Receive, LeaveRoom, StopScreenShare, JoinRoom, StartScreenShare, OpenCanvas,
                CloseCanvas, KickParticipant, Null
  <2> QED BY <2>1, <2>2, <2>3, <2>4
<1>3. UNCHANGED requests => Admitted(requests'[q])
  OBVIOUS
<1>4. ASSUME NEW k \in Sockets, Disconnect(k) PROVE UNCHANGED requests
  BY <1>4 DEF Disconnect
<1>5. ASSUME NEW t \in Timers, TimerFire(t) \/ TimerDone(t) PROVE UNCHANGED requests
  BY <1>5 DEF TimerFire, TimerDone
<1> QED BY <1>1, <1>2, <1>3, <1>4, <1>5 DEF Next, vars

LEMMA NextAdmitted == BasicInv /\ AdmittedInv /\ [Next]_vars => AdmittedInv'
<1> SUFFICES ASSUME BasicInv, AdmittedInv, [Next]_vars PROVE AdmittedInv'
  OBVIOUS
<1> USE NoOneAssumption DEF BasicInv, TypeOK, RosterTypeOK, AdmittedInv, AdmittedOnly
<1> DEFINE InRoster == /\ \A s \in Sessions, u \in Users : IsConnected(u, s) => <<u, s>> \in MayEnter
                       /\ \A k \in Sockets :
                            socketToUser[k] # NoOne =>
                              <<socketToUser[k].user, socketToUser[k].session>> \in MayEnter
<1>1. InRoster'
  <2>1. CASE UNCHANGED rosterVars
    BY <2>1 DEF rosterVars, IsConnected
  <2>2. ASSUME NEW r \in Requests, JoinTrack(r) PROVE InRoster'
    <3> DEFINE k == requests[r].socket
               u == requests[r].user
               s == requests[r].session
    <3>1. <<u, s>> \in MayEnter /\ AddUser(k, u, s)
      BY <2>2 DEF JoinTrack
    <3>2. u \in Users /\ s \in Sessions
      BY <3>1, GatewayAssumption
    <3> HIDE DEF k, u, s
    <3>3. ASSUME NEW z \in Sessions, NEW v \in Users, IsConnected(v, z)'
          PROVE  <<v, z>> \in MayEnter
      <4>1. CASE z = s /\ v = u
        BY <3>1, <4>1
      <4>2. CASE ~(z = s /\ v = u)
        <5>1. sessionUsers'[z][v] = sessionUsers[z][v]
          BY <3>1, <3>2, <4>2 DEF AddUser
        <5> QED BY <3>3, <5>1 DEF IsConnected
      <4> QED BY <4>1, <4>2
    <3>4. ASSUME NEW x \in Sockets, socketToUser'[x] # NoOne
          PROVE  <<socketToUser'[x].user, socketToUser'[x].session>> \in MayEnter
      BY <3>1, <3>4 DEF AddUser
    <3> QED BY <3>3, <3>4
  <2>3. ASSUME NEW k \in Sockets, RemoveUserBySocket(k) PROVE InRoster'
    <3>1. ASSUME NEW z \in Sessions, NEW v \in Users, IsConnected(v, z)'
          PROVE  IsConnected(v, z)
      <4>1. CASE socketToUser[k] = NoOne
        BY <2>3, <3>1, <4>1 DEF RemoveUserBySocket, rosterVars, IsConnected
      <4>2. CASE socketToUser[k] # NoOne
        <5> DEFINE u == socketToUser[k].user
                   s == socketToUser[k].session
        <5>1. u \in Users /\ s \in Sessions
          BY <4>2, SocketType
        <5>2. sessionUsers' = [sessionUsers EXCEPT ![s][u] = NoOne]
          BY <2>3, <4>2 DEF RemoveUserBySocket
        <5> HIDE DEF u, s
        <5> QED BY <3>1, <5>1, <5>2 DEF IsConnected
      <4> QED BY <4>1, <4>2
    <3>2. ASSUME NEW x \in Sockets, socketToUser'[x] # NoOne
          PROVE  socketToUser'[x] = socketToUser[x]
      BY <2>3, <3>2 DEF RemoveUserBySocket, rosterVars
    <3> QED BY <3>1, <3>2
  <2> QED BY <2>1, <2>2, <2>3, RosterStep
<1>2. ASSUME NEW s \in Sessions, activeScreenSharers'[s] # NoOne
      PROVE  <<activeScreenSharers'[s], s>> \in MayEnter
  <2>1. CASE UNCHANGED activeScreenSharers
    BY <1>2, <2>1
  <2>2. ASSUME NEW z \in Sessions, Released(z)
        PROVE  <<activeScreenSharers'[s], s>> \in MayEnter
    BY <1>2, <2>2 DEF Released
  <2>3. ASSUME NEW u, NEW z, Taken(u, z), <<u, z>> \in MayEnter
        PROVE  <<activeScreenSharers'[s], s>> \in MayEnter
    BY <1>2, <2>3 DEF Taken
  <2>4. \A r \in Requests : requests[r].at = "sharing" =>
                              <<requests[r].user, requests[r].session>> \in MayEnter
    BY DEF Admitted
  <2> QED BY <2>1, <2>2, <2>3, <2>4, ScreenStep
<1>3. ASSUME NEW s \in Sessions, activeCanvasSessions'[s] # NoOne
      PROVE  <<activeCanvasSessions'[s], s>> \in MayEnter \cap Teachers
  <2>1. CASE UNCHANGED activeCanvasSessions
    BY <1>3, <2>1
  <2>2. ASSUME NEW z \in Sessions, Closed(z)
        PROVE  <<activeCanvasSessions'[s], s>> \in MayEnter \cap Teachers
    BY <1>3, <2>2 DEF Closed
  <2>3. ASSUME NEW u, NEW z, ServiceOpenCanvas(u, z), <<u, z>> \in MayEnter \cap Teachers
        PROVE  <<activeCanvasSessions'[s], s>> \in MayEnter \cap Teachers
    BY <1>3, <2>3 DEF ServiceOpenCanvas
  <2>4. \A r \in Requests :
          /\ requests[r].at \in {"opening", "authorizing"} =>
               <<requests[r].user, requests[r].session>> \in MayEnter
          /\ requests[r].at = "opening" =>
               <<requests[r].user, requests[r].session>> \in Teachers
    BY DEF Admitted
  <2> QED BY <2>1, <2>2, <2>3, <2>4, CanvasStep
<1> QED BY <1>1, <1>2, <1>3, RequestsAdmitted

\* Nobody is in the roster of a session, shares its screen or has its canvas
\* open without having passed the access check for it, and the teacher check for
\* the canvas.
THEOREM Admission == Spec => []AdmittedOnly
<1>1. AdmittedInv => AdmittedOnly
  BY DEF AdmittedInv
<1> QED BY <1>1, Basic, InitAdmitted, NextAdmitted, PTL DEF Spec

-----------------------------------------------------------------------------
(* The canvas is a lock                                                    *)

LEMMA CanvasRefinement ==
  ASSUME BasicInv, AdmittedInv, [Next]_vars
  PROVE  [Canvas!Next]_activeCanvasSessions
<1> USE DEF BasicInv, TypeOK, Canvas!Next, Canvas!Open, Canvas!Close
<1>1. ASSUME NEW s \in Sessions, Closed(s)
      PROVE  [Canvas!Next]_activeCanvasSessions
  <2>1. CASE activeCanvasSessions[s] = NoOne
    <3>1. activeCanvasSessions' = activeCanvasSessions
      BY <1>1, <2>1 DEF Closed
    <3> QED BY <3>1
  <2>2. CASE activeCanvasSessions[s] # NoOne
    BY <1>1, <2>2 DEF Closed
  <2> QED BY <2>1, <2>2
<1>2. ASSUME NEW r \in Requests,
             <<requests[r].user, requests[r].session>> \in Teachers,
             requests[r].at # "idle",
             ServiceOpenCanvas(requests[r].user, requests[r].session)
      PROVE  [Canvas!Next]_activeCanvasSessions
  <2> DEFINE u == requests[r].user
             s == requests[r].session
  <2>1. u \in Users /\ s \in Sessions
    BY <1>2 DEF RequestOK
  <2>2. CASE activeCanvasSessions[s] = NoOne
    <3>1. activeCanvasSessions' = [activeCanvasSessions EXCEPT ![s] = u]
      BY <1>2, <2>2 DEF ServiceOpenCanvas
    <3>2. Canvas!Open(u, s)
      BY <1>2, <2>2, <3>1
    <3> QED BY <2>1, <3>2
  <2>3. CASE activeCanvasSessions[s] # NoOne
    <3>1. activeCanvasSessions' = activeCanvasSessions
      BY <1>2, <2>3 DEF ServiceOpenCanvas
    <3> QED BY <3>1
  <2> QED BY <2>2, <2>3
<1>3. \A r \in Requests : requests[r].at = "opening" =>
                            <<requests[r].user, requests[r].session>> \in Teachers
  BY DEF AdmittedInv, Admitted
<1> QED BY <1>1, <1>2, <1>3, CanvasStep

\* Through every overlap of handlers the canvas of a session is a lock that
\* only teachers take, and only when it is free.
THEOREM CanvasLocked == Spec => CanvasIsLock
<1>1. Init => Canvas!Init
  BY DEF Init, Canvas!Init
<1>2. BasicInv /\ AdmittedInv /\ [Next]_vars => [Canvas!Next]_activeCanvasSessions
  BY CanvasRefinement
<1> QED BY <1>1, <1>2, Basic, InitAdmitted, NextAdmitted, PTL
        DEF Spec, CanvasIsLock, Canvas!Spec

-----------------------------------------------------------------------------
(* The two maps of the roster                                              *)

\* A socket is tracked for what a join-room message of its client said.
TrackedByJoin ==
  \A k \in Sockets : socketToUser[k] # NoOne =>
    <<k, socketToUser[k].user, socketToUser[k].session>> \in JoinRequests

RosterInv == TrackedByJoin /\ EntryBacked

\* When a socket joins one room only, the message decides the record.
LEMMA OneRecord ==
  ASSUME OneRoomPerSocket, NEW k, NEW u, NEW v, NEW s, NEW z,
         <<k, u, s>> \in JoinRequests, <<k, v, z>> \in JoinRequests
  PROVE  u = v /\ s = z
BY DEF OneRoomPerSocket

LEMMA NextRoster == BasicInv /\ RosterInv /\ [Next]_vars => RosterInv'
<1> SUFFICES ASSUME BasicInv, RosterInv, [Next]_vars PROVE RosterInv'
  OBVIOUS
<1> USE NoOneAssumption
    DEF BasicInv, TypeOK, RosterTypeOK, RosterInv, TrackedByJoin, EntryBacked, IsConnected
<1>1. CASE UNCHANGED rosterVars
  BY <1>1 DEF rosterVars, OneRoomPerSocket
<1>2. ASSUME NEW r \in Requests, JoinTrack(r) PROVE RosterInv'
  <2> DEFINE k == requests[r].socket
             u == requests[r].user
             s == requests[r].session
  <2>1. <<k, u, s>> \in JoinRequests /\ AddUser(k, u, s)
    BY <1>2 DEF JoinTrack, RequestOK
  <2>2. k \in Sockets /\ u \in Users /\ s \in Sessions
    BY <2>1, GatewayAssumption
  <2> HIDE DEF k, u, s
  <2>3. TrackedByJoin'
    BY <2>1, <2>2 DEF AddUser
  <2>4. ASSUME OneRoomPerSocket, NEW z \in Sessions, NEW v \in Users,
               sessionUsers'[z][v] # NoOne
        PROVE  socketToUser'[sessionUsers'[z][v]] = [user |-> v, session |-> z]
    <3>1. CASE z = s /\ v = u
      BY <2>1, <2>2, <2>4, <3>1 DEF AddUser
    <3>2. CASE ~(z = s /\ v = u)
      <4> DEFINE old == sessionUsers[z][v]
      <4>1. sessionUsers'[z][v] = old /\ old \in Sockets
        BY <2>1, <2>2, <2>4, <3>2 DEF AddUser
      <4>2. socketToUser[old] = [user |-> v, session |-> z]
        BY <2>4, <4>1
      <4>3. <<old, v, z>> \in JoinRequests
        <5>1. socketToUser[old].user = v /\ socketToUser[old].session = z
          BY <4>2
        <5>2. socketToUser[old] # NoOne
          BY <4>2 DEF ConnectedUser
        <5> QED BY <4>1, <5>1, <5>2
      <4>4. old # k
        <5>1. ASSUME old = k PROVE FALSE
          <6> HIDE DEF old
          <6>1. <<k, v, z>> \in JoinRequests
            BY <4>3, <5>1
          <6>2. v = u /\ z = s
            BY <2>1, <2>4, <6>1, OneRecord
          <6> QED BY <3>2, <6>2
        <5> QED BY <5>1
      <4>5. socketToUser'[old] = socketToUser[old]
        <5> HIDE DEF old
        <5> QED BY <2>1, <4>1, <4>4 DEF AddUser
      <4> QED BY <4>1, <4>2, <4>5
    <3> QED BY <3>1, <3>2
  <2> QED BY <2>3, <2>4 DEF OneRoomPerSocket
<1>3. ASSUME NEW k \in Sockets, RemoveUserBySocket(k) PROVE RosterInv'
  <2>1. CASE socketToUser[k] = NoOne
    BY <1>1, <1>3, <2>1 DEF RemoveUserBySocket
  <2>2. CASE socketToUser[k] # NoOne
    <3> DEFINE u == socketToUser[k].user
               s == socketToUser[k].session
    <3>1. /\ sessionUsers' = [sessionUsers EXCEPT ![s][u] = NoOne]
          /\ socketToUser' = [socketToUser EXCEPT ![k] = NoOne]
      BY <1>3, <2>2 DEF RemoveUserBySocket
    <3>2. u \in Users /\ s \in Sessions
      BY <2>2, SocketType
    <3>3. TrackedByJoin'
      BY <3>1
    <3>4. ASSUME OneRoomPerSocket, NEW z \in Sessions, NEW v \in Users,
                 sessionUsers'[z][v] # NoOne
          PROVE  socketToUser'[sessionUsers'[z][v]] = [user |-> v, session |-> z]
      <4> DEFINE old == sessionUsers[z][v]
      <4>1. ~(z = s /\ v = u) /\ sessionUsers'[z][v] = old /\ old \in Sockets
        BY <3>1, <3>2, <3>4
      <4>2. socketToUser[old] = [user |-> v, session |-> z]
        BY <3>4, <4>1
      <4>3. socketToUser[old].user = v /\ socketToUser[old].session = z
        BY <4>2
      <4>4. old # k
        BY <4>1, <4>3
      <4> QED BY <3>1, <4>1, <4>2, <4>4
    <3> QED BY <3>3, <3>4 DEF OneRoomPerSocket
  <2> QED BY <2>1, <2>2
<1> QED BY <1>1, <1>2, <1>3, RosterStep

\* As long as a socket joins one room only, a user found in a session's map is
\* found under that socket too.
THEOREM MapsAgree == Spec => []EntryBacked
<1>1. Init => RosterInv
  BY DEF Init, RosterInit, RosterInv, TrackedByJoin, EntryBacked, IsConnected
<1>2. RosterInv => EntryBacked
  BY DEF RosterInv
<1> QED BY <1>1, <1>2, Basic, NextRoster, PTL DEF Spec

-----------------------------------------------------------------------------
(* The attendance timers                                                   *)

\* A handle is registered for at most the user and session it is set for, so
\* clearing the one registered for (u, s) and deleting that key leaves every
\* other registration as it was.
LEMMA ClearedRegistry ==
  ASSUME BasicInv, RegistryLive, NEW u \in Users, NEW s \in Sessions,
         NEW z \in Sessions, NEW v \in Users, ~(z = s /\ v = u),
         attendanceTimers[z][v] # NoOne
  PROVE  LET t == attendanceTimers[z][v]
         IN Cleared(attendanceTimers[s][u])[t] = timers[t]
<1> DEFINE t == attendanceTimers[z][v]
           old == attendanceTimers[s][u]
<1>1. t \in Timers /\ timers[t].user = v /\ timers[t].session = z
  BY DEF BasicInv, TypeOK, RegistryLive, Null
<1>2. old = NoOne \/ (timers[old].user = u /\ timers[old].session = s)
  BY DEF RegistryLive
<1>3. old # t
  BY <1>1, <1>2
<1> HIDE DEF t, old
<1>4. Cleared(old)[t] = timers[t]
  BY <1>1, <1>3 DEF Cleared, BasicInv, TypeOK
<1> QED BY <1>4 DEF t, old

\* The key of (u, s) is deleted, and no other registered handle is touched.
LEMMA KeyDeleted ==
  ASSUME BasicInv, RegistryLive, NEW u \in Users, NEW s \in Sessions,
         attendanceTimers' = [attendanceTimers EXCEPT ![s][u] = NoOne],
         \A z \in Sessions, v \in Users :
           ~(z = s /\ v = u) /\ attendanceTimers[z][v] # NoOne =>
             timers'[attendanceTimers[z][v]] = timers[attendanceTimers[z][v]]
  PROVE  RegistryLive'
<1> SUFFICES ASSUME NEW z \in Sessions, NEW v \in Users, attendanceTimers'[z][v] # NoOne
             PROVE  /\ timers'[attendanceTimers'[z][v]].phase # "free"
                    /\ timers'[attendanceTimers'[z][v]].user = v
                    /\ timers'[attendanceTimers'[z][v]].session = z
  BY DEF RegistryLive
<1>1. ~(z = s /\ v = u) /\ attendanceTimers'[z][v] = attendanceTimers[z][v]
  BY DEF BasicInv, TypeOK
<1> QED BY <1>1 DEF RegistryLive

LEMMA NextRegistry == BasicInv /\ RegistryLive /\ [Next]_vars => RegistryLive'
<1> SUFFICES ASSUME BasicInv, RegistryLive, [Next]_vars PROVE RegistryLive'
  OBVIOUS
<1>1. CASE UNCHANGED <<timers, attendanceTimers>>
  BY <1>1 DEF RegistryLive
<1>2. ASSUME NEW r \in Requests, JoinArm(r) PROVE RegistryLive'
  <2> DEFINE u == requests[r].user
             s == requests[r].session
             cleared == Cleared(attendanceTimers[s][u])
             armed == [phase |-> "armed", user |-> u, session |-> s]
  <2>1. u \in Users /\ s \in Sessions
    BY <1>2 DEF JoinArm, BasicInv, RequestOK
  <2>2. PICK t \in Timers : /\ cleared[t] = FreeTimer
                            /\ timers' = [cleared EXCEPT ![t] = armed]
                            /\ attendanceTimers' = [attendanceTimers EXCEPT ![s][u] = t]
    BY <1>2 DEF JoinArm
  <2>3. cleared \in [Timers -> Timer]
    BY ClearedOK DEF BasicInv
  <2>4. ASSUME NEW z \in Sessions, NEW v \in Users, ~(z = s /\ v = u),
               attendanceTimers[z][v] # NoOne
        PROVE  /\ cleared[attendanceTimers[z][v]] = timers[attendanceTimers[z][v]]
               /\ attendanceTimers[z][v] # t
    <3>1. cleared[attendanceTimers[z][v]] = timers[attendanceTimers[z][v]]
      BY <2>1, <2>4, ClearedRegistry
    <3>2. timers[attendanceTimers[z][v]].phase # "free"
      BY <2>4 DEF RegistryLive
    <3>3. attendanceTimers[z][v] # t
      <4> HIDE DEF cleared
      <4> QED BY <2>2, <3>1, <3>2 DEF FreeTimer
    <3> QED BY <3>1, <3>3
  <2> HIDE DEF cleared, u, s
  <2>5. ASSUME NEW z \in Sessions, NEW v \in Users, attendanceTimers'[z][v] # NoOne
        PROVE  /\ timers'[attendanceTimers'[z][v]].phase # "free"
               /\ timers'[attendanceTimers'[z][v]].user = v
               /\ timers'[attendanceTimers'[z][v]].session = z
    <3>1. CASE z = s /\ v = u
      <4>1. attendanceTimers'[z][v] = t
        BY <2>1, <2>2, <3>1 DEF BasicInv, TypeOK
      <4>2. timers'[t] = armed
        BY <2>2, <2>3
      <4> QED BY <3>1, <4>1, <4>2
    <3>2. CASE ~(z = s /\ v = u)
      <4>1. attendanceTimers'[z][v] = attendanceTimers[z][v]
        BY <2>1, <2>2, <3>2 DEF BasicInv, TypeOK
      <4>2. attendanceTimers[z][v] \in Timers
        BY <2>5, <4>1 DEF BasicInv, TypeOK, Null
      <4>3. timers'[attendanceTimers[z][v]] = timers[attendanceTimers[z][v]]
        <5> HIDE DEF armed
        <5> QED BY <2>2, <2>3, <2>4, <2>5, <3>2, <4>1, <4>2
      <4> QED BY <2>5, <4>1, <4>3 DEF RegistryLive
    <3> QED BY <3>1, <3>2
  <2> QED BY <2>5 DEF RegistryLive
<1>3. ASSUME NEW k \in Sockets, Disconnect(k) PROVE RegistryLive'
  <2>1. CASE socketToUser[k] = NoOne
    BY <1>1, <1>3, <2>1 DEF Disconnect
  <2>2. CASE socketToUser[k] # NoOne
    <3> DEFINE u == socketToUser[k].user
               s == socketToUser[k].session
    <3>1. u \in Users /\ s \in Sessions
      BY <2>2, SocketType DEF BasicInv, TypeOK
    <3>2. /\ timers' = Cleared(attendanceTimers[s][u])
          /\ attendanceTimers' = [attendanceTimers EXCEPT ![s][u] = NoOne]
      BY <1>3, <2>2 DEF Disconnect
    <3> HIDE DEF u, s
    <3>3. \A z \in Sessions, v \in Users :
            ~(z = s /\ v = u) /\ attendanceTimers[z][v] # NoOne =>
              timers'[attendanceTimers[z][v]] = timers[attendanceTimers[z][v]]
      BY <3>1, <3>2, ClearedRegistry
    <3> QED BY <3>1, <3>2, <3>3, KeyDeleted
  <2> QED BY <2>1, <2>2
<1>4. ASSUME NEW t \in Timers, TimerFire(t) \/ TimerDone(t) PROVE RegistryLive'
  <2> DEFINE u == timers[t].user
             s == timers[t].session
  <2>1. u \in Users /\ s \in Sessions
    BY <1>4 DEF TimerFire, TimerDone, BasicInv, TimerOK
  <2>2. CASE /\ timers' = [timers EXCEPT ![t].phase = "marking"]
             /\ UNCHANGED attendanceTimers
    BY <2>2 DEF RegistryLive, BasicInv, TypeOK, Timer
  <2>3. CASE /\ timers' = [timers EXCEPT ![t] = FreeTimer]
             /\ attendanceTimers' = [attendanceTimers EXCEPT ![s][u] = NoOne]
    <3>1. ASSUME NEW z \in Sessions, NEW v \in Users, ~(z = s /\ v = u),
                 attendanceTimers[z][v] # NoOne
          PROVE  timers'[attendanceTimers[z][v]] = timers[attendanceTimers[z][v]]
      <4>1. attendanceTimers[z][v] \in Timers /\ attendanceTimers[z][v] # t
        BY <3>1 DEF RegistryLive, BasicInv, TypeOK, Null
      <4> QED BY <2>3, <4>1 DEF BasicInv, TypeOK
    <3> QED BY <2>1, <2>3, <3>1, KeyDeleted
  <2> QED BY <1>4, <2>2, <2>3 DEF TimerFire, TimerDone
<1>5. ASSUME NEW k \in Sockets, Receive(k) PROVE UNCHANGED <<timers, attendanceTimers>>
  BY <1>5 DEF Receive, LeaveRoom, StopScreenShare, JoinRoom, StartScreenShare, OpenCanvas,
              CloseCanvas, KickParticipant, timerVars
<1>6. ASSUME NEW r \in Requests, Resume(r)
      PROVE  UNCHANGED <<timers, attendanceTimers>> \/ JoinArm(r)
  BY <1>6 DEF Resume, JoinTrack, JoinRecord, JoinEnd, ResumeScreenShare,
              OpenCanvasAuthorized, ResumeOpenCanvas, OpenCanvasRefused,
              ResumeCloseCanvas, CloseCanvasFail, KickStopShare, KickRemove, KickFail,
              timerVars
<1>7. CASE UNCHANGED vars
  BY <1>1, <1>7 DEF vars
<1> QED BY <1>1, <1>2, <1>3, <1>4, <1>5, <1>6, <1>7 DEF Next

\* The timer registered for a user is a live one of that user and session, so
\* clearing it never cancels another's attendance.
THEOREM RegistryIsLive == Spec => []RegistryLive
<1>1. Init => RegistryLive
  BY DEF Init, RegistryLive
<1> QED BY <1>1, Basic, NextRegistry, PTL DEF Spec

\* The timers change when one is armed, when a disconnect clears one, and with their
\* own callbacks.
LEMMA TimersStep ==
  ASSUME [Next]_vars
  PROVE  \/ UNCHANGED <<timers, attendanceTimers>>
         \/ \E r \in Requests : JoinArm(r)
         \/ \E k \in Sockets : Disconnect(k) /\ socketToUser[k] # NoOne
         \/ \E t \in Timers : TimerFire(t) \/ TimerDone(t)
<1>1. ASSUME NEW k \in Sockets, Receive(k) PROVE UNCHANGED <<timers, attendanceTimers>>
  BY <1>1 DEF Receive, LeaveRoom, StopScreenShare, JoinRoom, StartScreenShare, OpenCanvas,
              CloseCanvas, KickParticipant, timerVars
<1>2. ASSUME NEW r \in Requests, Resume(r)
      PROVE  UNCHANGED <<timers, attendanceTimers>> \/ JoinArm(r)
  BY <1>2 DEF Resume, JoinTrack, JoinRecord, JoinEnd, ResumeScreenShare,
              OpenCanvasAuthorized, ResumeOpenCanvas, OpenCanvasRefused,
              ResumeCloseCanvas, CloseCanvasFail, KickStopShare, KickRemove, KickFail,
              timerVars
<1>3. ASSUME NEW k \in Sockets, Disconnect(k), socketToUser[k] = NoOne
      PROVE  UNCHANGED <<timers, attendanceTimers>>
  BY <1>3 DEF Disconnect
<1>4. CASE UNCHANGED vars
  BY <1>4 DEF vars
<1> QED BY <1>1, <1>2, <1>3, <1>4 DEF Next

LEMMA OrphanStep ==
  ASSUME BasicInv, [Next]_vars, NEW t \in Timers, ~Orphaned(t), Orphaned(t)'
  PROVE  \E d \in Timers \ {t} :
           /\ timers[d].user = timers[t].user /\ timers[d].session = timers[t].session
           /\ timers[d].phase = "marking" \/ Orphaned(d)
           /\ timers'[d] = FreeTimer
<1> USE DEF BasicInv, TypeOK
<1> DEFINE Lost == /\ timers'[t] = timers[t]
                   /\ attendanceTimers[timers[t].session][timers[t].user] = t
                   /\ attendanceTimers'[timers[t].session][timers[t].user] # t
<1>1. ASSUME timers'[t] = timers[t] PROVE Lost
  BY <1>1 DEF Orphaned
<1>2. ASSUME NEW r \in Requests, JoinArm(r) PROVE FALSE
  <2> DEFINE u == requests[r].user
             s == requests[r].session
             old == attendanceTimers[s][u]
             cleared == Cleared(old)
             armed == [phase |-> "armed", user |-> u, session |-> s]
  <2>1. u \in Users /\ s \in Sessions
    BY <1>2 DEF JoinArm, RequestOK
  <2>2. PICK n \in Timers : /\ timers' = [cleared EXCEPT ![n] = armed]
                            /\ attendanceTimers' = [attendanceTimers EXCEPT ![s][u] = n]
    BY <1>2 DEF JoinArm
  <2>3. cleared \in [Timers -> Timer]
    BY ClearedOK
  <2>4. cleared[t] = timers[t] \/ cleared[t] = FreeTimer
    BY DEF Cleared
  <2>5. t = old /\ timers[t].phase = "armed" => cleared[t] = FreeTimer
    BY DEF Cleared
  <2> HIDE DEF u, s, old, cleared
  <2>6. CASE t = n
    <3>1. timers'[t].user = u /\ timers'[t].session = s
      BY <2>2, <2>3, <2>6
    <3> QED BY <2>1, <2>2, <2>6, <3>1 DEF Orphaned
  <2>7. CASE t # n
    <3>1. timers'[t] = cleared[t]
      BY <2>2, <2>3, <2>7
    <3>2. cleared[t] # FreeTimer /\ timers'[t] = timers[t]
      BY <2>4, <3>1 DEF Orphaned, FreeTimer
    <3>3. Lost /\ timers[t].phase = "armed"
      BY <1>1, <3>2 DEF Orphaned
    <3>4. timers[t].session = s /\ timers[t].user = u
      BY <2>1, <2>2, <3>3 DEF TimerOK
    <3>5. t = old
      BY <3>3, <3>4 DEF old
    <3> QED BY <2>5, <3>2, <3>3, <3>5
  <2> QED BY <2>6, <2>7
<1>3. ASSUME NEW k \in Sockets, Disconnect(k), socketToUser[k] # NoOne PROVE FALSE
  <2> DEFINE u == socketToUser[k].user
             s == socketToUser[k].session
             old == attendanceTimers[s][u]
  <2>1. u \in Users /\ s \in Sessions
    BY <1>3, SocketType
  <2>2. /\ timers' = Cleared(old)
        /\ attendanceTimers' = [attendanceTimers EXCEPT ![s][u] = NoOne]
    BY <1>3 DEF Disconnect
  <2>3. timers'[t] = timers[t] \/ timers'[t] = FreeTimer
    BY <2>2 DEF Cleared
  <2>4. t = old /\ timers[t].phase = "armed" => timers'[t] = FreeTimer
    BY <2>2 DEF Cleared
  <2> HIDE DEF u, s, old
  <2>5. timers'[t] # FreeTimer /\ timers'[t] = timers[t]
    BY <2>3 DEF Orphaned, FreeTimer
  <2>6. Lost /\ timers[t].phase = "armed"
    BY <1>1, <2>5 DEF Orphaned
  <2>7. timers[t].session = s /\ timers[t].user = u
    BY <2>1, <2>2, <2>6 DEF TimerOK
  <2>8. t = old
    BY <2>6, <2>7 DEF old
  <2> QED BY <2>4, <2>5, <2>6, <2>8
<1>4. ASSUME NEW d \in Timers, TimerFire(d) \/ TimerDone(d)
      PROVE  /\ d # t
             /\ timers[d].user = timers[t].user /\ timers[d].session = timers[t].session
             /\ timers[d].phase = "marking" \/ Orphaned(d)
             /\ timers'[d] = FreeTimer
  <2> DEFINE u == timers[d].user
             s == timers[d].session
  <2>1. u \in Users /\ s \in Sessions
    BY <1>4 DEF TimerFire, TimerDone, TimerOK
  <2>2. \/ /\ timers' = [timers EXCEPT ![d].phase = "marking"]
           /\ UNCHANGED attendanceTimers
        \/ /\ timers' = [timers EXCEPT ![d] = FreeTimer]
           /\ attendanceTimers' = [attendanceTimers EXCEPT ![s][u] = NoOne]
    BY <1>4 DEF TimerFire, TimerDone
  <2>3. d # t
    BY <2>2 DEF Orphaned, FreeTimer, Timer
  <2>4. timers'[t] = timers[t]
    BY <2>2, <2>3
  <2>5. Lost /\ timers[t].phase = "armed"
    BY <1>1, <2>4 DEF Orphaned
  <2>6. timers' = [timers EXCEPT ![d] = FreeTimer]
        /\ attendanceTimers' = [attendanceTimers EXCEPT ![s][u] = NoOne]
    BY <2>2, <2>5
  <2> HIDE DEF u, s
  <2>7. timers[t].session = s /\ timers[t].user = u
    BY <2>1, <2>5, <2>6 DEF TimerOK
  <2>8. timers[d].phase = "armed" => Orphaned(d)
    BY <2>3, <2>5, <2>7 DEF Orphaned, u, s
  <2>9. timers[d].phase \in {"armed", "marking"}
    BY <1>4 DEF TimerFire, TimerDone
  <2> QED BY <2>3, <2>6, <2>7, <2>8, <2>9 DEF u, s
<1>5. ~UNCHANGED <<timers, attendanceTimers>>
  BY DEF Orphaned
<1> QED BY <1>2, <1>3, <1>4, <1>5, TimersStep

\* A timer loses its registration only to the end of another's callback, one of the
\* same user and session: one that was overtaken, or one that had lost its own so.
THEOREM OrphansNeedOverlap == Spec => OrphanNeedsOverlap
<1>1. BasicInv /\ [Next]_vars =>
        [\A t \in Timers :
           ~Orphaned(t) /\ Orphaned(t)' =>
             \E d \in Timers \ {t} :
               /\ timers[d].user = timers[t].user /\ timers[d].session = timers[t].session
               /\ timers[d].phase = "marking" \/ Orphaned(d)
               /\ timers'[d] = FreeTimer
        ]_vars
  BY OrphanStep
<1> QED BY <1>1, Basic, PTL DEF Spec, OrphanNeedsOverlap

-----------------------------------------------------------------------------
(* The attendance rows                                                     *)

\* What is recorded, for a user of a session.
Row(q) == attendance[q.session][q.user]

\* A join that is to set the timer has recorded the user, and so has, once, the join
\* that has set one: markAsAttended finds a row to update.
AttendanceInv ==
  /\ \A r \in Requests : requests[r].at = "recorded" => Row(requests[r]) # "none"
  /\ \A t \in Timers : timers[t].phase # "free" => Row(timers[t]) # "none"

Sheet == INSTANCE AttendanceSheet WITH Due <- MayEnter \cap Recorders, sheet <- attendance

\* A row is written by recordAttendance, or by the callback of a timer.
LEMMA SheetStep ==
  ASSUME BasicInv, AdmittedInv, [Next]_vars
  PROVE  [Sheet!Next]_attendance
<1> USE DEF BasicInv, TypeOK
<1>1. ASSUME NEW r \in Requests, JoinRecord(r) PROVE [Sheet!Next]_attendance
  <2> DEFINE u == requests[r].user
             s == requests[r].session
  <2>1. u \in Users /\ s \in Sessions /\ <<u, s>> \in MayEnter \cap Recorders
    BY <1>1 DEF JoinRecord, RequestOK, AdmittedInv, Admitted
  <2>2. attendance' = [attendance EXCEPT
                         ![s][u] = IF @ = "none" THEN "joined" ELSE @]
    BY <1>1 DEF JoinRecord
  <2> HIDE DEF u, s
  <2>3. CASE attendance[s][u] = "none"
    <3>1. Sheet!SignIn(u, s)
      BY <2>1, <2>2, <2>3 DEF Sheet!SignIn
    <3> QED BY <2>1, <3>1 DEF Sheet!Next
  <2>4. CASE attendance[s][u] # "none"
    <3>1. attendance' = attendance
      BY <2>1, <2>2, <2>4
    <3> QED BY <3>1
  <2> QED BY <2>3, <2>4
<1>2. ASSUME NEW t \in Timers, TimerDone(t) PROVE [Sheet!Next]_attendance
  <2> DEFINE u == timers[t].user
             s == timers[t].session
  <2>1. u \in Users /\ s \in Sessions
    BY <1>2 DEF TimerDone, TimerOK
  <2>2. \/ UNCHANGED attendance
        \/ attendance' = [attendance EXCEPT
                            ![s][u] = IF @ = "none" THEN @ ELSE "attended"]
    BY <1>2 DEF TimerDone
  <2> HIDE DEF u, s
  <2>3. CASE attendance[s][u] = "joined"
    <3>1. UNCHANGED attendance \/ Sheet!Mark(u, s)
      BY <2>1, <2>2, <2>3 DEF Sheet!Mark
    <3> QED BY <2>1, <3>1 DEF Sheet!Next
  <2>4. CASE attendance[s][u] # "joined"
    <3>1. attendance' = attendance
      BY <2>1, <2>2, <2>4
    <3> QED BY <3>1
  <2> QED BY <2>3, <2>4
<1>3. ASSUME NEW k \in Sockets, Receive(k) \/ Disconnect(k) PROVE UNCHANGED attendance
  BY <1>3 DEF Receive, LeaveRoom, StopScreenShare, JoinRoom, StartScreenShare, OpenCanvas,
              CloseCanvas, KickParticipant, Disconnect, timerVars
<1>4. ASSUME NEW r \in Requests, Resume(r) PROVE UNCHANGED attendance \/ JoinRecord(r)
  BY <1>4 DEF Resume, JoinTrack, JoinArm, JoinEnd, ResumeScreenShare,
              OpenCanvasAuthorized, ResumeOpenCanvas, OpenCanvasRefused,
              ResumeCloseCanvas, CloseCanvasFail, KickStopShare, KickRemove, KickFail,
              timerVars
<1>5. ASSUME NEW t \in Timers, TimerFire(t) PROVE UNCHANGED attendance
  BY <1>5 DEF TimerFire
<1>6. CASE UNCHANGED vars
  BY <1>6 DEF vars
<1> QED BY <1>1, <1>2, <1>3, <1>4, <1>5, <1>6 DEF Next

\* A row stays.
LEMMA RowsStay ==
  ASSUME BasicInv, [Sheet!Next]_attendance, NEW u \in Users, NEW s \in Sessions,
         attendance[s][u] # "none"
  PROVE  attendance'[s][u] # "none"
<1>1. attendance \in [Sessions -> [Users -> {"none", "joined", "attended"}]]
  BY DEF BasicInv, TypeOK
<1>2. ASSUME NEW v \in Users, NEW z \in Sessions, Sheet!SignIn(v, z) \/ Sheet!Mark(v, z)
      PROVE  attendance'[s][u] # "none"
  <2>1. PICK x \in {"joined", "attended"} : attendance' = [attendance EXCEPT ![z][v] = x]
    BY <1>2 DEF Sheet!SignIn, Sheet!Mark
  <2> QED BY <1>1, <2>1
<1> QED BY <1>2 DEF Sheet!Next

LEMMA NextAttendance ==
  BasicInv /\ BasicInv' /\ AdmittedInv /\ AttendanceInv /\ [Next]_vars => AttendanceInv'
<1> SUFFICES ASSUME BasicInv, BasicInv', AdmittedInv, AttendanceInv, [Next]_vars
             PROVE  AttendanceInv'
  OBVIOUS
<1>0. [Sheet!Next]_attendance
  BY SheetStep
<1>1. ASSUME NEW r \in Requests, requests'[r].at = "recorded"
      PROVE  Row(requests[r])' # "none"
  <2>1. /\ requests[r].at = "recorded" \/ JoinRecord(r)
        /\ requests'[r].user = requests[r].user /\ requests'[r].session = requests[r].session
        /\ requests[r].user \in Users /\ requests[r].session \in Sessions
    <3>1. ASSUME NEW q \in Requests, Resume(q), requests'[r] # requests[r]
          PROVE  JoinRecord(r)
      <4>1. \/ Finish(q) \/ GoTo(q, "tracked") \/ JoinRecord(q) \/ GoTo(q, "opening")
            \/ GoTo(q, "removing")
        BY <3>1 DEF Resume, JoinTrack, JoinArm, JoinEnd, ResumeScreenShare,
           OpenCanvasAuthorized, ResumeOpenCanvas, OpenCanvasRefused,
           ResumeCloseCanvas, CloseCanvasFail, KickStopShare, KickRemove, KickFail
      <4>2. JoinRecord(q) => GoTo(q, "recorded")
        BY DEF JoinRecord
      <4>3. q = r
        BY <3>1, <4>1, <4>2 DEF Finish, GoTo, BasicInv, TypeOK
      <4> QED BY <1>1, <4>1, <4>3 DEF Finish, GoTo, Idle, BasicInv, TypeOK, Request
    <3>2. ASSUME NEW k \in Sockets, Receive(k) PROVE requests'[r] = requests[r]
      <4>1. \/ UNCHANGED requests
            \/ \E q \in Requests,
                  step \in {"joining", "sharing", "authorizing", "saving", "kicking"} :
                 \E x, u, s, v : Start(q, step, x, u, s, v)
        BY <3>2 DEF Receive, LeaveRoom, StopScreenShare, JoinRoom, StartScreenShare,
           OpenCanvas, CloseCanvas, KickParticipant
      <4> QED BY <1>1, <4>1 DEF Start, BasicInv, TypeOK
    <3>3. ASSUME NEW k \in Sockets, Disconnect(k) PROVE requests'[r] = requests[r]
      BY <3>3 DEF Disconnect
    <3>4. ASSUME NEW t \in Timers, TimerFire(t) \/ TimerDone(t)
          PROVE  requests'[r] = requests[r]
      BY <3>4 DEF TimerFire, TimerDone
    <3>5. UNCHANGED vars => requests'[r] = requests[r]
      BY DEF vars
    <3>6. requests'[r] = requests[r] \/ JoinRecord(r)
      BY <3>1, <3>2, <3>3, <3>4, <3>5 DEF Next
    <3>7. CASE requests'[r] = requests[r]
      BY <1>1, <3>7 DEF BasicInv, RequestOK
    <3>8. CASE JoinRecord(r)
      BY <3>8 DEF JoinRecord, GoTo, BasicInv, TypeOK, RequestOK, Request
    <3> QED BY <3>6, <3>7, <3>8
  <2>2. CASE requests[r].at = "recorded"
    BY <1>0, <2>1, <2>2, RowsStay DEF AttendanceInv, Row
  <2>3. CASE JoinRecord(r)
    BY <2>1, <2>3 DEF JoinRecord, Row, BasicInv, TypeOK
  <2> QED BY <2>1, <2>2, <2>3
<1>2. ASSUME NEW t \in Timers, timers'[t].phase # "free"
      PROVE  Row(timers[t])' # "none"
  <2>1. CASE /\ timers[t].phase # "free"
             /\ timers'[t].user = timers[t].user /\ timers'[t].session = timers[t].session
    <3>1. timers[t].user \in Users /\ timers[t].session \in Sessions
      BY <2>1 DEF BasicInv, TimerOK
    <3> QED BY <1>0, <2>1, <3>1, RowsStay DEF AttendanceInv, Row
  <2>2. CASE timers'[t] = timers[t]
    BY <1>2, <2>1, <2>2
  <2>3. ASSUME NEW r \in Requests, JoinArm(r) PROVE Row(timers[t])' # "none"
    <3> DEFINE cleared == Cleared(attendanceTimers[requests[r].session][requests[r].user])
               armed == [phase |-> "armed", user |-> requests[r].user,
                         session |-> requests[r].session]
    <3>1. PICK n \in Timers : timers' = [cleared EXCEPT ![n] = armed]
      BY <2>3 DEF JoinArm
    <3>2. cleared \in [Timers -> Timer] /\ (cleared[t] = timers[t] \/ cleared[t] = FreeTimer)
      BY ClearedOK DEF Cleared, BasicInv
    <3> HIDE DEF cleared
    <3>3. CASE t # n
      BY <1>2, <2>2, <3>1, <3>2, <3>3 DEF FreeTimer
    <3>4. CASE t = n
      <4>1. timers'[t].user = requests[r].user /\ timers'[t].session = requests[r].session
        BY <3>1, <3>2, <3>4
      <4>2. Row(requests[r]) # "none" /\ attendance' = attendance
        BY <2>3 DEF JoinArm, AttendanceInv
      <4> QED BY <4>1, <4>2 DEF Row
    <3> QED BY <3>3, <3>4
  <2>4. ASSUME NEW k \in Sockets, Disconnect(k), socketToUser[k] # NoOne
        PROVE  Row(timers[t])' # "none"
    <3>1. timers'[t] = timers[t] \/ timers'[t] = FreeTimer
      BY <2>4 DEF Disconnect, Cleared, BasicInv, TypeOK
    <3> QED BY <1>2, <2>2, <3>1 DEF FreeTimer
  <2>5. ASSUME NEW d \in Timers, TimerFire(d) \/ TimerDone(d)
        PROVE  Row(timers[t])' # "none"
    <3>1. \/ timers' = [timers EXCEPT ![d].phase = "marking"] /\ timers[d].phase = "armed"
          \/ timers' = [timers EXCEPT ![d] = FreeTimer]
      BY <2>5 DEF TimerFire, TimerDone
    <3> QED BY <1>2, <2>1, <2>2, <3>1 DEF BasicInv, TypeOK, Timer, FreeTimer
  <2> QED BY <2>2, <2>3, <2>4, <2>5, TimersStep
<1> QED BY <1>1, <1>2 DEF AttendanceInv, Row

\* Only who may enter the session and is to be recorded ever has an attendance row;
\* it is marked after it was made, and nothing of it is taken back.
THEOREM AttendanceIsSheet == Spec => Sheet!Spec
<1>1. Init => Sheet!Init
  BY DEF Init, Sheet!Init
<1>2. BasicInv /\ AdmittedInv /\ [Next]_vars => [Sheet!Next]_attendance
  BY SheetStep
<1> QED BY <1>1, <1>2, Basic, InitAdmitted, NextAdmitted, PTL DEF Spec, Sheet!Spec

\* A timer runs only for who has a row: markAsAttended always finds one to update.
THEOREM TimersHaveRows ==
  Spec => [](\A t \in Timers :
               timers[t].phase # "free" => attendance[timers[t].session][timers[t].user] # "none")
<1>1. Init => AttendanceInv
  BY DEF Init, AttendanceInv, Idle, FreeTimer
<1>2. AttendanceInv =>
        \A t \in Timers :
          timers[t].phase # "free" => attendance[timers[t].session][timers[t].user] # "none"
  BY DEF AttendanceInv, Row
<1> QED BY <1>1, <1>2, Basic, InitAdmitted, NextAdmitted, NextAttendance, PTL DEF Spec

-----------------------------------------------------------------------------
(* Action properties of the roster                                         *)

\* A socket closes by its own disconnect only.
LEMMA ClosedByDisconnect ==
  ASSUME [Next]_vars, NEW k \in connected, k \notin connected'
  PROVE  Disconnect(k)
<1>1. ASSUME NEW r \in Requests, Resume(r) PROVE UNCHANGED connected
  BY <1>1 DEF Resume, JoinTrack, JoinRecord, JoinArm, JoinEnd, ResumeScreenShare,
              OpenCanvasAuthorized, ResumeOpenCanvas, OpenCanvasRefused,
              ResumeCloseCanvas, CloseCanvasFail, KickStopShare, KickRemove, KickFail
<1>2. ASSUME NEW j \in Sockets, Receive(j) PROVE UNCHANGED connected
  BY <1>2 DEF Receive, LeaveRoom, StopScreenShare, JoinRoom, StartScreenShare, OpenCanvas,
              CloseCanvas, KickParticipant
<1>3. ASSUME NEW j \in Sockets, Disconnect(j) PROVE k = j
  BY <1>3 DEF Disconnect
<1>4. ASSUME NEW t \in Timers, TimerFire(t) \/ TimerDone(t) PROVE UNCHANGED connected
  BY <1>4 DEF TimerFire, TimerDone
<1> QED BY <1>1, <1>2, <1>3, <1>4 DEF Next, vars

\* A disconnected socket is forgotten by the lookup map.
LEMMA DisconnectForgets ==
  ASSUME BasicInv, NEW k \in Sockets, Disconnect(k)
  PROVE  socketToUser'[k] = NoOne
<1>1. CASE socketToUser[k] = NoOne
  BY <1>1 DEF Disconnect, rosterVars
<1>2. CASE socketToUser[k] # NoOne
  <2>1. RemoveUserBySocket(k)
    BY <1>2 DEF Disconnect
  <2> QED BY <1>2, <2>1 DEF RemoveUserBySocket, BasicInv, TypeOK, RosterTypeOK
<1> QED BY <1>1, <1>2

LEMMA GhostStep ==
  ASSUME BasicInv, [Next]_vars, NEW k \in Sockets,
         socketToUser[k] = NoOne \/ k \in connected,
         socketToUser'[k] # NoOne, k \notin connected'
  PROVE  \E r \in Requests : /\ requests[r].at = "joining" /\ requests[r].socket = k
                             /\ requests'[r].at = "tracked"
<1> USE DEF BasicInv, TypeOK, RosterTypeOK
<1>1. k \notin connected
  BY ClosedByDisconnect, DisconnectForgets
<1>2. socketToUser[k] = NoOne
  BY <1>1
<1>3. ~UNCHANGED rosterVars
  BY <1>2 DEF rosterVars
<1>4. ASSUME NEW j \in Sockets, RemoveUserBySocket(j) PROVE FALSE
  BY <1>2, <1>4 DEF RemoveUserBySocket, rosterVars
<1>5. PICK r \in Requests : JoinTrack(r)
  BY <1>3, <1>4, RosterStep
<1>6. requests[r].socket = k
  BY <1>2, <1>5 DEF JoinTrack, AddUser
<1>7. requests[r].at = "joining" /\ requests'[r].at = "tracked"
  BY <1>5 DEF JoinTrack, GoTo, Request
<1> QED BY <1>6, <1>7

\* A closed socket comes to be tracked only by its own join-room, overtaken by the
\* disconnect.
THEOREM GhostsNeedOvertakenJoin == Spec => GhostNeedsOvertakenJoin
<1>1. BasicInv /\ [Next]_vars =>
        [\A k \in Sockets :
           /\ socketToUser[k] = NoOne \/ k \in connected
           /\ socketToUser'[k] # NoOne /\ k \notin connected'
           => \E r \in Requests : /\ requests[r].at = "joining" /\ requests[r].socket = k
                                 /\ requests'[r].at = "tracked"]_vars
  BY GhostStep
<1> QED BY <1>1, Basic, PTL DEF Spec, GhostNeedsOvertakenJoin

LEMMA KickStep ==
  ASSUME BasicInv, RosterInv, [Next]_vars, OneRoomPerSocket, NEW k \in Sockets,
         socketToUser[k] # NoOne, socketToUser'[k] = NoOne, requests' # requests
  PROVE  \E r \in Requests :
           /\ requests[r].at = "removing" /\ requests'[r] = Idle
           /\ socketToUser[k] = [user |-> requests[r].target, session |-> requests[r].session]
           /\ CanKick(requests[r].user, requests[r].target, requests[r].session)
<1> USE DEF BasicInv, TypeOK, RosterTypeOK
<1>1. ~UNCHANGED rosterVars
  BY DEF rosterVars
<1>2. ASSUME NEW r \in Requests, JoinTrack(r) PROVE FALSE
  <2>1. socketToUser' = [socketToUser EXCEPT ![requests[r].socket] =
                           [user |-> requests[r].user, session |-> requests[r].session]]
    BY <1>2 DEF JoinTrack, AddUser
  <2>2. requests[r].user \in Users /\ requests[r].session \in Sessions
    BY <1>2 DEF JoinTrack, RequestOK
  <2>3. [user |-> requests[r].user, session |-> requests[r].session] # NoOne
    BY <2>2, NoOneAssumption
  <2> QED BY <2>1, <2>3
<1>3. ASSUME NEW r \in Requests, Resume(r) PROVE UNCHANGED rosterVars \/ KickRemove(r)
  BY <1>2, <1>3 DEF Resume, JoinRecord, JoinArm, JoinEnd, ResumeScreenShare,
              OpenCanvasAuthorized, ResumeOpenCanvas, OpenCanvasRefused,
              ResumeCloseCanvas, CloseCanvasFail, KickStopShare, KickFail
<1>4. ASSUME NEW j \in Sockets, Receive(j) PROVE UNCHANGED rosterVars
  <2>1. ~LeaveRoom(j)
    BY DEF LeaveRoom
  <2> QED BY <1>4, <2>1 DEF Receive, StopScreenShare, JoinRoom, StartScreenShare, OpenCanvas,
              CloseCanvas, KickParticipant
<1>5. ASSUME NEW j \in Sockets, Disconnect(j) PROVE FALSE
  BY <1>5 DEF Disconnect
<1>6. ASSUME NEW t \in Timers, TimerFire(t) \/ TimerDone(t) PROVE FALSE
  BY <1>6 DEF TimerFire, TimerDone
<1>7. PICK r \in Requests : KickRemove(r)
  BY <1>1, <1>3, <1>4, <1>5, <1>6 DEF Next, vars
<1>8. PICK entry : entry = sessionUsers[requests[r].session][requests[r].target]
  OBVIOUS
<1>9. requests[r].session \in Sessions /\ requests[r].target \in Users
  BY <1>7 DEF KickRemove, RequestOK
<1>10. entry \in Sockets /\ RemoveUserBySocket(entry)
  BY <1>1, <1>7, <1>8, <1>9 DEF KickRemove
<1>11. k = entry
  BY <1>10 DEF RemoveUserBySocket, rosterVars
<1>12. socketToUser[k] = [user |-> requests[r].target, session |-> requests[r].session]
  BY <1>8, <1>9, <1>10, <1>11, NoOneAssumption DEF RosterInv, EntryBacked, IsConnected
<1> QED BY <1>7, <1>12 DEF KickRemove, Finish

\* As long as a socket joins one room, it leaves the roster by its own leave or
\* disconnect, or by a kick of its own user from its own session.
THEOREM KicksHitTarget == Spec => KickHitsTarget
<1>1. Init => RosterInv
  BY DEF Init, RosterInit, RosterInv, TrackedByJoin, EntryBacked, IsConnected
<1>2. BasicInv /\ RosterInv /\ [Next]_vars =>
        [\A k \in Sockets :
           /\ OneRoomPerSocket
           /\ socketToUser[k] # NoOne /\ socketToUser'[k] = NoOne
           => \/ k \notin connected'
              \/ requests' = requests
              \/ \E r \in Requests :
                   /\ requests[r].at = "removing" /\ requests'[r] = Idle
                   /\ socketToUser[k] = [user |-> requests[r].target,
                                         session |-> requests[r].session]
                   /\ CanKick(requests[r].user, requests[r].target, requests[r].session)]_vars
  BY KickStep
<1> QED BY <1>1, <1>2, Basic, NextRoster, PTL DEF Spec, KickHitsTarget

-----------------------------------------------------------------------------
(* Action properties of the stage                                          *)

\* The screen passes to somebody by start-screen-share only.
LEMMA ScreenTaken ==
  ASSUME BasicInv, [Next]_vars, NEW s \in Sessions,
         activeScreenSharers'[s] \notin {NoOne, activeScreenSharers[s]}
  PROVE  \E r \in Requests :
           \/ /\ ResumeScreenShare(r) /\ requests[r].session = s
              /\ requests'[r] = Idle /\ activeScreenSharers'[s] = requests[r].user
           \/ /\ \E k \in Sockets : StartScreenShare(r, k) /\ socketToUser[k].session = s
              /\ activeScreenSharers[s] = NoOne
              /\ UNCHANGED activeCanvasSessions
              /\ ~(activeCanvasSessions[s] # NoOne /\ IsReachable(activeCanvasSessions[s], s))
<1> USE DEF BasicInv, TypeOK
<1>1. ASSUME NEW z \in Sessions, Released(z) PROVE FALSE
  BY <1>1 DEF Released
<1>2. ASSUME NEW u, NEW z \in Sessions,
             activeScreenSharers' = WithoutHolder(activeScreenSharers, u, z)
      PROVE  FALSE
  BY <1>1, <1>2, WithoutHolderReleases
<1>3. ASSUME NEW k \in Sockets, Disconnect(k) PROVE FALSE
  BY <1>2, <1>3, SocketType DEF Disconnect, stageVars
<1>4. ASSUME NEW k \in Sockets, LeaveRoom(k) \/ StopScreenShare(k) PROVE FALSE
  BY <1>1, <1>2, <1>4, SocketType DEF LeaveRoom, StopScreenShare, Released
<1>5. ASSUME NEW k \in Sockets, Receive(k) PROVE \E r \in Requests : StartScreenShare(r, k)
  BY <1>4, <1>5 DEF Receive, JoinRoom, OpenCanvas, CloseCanvas, KickParticipant, stageVars
<1>6. ASSUME NEW r \in Requests, OpenCanvasAuthorized(r) \/ KickStopShare(r) PROVE FALSE
  <2>1. requests[r].session \in Sessions
    BY <1>6 DEF OpenCanvasAuthorized, KickStopShare, RequestOK
  <2> QED BY <1>1, <1>2, <1>6, <2>1 DEF OpenCanvasAuthorized, KickStopShare, Released
<1>7. ASSUME NEW r \in Requests, Resume(r) PROVE ResumeScreenShare(r)
  BY <1>6, <1>7 DEF Resume, JoinTrack, JoinRecord, JoinArm, JoinEnd, ResumeOpenCanvas,
                OpenCanvasRefused, ResumeCloseCanvas, CloseCanvasFail, KickRemove,
                KickFail, stageVars
<1>8. ASSUME NEW t \in Timers, TimerFire(t) \/ TimerDone(t) PROVE FALSE
  BY <1>8 DEF TimerFire, TimerDone, stageVars
<1>9. ASSUME NEW r \in Requests, ResumeScreenShare(r)
      PROVE  /\ requests[r].session = s /\ requests'[r] = Idle
             /\ activeScreenSharers'[s] = requests[r].user
  BY <1>9 DEF ResumeScreenShare, Finish
<1>10. ASSUME NEW r \in Requests, NEW k \in Sockets, StartScreenShare(r, k)
       PROVE  /\ socketToUser[k].session = s /\ activeScreenSharers[s] = NoOne
              /\ UNCHANGED activeCanvasSessions
              /\ ~(activeCanvasSessions[s] # NoOne /\ IsReachable(activeCanvasSessions[s], s))
  <2>1. PICK u, z : u = socketToUser[k].user /\ z = socketToUser[k].session
    OBVIOUS
  <2>2. /\ activeScreenSharers[z] \in {NoOne, u}
        /\ activeScreenSharers' = [activeScreenSharers EXCEPT ![z] = u]
        /\ UNCHANGED activeCanvasSessions
        /\ ~(activeCanvasSessions[z] # NoOne /\ IsReachable(activeCanvasSessions[z], z))
    BY <1>10, <2>1 DEF StartScreenShare
  <2>3. z = s
    BY <2>2
  <2> QED BY <2>1, <2>2, <2>3
<1> QED BY <1>3, <1>5, <1>7, <1>8, <1>9, <1>10 DEF Next, vars

\* A share passes from one user to another only in a start-screen-share that had been
\* suspended while it closed the canvas.
THEOREM SharesStolenOnlyAfterCanvas == Spec => ShareStolenOnlyAfterCanvas
<1>1. BasicInv /\ [Next]_vars =>
        [\A s \in Sessions :
           /\ activeScreenSharers[s] # NoOne
           /\ activeScreenSharers'[s] \notin {NoOne, activeScreenSharers[s]}
           => \E r \in Requests : /\ requests[r].at = "sharing" /\ requests'[r] = Idle
                                 /\ requests[r].session = s
                                 /\ requests[r].user = activeScreenSharers'[s]]_vars
  BY ScreenTaken DEF ResumeScreenShare
<1> QED BY <1>1, Basic, PTL DEF Spec, ShareStolenOnlyAfterCanvas

\* The canvas passes to somebody by open-canvas only.
LEMMA CanvasTaken ==
  ASSUME BasicInv, [Next]_vars, NEW s \in Sessions,
         activeCanvasSessions'[s] \notin {NoOne, activeCanvasSessions[s]}
  PROVE  \E r \in Requests :
           /\ requests[r].session = s /\ requests'[r] = Idle /\ UNCHANGED activeScreenSharers
           /\ \/ requests[r].at = "opening"
              \/ ~(activeScreenSharers[s] # NoOne /\ IsReachable(activeScreenSharers[s], s))
<1> USE DEF BasicInv, TypeOK
<1>1. ASSUME NEW z \in Sessions, Closed(z) PROVE FALSE
  BY <1>1 DEF Closed
<1>2. PICK r \in Requests : OpenCanvasAuthorized(r) \/ ResumeOpenCanvas(r)
  <2>1. ASSUME NEW k \in Sockets, Disconnect(k) PROVE FALSE
    BY <2>1, SocketType DEF Disconnect, stageVars, WithoutHolder
  <2>2. ASSUME NEW k \in Sockets, Receive(k) PROVE FALSE
    <3>1. socketToUser[k] # NoOne => socketToUser[k].session \in Sessions
      BY SocketType
    <3> QED BY <2>2, <3>1 DEF Receive, LeaveRoom, StopScreenShare, JoinRoom, StartScreenShare,
                OpenCanvas, CloseCanvas, KickParticipant, stageVars
  <2>3. ASSUME NEW q \in Requests, Resume(q)
        PROVE  OpenCanvasAuthorized(q) \/ ResumeOpenCanvas(q)
    <3>1. ~ResumeCloseCanvas(q)
      BY DEF ResumeCloseCanvas
    <3> QED BY <2>3, <3>1 DEF Resume, JoinTrack, JoinRecord, JoinArm, JoinEnd,
                ResumeScreenShare, OpenCanvasRefused, CloseCanvasFail, KickStopShare,
                KickRemove, KickFail, stageVars
  <2>4. ASSUME NEW t \in Timers, TimerFire(t) \/ TimerDone(t) PROVE FALSE
    BY <2>4 DEF TimerFire, TimerDone, stageVars
  <2> QED BY <2>1, <2>2, <2>3, <2>4 DEF Next, vars
<1>3. PICK u, z : u = requests[r].user /\ z = requests[r].session
  OBVIOUS
<1>4. ServiceOpenCanvas(u, z) /\ Finish(r) /\ UNCHANGED activeScreenSharers
      /\ \/ requests[r].at = "opening"
         \/ ~(activeScreenSharers[z] # NoOne /\ IsReachable(activeScreenSharers[z], z))
  BY <1>2, <1>3 DEF OpenCanvasAuthorized, ResumeOpenCanvas
<1>5. z = s
  BY <1>4 DEF ServiceOpenCanvas
<1> QED BY <1>3, <1>4, <1>5 DEF Finish

LEMMA ConflictStep ==
  ASSUME BasicInv, [Next]_vars, NEW s \in Sessions, ~BothActive(s), BothActive(s)'
  PROVE  \/ \E r \in Requests : /\ requests[r].at \in {"sharing", "opening"}
                                /\ requests[r].session = s
                                /\ requests'[r] = Idle
         \/ activeScreenSharers[s] # NoOne /\ ~IsReachable(activeScreenSharers[s], s)
         \/ activeCanvasSessions[s] # NoOne /\ ~IsReachable(activeCanvasSessions[s], s)
<1>1. activeScreenSharers'[s] # NoOne /\ activeCanvasSessions'[s] # NoOne
  BY DEF BothActive
<1>2. CASE activeScreenSharers[s] = NoOne
  BY <1>1, <1>2, ScreenTaken DEF ResumeScreenShare
<1>3. CASE activeCanvasSessions[s] = NoOne
  BY <1>1, <1>3, CanvasTaken
<1> QED BY <1>2, <1>3 DEF BothActive

\* Screen and canvas come to be used together only in a handler that was suspended after
\* it freed the other tool, or beside an owner that is not on the roster.
THEOREM ConflictsNeedOverlap == Spec => ConflictNeedsOverlap
<1>1. BasicInv /\ [Next]_vars =>
        [\A s \in Sessions :
           ~BothActive(s) /\ BothActive(s)' =>
             \/ \E r \in Requests : /\ requests[r].at \in {"sharing", "opening"}
                                    /\ requests[r].session = s
                                    /\ requests'[r] = Idle
             \/ activeScreenSharers[s] # NoOne /\ ~IsReachable(activeScreenSharers[s], s)
             \/ activeCanvasSessions[s] # NoOne /\ ~IsReachable(activeCanvasSessions[s], s)]_vars
  BY ConflictStep
<1> QED BY <1>1, Basic, PTL DEF Spec, ConflictNeedsOverlap
=============================================================================

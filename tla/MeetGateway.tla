----------------------------- MODULE MeetGateway -----------------------------
(***************************************************************************)
(* The live meeting room: MeetGateway's Socket.IO handlers over the state  *)
(* that MeetService and ConnectedUsersManager keep in memory.              *)
(*                                                                         *)
(* Node runs one handler at a time, but a handler that awaits (a query, a  *)
(* LiveKit call) is suspended, and any other handler, disconnect or timer  *)
(* runs in between.  A suspended handler is a slot of requests: what it    *)
(* remembers, and where it will go on.  Code between two awaits is one     *)
(* action.  Awaits that nothing reads or writes shared state around are    *)
(* merged into one.                                                        *)
(***************************************************************************)
EXTENDS ConnectedUsers

CONSTANTS
  Requests,      \* slots for suspended handlers: how many may overlap
  Timers,        \* handles of setTimeout
  JoinRequests,  \* the <<socket, user, session>> of the join-room messages clients send
  MayEnter,      \* <<user, session>> that validateUserSessionAccess lets in
  Teachers,      \* <<user, session>> that isTeacherInSession accepts
  Recorders,     \* <<user, session>> whose attendance recordAttendance records
  Admins,        \* users with role ADMIN
  Students,      \* users with role STUDENT
  Failures       \* whether a query or a LiveKit call may fail

ASSUME GatewayAssumption ==
  /\ JoinRequests \subseteq Sockets \X Users \X Sessions
  /\ MayEnter \subseteq Users \X Sessions
  /\ Teachers \subseteq Users \X Sessions
  /\ Recorders \subseteq Users \X Sessions
  /\ Admins \subseteq Users
  /\ Students \subseteq Users
  /\ Failures \in BOOLEAN
  /\ NoOne \notin Timers

VARIABLES
  connected,             \* sockets whose transport is open
  activeScreenSharers,   \* session -> the user who shares the screen
  activeCanvasSessions,  \* session -> the user who has the canvas open
  attendanceTimers,      \* session -> user -> the registered timer
  timers,                \* what each handle's callback is for, and its phase
  attendance,            \* the SessionAttendance row of a user in a session
  requests               \* suspended handlers

stageVars == <<activeScreenSharers, activeCanvasSessions>>
timerVars == <<attendanceTimers, timers, attendance>>
vars == <<sessionUsers, socketToUser, connected, activeScreenSharers,
          activeCanvasSessions, attendanceTimers, timers, attendance, requests>>

Null(S) == S \cup {NoOne}

Idle == [at |-> "idle", socket |-> NoOne, user |-> NoOne, session |-> NoOne,
         target |-> NoOne]

\* Where a suspended handler is:
\*   joining     join-room, validating the token, the session and the access
\*   tracked     join-room, after addConnectedUser
\*   recorded    join-room, the attendance row is written
\*   sharing     start-screen-share, telling LiveKit that the canvas is closed
\*   authorizing open-canvas, in isTeacherInSession
\*   opening     open-canvas, telling LiveKit that the screen share is stopped
\*   saving      close-canvas, in saveCanvasState
\*   kicking     kick-participant, reading the two users
\*   removing    kick-participant, in canKickParticipant and removeParticipant
Steps == {"idle", "joining", "tracked", "recorded", "sharing", "authorizing",
          "opening", "saving", "kicking", "removing"}

Request == [at : Steps, socket : Null(Sockets), user : Null(Users),
            session : Null(Sessions), target : Null(Users)]

FreeTimer == [phase |-> "free", user |-> NoOne, session |-> NoOne]
Timer == [phase : {"free", "armed", "marking"}, user : Null(Users),
          session : Null(Sessions)]

TypeOK ==
  /\ RosterTypeOK
  /\ connected \subseteq Sockets
  /\ activeScreenSharers \in [Sessions -> Null(Users)]
  /\ activeCanvasSessions \in [Sessions -> Null(Users)]
  /\ attendanceTimers \in [Sessions -> [Users -> Null(Timers)]]
  /\ timers \in [Timers -> Timer]
  /\ attendance \in [Sessions -> [Users -> {"none", "joined", "attended"}]]
  /\ requests \in [Requests -> Request]

Init ==
  /\ RosterInit
  /\ connected = Sockets
  /\ activeScreenSharers = [s \in Sessions |-> NoOne]
  /\ activeCanvasSessions = [s \in Sessions |-> NoOne]
  /\ attendanceTimers = [s \in Sessions |-> [u \in Users |-> NoOne]]
  /\ timers = [t \in Timers |-> FreeTimer]
  /\ attendance = [s \in Sessions |-> [u \in Users |-> "none"]]
  /\ requests = [r \in Requests |-> Idle]

-----------------------------------------------------------------------------
(* Suspending, resuming and ending a handler.                              *)

Start(r, step, k, u, s, v) ==
  /\ requests[r] = Idle
  /\ requests' = [requests EXCEPT ![r] = [at |-> step, socket |-> k, user |-> u,
                                          session |-> s, target |-> v]]

GoTo(r, step) == requests' = [requests EXCEPT ![r].at = step]
Finish(r) == requests' = [requests EXCEPT ![r] = Idle]

-----------------------------------------------------------------------------
(* Mutated forms of handlers, each with the slip its name says.  The runs    *)
(* show that a property fails with one in the place of the handler.          *)

Disconnect_Forgotten(k) ==
  /\ k \in connected
  /\ connected' = connected \ {k}
  /\ UNCHANGED <<rosterVars, stageVars, timerVars, requests>>

TimerFire_OnlyAbsent(t) ==
  /\ timers[t].phase = "armed"
  /\ IF IsConnected(timers[t].user, timers[t].session)
     THEN /\ timers' = [timers EXCEPT ![t] = FreeTimer]
          /\ attendanceTimers' =
               [attendanceTimers EXCEPT ![timers[t].session][timers[t].user] = NoOne]
     ELSE /\ timers' = [timers EXCEPT ![t].phase = "marking"]
          /\ UNCHANGED attendanceTimers
  /\ UNCHANGED <<rosterVars, connected, stageVars, attendance, requests>>

TimerDone_KeepsKey(t) ==
  /\ timers[t].phase = "marking"
  /\ attendance' = [attendance EXCEPT ![timers[t].session][timers[t].user] = "attended"]
  /\ timers' = [timers EXCEPT ![t] = FreeTimer]
  /\ UNCHANGED <<rosterVars, connected, stageVars, attendanceTimers, requests>>

JoinArm_KeepsOld(r) ==
  LET u == requests[r].user
      s == requests[r].session
  IN /\ requests[r].at = "recorded"
     /\ \E t \in Timers :
          /\ timers[t] = FreeTimer
          /\ timers' = [timers EXCEPT ![t] = [phase |-> "armed", user |-> u, session |-> s]]
          /\ attendanceTimers' = [attendanceTimers EXCEPT ![s][u] = t]
     /\ Finish(r)
     /\ UNCHANGED <<rosterVars, connected, stageVars, attendance>>

StartScreenShare_KeepsCanvas(r, k) ==
  /\ k \in connected
  /\ socketToUser[k] # NoOne
  /\ activeScreenSharers[socketToUser[k].session] \in {NoOne, socketToUser[k].user}
  /\ activeScreenSharers' =
       [activeScreenSharers EXCEPT ![socketToUser[k].session] = socketToUser[k].user]
  /\ UNCHANGED <<rosterVars, connected, activeCanvasSessions, timerVars, requests>>

StartScreenShare_Steals(r, k) ==
  /\ k \in connected
  /\ socketToUser[k] # NoOne
  /\ activeCanvasSessions[socketToUser[k].session] = NoOne
  /\ activeScreenSharers' =
       [activeScreenSharers EXCEPT ![socketToUser[k].session] = socketToUser[k].user]
  /\ UNCHANGED <<rosterVars, connected, activeCanvasSessions, timerVars, requests>>

ServiceOpenCanvas_Unchecked(u, s) ==
  activeCanvasSessions' = [activeCanvasSessions EXCEPT ![s] = u]

KickRemove_Unauthorized(r) ==
  LET entry == sessionUsers[requests[r].session][requests[r].target]
  IN /\ requests[r].at = "removing"
     /\ IF entry = NoOne THEN UNCHANGED rosterVars ELSE RemoveUserBySocket(entry)
     /\ Finish(r)
     /\ UNCHANGED <<connected, stageVars, timerVars>>

-----------------------------------------------------------------------------
(* join-room                                                               *)

JoinRoom(r, k, u, s) ==
  /\ k \in connected
  /\ <<k, u, s>> \in JoinRequests
  /\ Start(r, "joining", k, u, s, NoOne)
  /\ UNCHANGED <<rosterVars, connected, stageVars, timerVars>>

\* The validations passed: client.join and addConnectedUser run, whether or not
\* the socket is still open.
JoinTrack(r) ==
  /\ requests[r].at = "joining"
  /\ <<requests[r].user, requests[r].session>> \in MayEnter
  /\ AddUser(requests[r].socket, requests[r].user, requests[r].session)
  /\ GoTo(r, "tracked")
  /\ UNCHANGED <<connected, stageVars, timerVars>>

\* recordAttendance: a row is created, or the one of an earlier join kept.
JoinRecord(r) ==
  LET u == requests[r].user
      s == requests[r].session
  IN /\ requests[r].at = "tracked"
     /\ <<u, s>> \in Recorders
     /\ attendance' = [attendance EXCEPT ![s][u] = IF @ = "none" THEN "joined" ELSE @]
     /\ GoTo(r, "recorded")
     /\ UNCHANGED <<rosterVars, connected, stageVars, attendanceTimers, timers>>

\* clearTimeout: an armed timer never fires, one whose callback has started is
\* not stopped.
Cleared(t) == IF t \in Timers /\ timers[t].phase = "armed"
              THEN [timers EXCEPT ![t] = FreeTimer] ELSE timers

\* The five minute timer is set, the registered one cleared first.
JoinArm(r) ==
  LET u == requests[r].user
      s == requests[r].session
      cleared == Cleared(attendanceTimers[s][u])
  IN /\ requests[r].at = "recorded"
     /\ \E t \in Timers :
          /\ cleared[t] = FreeTimer
          /\ timers' = [cleared EXCEPT ![t] = [phase |-> "armed", user |-> u, session |-> s]]
          /\ attendanceTimers' = [attendanceTimers EXCEPT ![s][u] = t]
     /\ Finish(r)
     /\ UNCHANGED <<rosterVars, connected, stageVars, attendance>>

\* join-room-error before the user is tracked; or, with the user tracked for
\* good, the LiveKit credentials fail (join-room-error) or the attendance is
\* not recorded (join-room-success without a timer).
JoinEnd(r) ==
  LET who == <<requests[r].user, requests[r].session>>
  IN /\ \/ requests[r].at = "joining" /\ (Failures \/ who \notin MayEnter)
        \/ requests[r].at = "tracked" /\ (Failures \/ who \notin Recorders)
     /\ Finish(r)
     /\ UNCHANGED <<rosterVars, connected, stageVars, timerVars>>

-----------------------------------------------------------------------------
(* leave-room and disconnect                                               *)

\* clearScreenShareOnUserLeave, clearCanvasOnUserLeave.
WithoutHolder(holders, u, s) == [holders EXCEPT ![s] = IF @ = u THEN NoOne ELSE @]

LeaveRoom(k) ==
  /\ k \in connected
  /\ socketToUser[k] # NoOne
  /\ activeScreenSharers' = WithoutHolder(activeScreenSharers, socketToUser[k].user,
                                          socketToUser[k].session)
  /\ RemoveUserBySocket(k)
  /\ UNCHANGED <<connected, activeCanvasSessions, timerVars, requests>>

Disconnect(k) ==
  /\ k \in connected
  /\ connected' = connected \ {k}
  /\ IF socketToUser[k] = NoOne
     THEN UNCHANGED <<rosterVars, stageVars, attendanceTimers, timers>>
     ELSE LET u == socketToUser[k].user
              s == socketToUser[k].session
          IN /\ RemoveUserBySocket(k)
             /\ activeScreenSharers' = WithoutHolder(activeScreenSharers, u, s)
             /\ activeCanvasSessions' = WithoutHolder(activeCanvasSessions, u, s)
             /\ timers' = Cleared(attendanceTimers[s][u])
             /\ attendanceTimers' = [attendanceTimers EXCEPT ![s][u] = NoOne]
  /\ UNCHANGED <<attendance, requests>>

-----------------------------------------------------------------------------
(* The attendance timer                                                    *)

\* The callback starts: it marks only a user it finds in the session.
TimerFire(t) ==
  LET u == timers[t].user
      s == timers[t].session
  IN /\ timers[t].phase = "armed"
     /\ IF IsConnected(u, s)
        THEN /\ timers' = [timers EXCEPT ![t].phase = "marking"]
             /\ UNCHANGED attendanceTimers
        ELSE /\ timers' = [timers EXCEPT ![t] = FreeTimer]
             /\ attendanceTimers' = [attendanceTimers EXCEPT ![s][u] = NoOne]
     /\ UNCHANGED <<rosterVars, connected, stageVars, attendance, requests>>

\* markAsAttended has returned (it swallows its errors); the finally clause
\* deletes the key, whichever timer is registered under it now.
TimerDone(t) ==
  LET u == timers[t].user
      s == timers[t].session
  IN /\ timers[t].phase = "marking"
     /\ \/ attendance' = [attendance EXCEPT ![s][u] = IF @ = "none" THEN @ ELSE "attended"]
        \/ Failures /\ UNCHANGED attendance
     /\ timers' = [timers EXCEPT ![t] = FreeTimer]
     /\ attendanceTimers' = [attendanceTimers EXCEPT ![s][u] = NoOne]
     /\ UNCHANGED <<rosterVars, connected, stageVars, requests>>

-----------------------------------------------------------------------------
(* The screen                                                              *)

\* start-screen-share: refused while another user shares; an open canvas whose
\* owner can be reached is closed first, and the handler suspended.
StartScreenShare(r, k) ==
  /\ k \in connected
  /\ socketToUser[k] # NoOne
  /\ LET u == socketToUser[k].user
         s == socketToUser[k].session
     IN /\ activeScreenSharers[s] \in {NoOne, u}
        /\ IF activeCanvasSessions[s] # NoOne /\ IsReachable(activeCanvasSessions[s], s)
           THEN /\ activeCanvasSessions' = [activeCanvasSessions EXCEPT ![s] = NoOne]
                /\ Start(r, "sharing", NoOne, u, s, NoOne)
                /\ UNCHANGED activeScreenSharers
           ELSE /\ activeScreenSharers' = [activeScreenSharers EXCEPT ![s] = u]
                /\ UNCHANGED <<activeCanvasSessions, requests>>
  /\ UNCHANGED <<rosterVars, connected, timerVars>>

\* A failed LiveKit broadcast is only logged: the handler goes on either way.
ResumeScreenShare(r) ==
  /\ requests[r].at = "sharing"
  /\ activeScreenSharers' =
       [activeScreenSharers EXCEPT ![requests[r].session] = requests[r].user]
  /\ Finish(r)
  /\ UNCHANGED <<rosterVars, connected, activeCanvasSessions, timerVars>>

StopScreenShare(k) ==
  /\ k \in connected
  /\ socketToUser[k] # NoOne
  /\ activeScreenSharers[socketToUser[k].session] = socketToUser[k].user
  /\ activeScreenSharers' =
       [activeScreenSharers EXCEPT ![socketToUser[k].session] = NoOne]
  /\ UNCHANGED <<rosterVars, connected, activeCanvasSessions, timerVars, requests>>

-----------------------------------------------------------------------------
(* The canvas                                                              *)

OpenCanvas(r, k) ==
  /\ k \in connected
  /\ socketToUser[k] # NoOne
  /\ Start(r, "authorizing", NoOne, socketToUser[k].user, socketToUser[k].session, NoOne)
  /\ UNCHANGED <<rosterVars, connected, stageVars, timerVars>>

\* MeetService.openCanvas up to its first await: check and set in one go.
ServiceOpenCanvas(u, s) ==
  activeCanvasSessions' = [activeCanvasSessions EXCEPT ![s] = IF @ = NoOne THEN u ELSE @]

\* A screen share whose owner can be reached is stopped first, and the handler
\* suspended again; without one the canvas is opened at once.
OpenCanvasAuthorized(r) ==
  LET u == requests[r].user
      s == requests[r].session
  IN /\ requests[r].at = "authorizing"
     /\ <<u, s>> \in Teachers
     /\ IF activeScreenSharers[s] # NoOne /\ IsReachable(activeScreenSharers[s], s)
        THEN /\ activeScreenSharers' = [activeScreenSharers EXCEPT ![s] = NoOne]
             /\ GoTo(r, "opening")
             /\ UNCHANGED activeCanvasSessions
        ELSE /\ ServiceOpenCanvas(u, s)
             /\ Finish(r)
             /\ UNCHANGED activeScreenSharers
     /\ UNCHANGED <<rosterVars, connected, timerVars>>

ResumeOpenCanvas(r) ==
  /\ requests[r].at = "opening"
  /\ ServiceOpenCanvas(requests[r].user, requests[r].session)
  /\ Finish(r)
  /\ UNCHANGED <<rosterVars, connected, activeScreenSharers, timerVars>>

\* isTeacherInSession says no; its errors count as no.
OpenCanvasRefused(r) ==
  /\ requests[r].at = "authorizing"
  /\ Failures \/ <<requests[r].user, requests[r].session>> \notin Teachers
  /\ Finish(r)
  /\ UNCHANGED <<rosterVars, connected, stageVars, timerVars>>

\* close-canvas by the canvas's owner: without a drawing to save it is closed
\* at once, with one the handler is suspended in saveCanvasState.
CloseCanvas(r, k) ==
  /\ k \in connected
  /\ socketToUser[k] # NoOne
  /\ LET u == socketToUser[k].user
         s == socketToUser[k].session
     IN /\ activeCanvasSessions[s] = u
        /\ \/ /\ activeCanvasSessions' = [activeCanvasSessions EXCEPT ![s] = NoOne]
              /\ UNCHANGED requests
           \/ /\ Start(r, "saving", NoOne, u, s, NoOne)
              /\ UNCHANGED activeCanvasSessions
  /\ UNCHANGED <<rosterVars, connected, activeScreenSharers, timerVars>>

\* The drawing is saved: the canvas is closed, whoever has it by now.
ResumeCloseCanvas(r) ==
  /\ requests[r].at = "saving"
  /\ activeCanvasSessions' = [activeCanvasSessions EXCEPT ![requests[r].session] = NoOne]
  /\ Finish(r)
  /\ UNCHANGED <<rosterVars, connected, activeScreenSharers, timerVars>>

CloseCanvasFail(r) ==
  /\ Failures
  /\ requests[r].at = "saving"
  /\ Finish(r)
  /\ UNCHANGED <<rosterVars, connected, stageVars, timerVars>>

-----------------------------------------------------------------------------
(* kick-participant                                                        *)

\* An admin may kick anyone, a teacher of the session a student.
CanKick(u, v, s) == u \in Admins \/ (<<u, s>> \in Teachers /\ v \in Students)

KickParticipant(r, k, v) ==
  /\ k \in connected
  /\ socketToUser[k] # NoOne
  /\ Start(r, "kicking", NoOne, socketToUser[k].user, socketToUser[k].session, v)
  /\ UNCHANGED <<rosterVars, connected, stageVars, timerVars>>

\* The target's screen share is stopped before anyone has checked that the
\* requester may kick.
KickStopShare(r) ==
  /\ requests[r].at = "kicking"
  /\ activeScreenSharers' = WithoutHolder(activeScreenSharers, requests[r].target,
                                          requests[r].session)
  /\ GoTo(r, "removing")
  /\ UNCHANGED <<rosterVars, connected, activeCanvasSessions, timerVars>>

\* Authorized, and out of the LiveKit room: the socket found in the session's
\* map, if any, is forgotten.
KickRemove(r) ==
  LET entry == sessionUsers[requests[r].session][requests[r].target]
  IN /\ requests[r].at = "removing"
     /\ CanKick(requests[r].user, requests[r].target, requests[r].session)
     /\ IF entry = NoOne THEN UNCHANGED rosterVars ELSE RemoveUserBySocket(entry)
     /\ Finish(r)
     /\ UNCHANGED <<connected, stageVars, timerVars>>

KickFail(r) ==
  /\ \/ Failures /\ requests[r].at \in {"kicking", "removing"}
     \/ /\ requests[r].at = "removing"
        /\ ~CanKick(requests[r].user, requests[r].target, requests[r].session)
  /\ Finish(r)
  /\ UNCHANGED <<rosterVars, connected, stageVars, timerVars>>

-----------------------------------------------------------------------------
\* A suspended handler goes on.
Resume(r) ==
  \/ JoinTrack(r) \/ JoinRecord(r) \/ JoinArm(r) \/ JoinEnd(r)
  \/ ResumeScreenShare(r)
  \/ OpenCanvasAuthorized(r) \/ ResumeOpenCanvas(r) \/ OpenCanvasRefused(r)
  \/ ResumeCloseCanvas(r) \/ CloseCanvasFail(r)
  \/ KickStopShare(r) \/ KickRemove(r) \/ KickFail(r)

\* A client's message arrives.
Receive(k) ==
  \/ LeaveRoom(k)
  \/ StopScreenShare(k)
  \/ \E r \in Requests :
       \/ \E u \in Users, s \in Sessions : JoinRoom(r, k, u, s)
       \/ StartScreenShare(r, k)
       \/ OpenCanvas(r, k)
       \/ CloseCanvas(r, k)
       \/ \E v \in Users : KickParticipant(r, k, v)

Next ==
  \/ \E r \in Requests : Resume(r)
  \/ \E k \in Sockets : Receive(k) \/ Disconnect(k)
  \/ \E t \in Timers : TimerFire(t) \/ TimerDone(t)

Spec == Init /\ [][Next]_vars

\* Node resumes every awaited handler and fires every timer that is not
\* cleared; clients owe nothing.
Fairness ==
  /\ \A r \in Requests : WF_vars(Resume(r))
  /\ \A t \in Timers : WF_vars(TimerFire(t)) /\ WF_vars(TimerDone(t))

FairSpec == Spec /\ Fairness

-----------------------------------------------------------------------------
(* What clients may be assumed to do                                       *)

\* A socket is a browser tab: it joins as one user, in one session.  A user may
\* still have several, as after a reconnection.
OneRoomPerSocket ==
  \A j1, j2 \in JoinRequests : j1[1] = j2[1] => j1 = j2

-----------------------------------------------------------------------------
(* Safety                                                                  *)

\* Nobody is tracked, shares the screen or has the canvas open in a session
\* whose access check they did not pass, through any overlap of handlers; the
\* checks are the ones of validateUserSessionAccess and isTeacherInSession.
AdmittedOnly ==
  /\ \A s \in Sessions, u \in Users : IsConnected(u, s) => <<u, s>> \in MayEnter
  /\ \A k \in Sockets :
       socketToUser[k] # NoOne =>
         <<socketToUser[k].user, socketToUser[k].session>> \in MayEnter
  /\ \A s \in Sessions :
       /\ activeScreenSharers[s] # NoOne => <<activeScreenSharers[s], s>> \in MayEnter
       /\ activeCanvasSessions[s] # NoOne =>
            <<activeCanvasSessions[s], s>> \in MayEnter \cap Teachers

\* As long as a socket joins one room only, the two maps of
\* ConnectedUsersManager do not come apart in one direction: a user found in a
\* session's map is found under that socket too, so the participants list, the
\* kick and the stage handlers speak of a record that a disconnect will remove.
EntryBacked ==
  OneRoomPerSocket =>
    \A s \in Sessions, u \in Users :
      IsConnected(u, s) =>
        socketToUser[sessionUsers[s][u]] = [user |-> u, session |-> s]

\* The registered timer of a user is a live one of theirs, so clearing it on a
\* rejoin or a disconnect never cancels someone else's attendance.
RegistryLive ==
  \A s \in Sessions, u \in Users :
    LET t == attendanceTimers[s][u]
    IN t # NoOne => /\ timers[t].phase # "free"
                    /\ timers[t].user = u
                    /\ timers[t].session = s

\* A timer runs that is not the one registered for its user and session: no rejoin
\* and no disconnect will stop it, and it may mark who has not been there for long.
Orphaned(t) ==
  /\ timers[t].phase = "armed"
  /\ attendanceTimers[timers[t].session][timers[t].user] # t

\* A timer loses its registration only to another of the same user and session, whose
\* callback ends: to one that was still marking when this one was set, and then to
\* such an orphan.  Rejoins and disconnects leave none behind.
OrphanNeedsOverlap ==
  [][\A t \in Timers :
       ~Orphaned(t) /\ Orphaned(t)' =>
         \E d \in Timers \ {t} :
           /\ timers[d].user = timers[t].user /\ timers[d].session = timers[t].session
           /\ timers[d].phase = "marking" \/ Orphaned(d)
           /\ timers'[d] = FreeTimer
    ]_vars

\* Removing a socket from the roster is the socket's own leave or disconnect, or
\* the end of a kick by someone who may kick, and of that kick's target in that
\* kick's session: removeUserBySocket, called with the socket found in a session's
\* map, does not hit a user who is by now someone or somewhere else.
KickHitsTarget ==
  [][\A k \in Sockets :
       /\ OneRoomPerSocket
       /\ socketToUser[k] # NoOne /\ socketToUser'[k] = NoOne
       => \/ k \notin connected'
          \/ requests' = requests
          \/ \E r \in Requests :
               /\ requests[r].at = "removing" /\ requests'[r] = Idle
               /\ socketToUser[k] = [user |-> requests[r].target,
                                     session |-> requests[r].session]
               /\ CanKick(requests[r].user, requests[r].target, requests[r].session)
    ]_vars

\* A closed socket comes to be tracked only through its own join-room, when the
\* disconnect overtakes the handler's validations; handleDisconnect forgets every
\* other one.
GhostNeedsOvertakenJoin ==
  [][\A k \in Sockets :
       /\ socketToUser[k] = NoOne \/ k \in connected
       /\ socketToUser'[k] # NoOne /\ k \notin connected'
       => \E r \in Requests : /\ requests[r].at = "joining" /\ requests[r].socket = k
                             /\ requests'[r].at = "tracked"
    ]_vars

\* "Please wait for them to stop sharing": a screen share passes straight from one
\* user to another only in a start-screen-share that was suspended after its
\* check, while it closed the canvas.
ShareStolenOnlyAfterCanvas ==
  [][\A s \in Sessions :
       /\ activeScreenSharers[s] # NoOne
       /\ activeScreenSharers'[s] \notin {NoOne, activeScreenSharers[s]}
       => \E r \in Requests : /\ requests[r].at = "sharing" /\ requests'[r] = Idle
                             /\ requests[r].session = s
                             /\ requests[r].user = activeScreenSharers'[s]
    ]_vars

\* The screen and the canvas of a session are both in use.
BothActive(s) == activeScreenSharers[s] # NoOne /\ activeCanvasSessions[s] # NoOne

\* Where the "conflict resolution" of start-screen-share and open-canvas can
\* fail: only in a handler that had been suspended after it freed the other
\* tool, or against an owner that cannot be reached through the roster.
ConflictNeedsOverlap ==
  [][\A s \in Sessions :
       ~BothActive(s) /\ BothActive(s)' =>
         \/ \E r \in Requests : /\ requests[r].at \in {"sharing", "opening"}
                                /\ requests[r].session = s
                                /\ requests'[r] = Idle
         \/ activeScreenSharers[s] # NoOne /\ ~IsReachable(activeScreenSharers[s], s)
         \/ activeCanvasSessions[s] # NoOne /\ ~IsReachable(activeCanvasSessions[s], s)
    ]_vars

\* The canvas is a lock: MeetService.openCanvas checks and sets it before its
\* first await ("race condition protection").
Canvas == INSTANCE CanvasLock WITH holder <- activeCanvasSessions
CanvasIsLock == Canvas!Spec

-----------------------------------------------------------------------------
(* Liveness                                                                *)

HasTimer(u, s) ==
  \E t \in Timers : attendanceTimers[s][u] = t /\ timers[t].phase = "armed"

\* In the room, and not in the middle of joining it again.
Settled(u, s) ==
  /\ IsConnected(u, s)
  /\ \A r \in Requests :
       ~(/\ requests[r].at \in {"joining", "tracked", "recorded"}
         /\ requests[r].user = u
         /\ requests[r].session = s)

\* A user whose timer runs and who stays in the room, without joining it again,
\* is marked as attended: no other handler, timer or socket of anyone gets in
\* the way.
StayedIsMarked ==
  \A u \in Users, s \in Sessions :
    [](HasTimer(u, s) /\ []Settled(u, s) => <>(attendance[s][u] = "attended"))

-----------------------------------------------------------------------------
(* What a comment of the code says, and the code does not do               *)

\* "Check if user is still connected (via connectedUsersManager)": a user with an
\* open socket in the session is found there.
StillConnectedIsFound ==
  \A k \in connected :
    socketToUser[k] # NoOne => IsConnected(socketToUser[k].user, socketToUser[k].session)
=============================================================================

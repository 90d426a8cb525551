--------------------------- MODULE SessionSchedule ---------------------------
(***************************************************************************)
(* SessionService: booking the sessions of classes, moving them, ending    *)
(* them, deleting them, and the cron that cleans up.  A class, and a host, *)
(* are meant to have one session at a time.  The query that looks for a    *)
(* conflict and the one that writes are separate, and an update writes     *)
(* only the fields it was given, next to whatever the row has by then.     *)
(*                                                                         *)
(* A handler is a slot of requests, and goes from one query to the next;   *)
(* what createSession reads before its first query for conflicts, and what *)
(* deleteSession reads, cannot change.                                     *)
(***************************************************************************)
EXTENDS Naturals

CONSTANTS
  Classes,
  Hosts,      \* users who book sessions
  Ids,        \* ids of Session rows: how many there may be at a time
  Requests,   \* slots for running handlers: how many may overlap
  NoOne,      \* null: a free id, or the end_time of an open session
  Bookings,   \* the <<class, host>> that createSession is asked for
  Starts,     \* the start times clients ask for
  Ends,       \* the end times
  Horizon,    \* the bound on the clock
  Week        \* how long a session is kept after it is over

ASSUME ScheduleAssumption ==
  /\ NoOne \notin Classes \cup Hosts \cup Ids \cup Nat
  /\ NoOne \notin [class : Classes, host : Hosts, start : Nat, end : Nat \cup {NoOne}]
  /\ Bookings \subseteq Classes \X Hosts
  /\ Starts \subseteq Nat
  /\ Ends \subseteq Nat
  /\ Horizon \in Nat
  /\ Week \in Nat

VARIABLES
  now,        \* the clock
  sessions,   \* the Session rows, by id
  requests    \* running handlers

vars == <<now, sessions, requests>>

Null(S) == S \cup {NoOne}

Times == Starts \cup Ends \cup 0..Horizon

Session == [class : Classes, host : Hosts, start : Times, end : Null(Times)]

\* Where a handler is:
\*   checking   updateSession, with the row it has read, at the query for the class
\*   asking     the query for the host
\*   creating   createSession, inserting the row
\*   updating   updateSession, writing the fields it was given
\*   ending     endSession, writing the end
Steps == {"idle", "checking", "asking", "creating", "updating", "ending"}

Idle == [at |-> "idle", id |-> NoOne, class |-> NoOne, host |-> NoOne, start |-> 0,
         end |-> NoOne, sets |-> {}, opens |-> FALSE, overtaken |-> {}]

\* id: the row to update or end, none when one is to be created.  start, end: the
\* times the conflict check is for.  sets: the fields the update was given; opens:
\* the end it was given is null.  overtaken: the rows that other handlers have
\* written since this one began; the code has no such thing, the properties do.
Request == [at : Steps, id : Null(Ids), class : Null(Classes), host : Null(Hosts),
            start : Times, end : Null(Times), sets : SUBSET {"start", "end"},
            opens : BOOLEAN, overtaken : SUBSET Ids]

TypeOK ==
  /\ now \in 0..Horizon
  /\ sessions \in [Ids -> Null(Session)]
  /\ requests \in [Requests -> Request]

Init ==
  /\ now = 0
  /\ sessions = [i \in Ids |-> NoOne]
  /\ requests = [r \in Requests |-> Idle]

-----------------------------------------------------------------------------
(* Handlers and rows                                                       *)

At(r, step) == requests[r].at = step

Start(r, request) ==
  /\ requests[r] = Idle
  /\ requests' = [requests EXCEPT ![r] = request]

Finish(r) == requests' = [requests EXCEPT ![r] = Idle]

\* The handler ends with the writing of row i, which every other one that runs
\* has not seen.
FinishWith(r, i) ==
  requests' = [q \in Requests |->
    IF q = r \/ requests[q] = Idle THEN Idle
    ELSE [requests[q] EXCEPT !.overtaken = @ \cup {i}]]

\* An id is new, to the table and to every running handler.
NewIds == {i \in Ids : sessions[i] = NoOne /\ \A r \in Requests : requests[r].id # i}

\* A session without an end lasts for ever; the code says until 2099.
Before(time, end) == end # NoOne => time < end

\* Times that overlap; one session may begin as the other ends.
Overlap(s, t) == Before(s.start, t.end) /\ Before(t.start, s.end)

SameRoom(s, t) == s.class = t.class \/ s.host = t.host

\* The two queries of checkSessionConflicts: no session of the class, no session of
\* the host, at the times of s, other than the row that is being updated.
ClassIsFree(s) ==
  \A i \in Ids \ {s.id} : sessions[i] # NoOne =>
                            ~(s.class = sessions[i].class /\ Overlap(s, sessions[i]))

\* The slip to check the check with: open sessions are no conflict.
HostIsFree_IgnoresOpen(s) ==
  \A i \in Ids \ {s.id} : sessions[i] # NoOne /\ sessions[i].end # NoOne =>
                            ~(s.host = sessions[i].host /\ Overlap(s, sessions[i]))

HostIsFree(s) ==
  \A i \in Ids \ {s.id} : sessions[i] # NoOne =>
                            ~(s.host = sessions[i].host /\ Overlap(s, sessions[i]))

-----------------------------------------------------------------------------
(* Mutated forms of operations, each with the slip its name says.           *)

CreateSession_Unvalidated(r, c, h, start, end) ==
  LET session == [Idle EXCEPT !.at = "asking", !.class = c, !.host = h,
                              !.start = start, !.end = end]
  IN /\ <<c, h>> \in Bookings
     /\ ClassIsFree(session)
     /\ Start(r, session)
     /\ UNCHANGED <<now, sessions>>

InsertSession_NoHost(r) ==
  /\ At(r, "creating")
  /\ \E i \in NewIds :
       /\ sessions' = [sessions EXCEPT ![i] =
            [class |-> requests[r].class, host |-> NoOne,
             start |-> requests[r].start, end |-> requests[r].end]]
       /\ FinishWith(r, i)
  /\ UNCHANGED now

-----------------------------------------------------------------------------
(* The query for the host, in createSession and in updateSession            *)

\* What is of no use after it is forgotten: of the times that were checked, an
\* update has only those that it was given.
AskHost(r) ==
  LET request == requests[r]
  IN /\ At(r, "asking")
     /\ HostIsFree(request)
     /\ requests' = [requests EXCEPT ![r] =
          IF request.id = NoOne
          THEN [request EXCEPT !.at = "creating"]
          ELSE [Idle EXCEPT
                  !.at = "updating", !.id = request.id, !.sets = request.sets,
                  !.opens = request.opens, !.overtaken = request.overtaken,
                  !.start = IF "start" \in request.sets THEN request.start ELSE 0,
                  !.end = IF "end" \in request.sets /\ ~request.opens
                          THEN request.end ELSE NoOne]]
     /\ UNCHANGED <<now, sessions>>

-----------------------------------------------------------------------------
(* createSession                                                           *)

CreateSession(r, c, h, start, end) ==
  LET session == [Idle EXCEPT !.at = "asking", !.class = c, !.host = h,
                              !.start = start, !.end = end]
  IN /\ <<c, h>> \in Bookings
     /\ Before(start, end)
     /\ ClassIsFree(session)
     /\ Start(r, session)
     /\ UNCHANGED <<now, sessions>>

InsertSession(r) ==
  /\ At(r, "creating")
  /\ \E i \in NewIds :
       /\ sessions' = [sessions EXCEPT ![i] =
            [class |-> requests[r].class, host |-> requests[r].host,
             start |-> requests[r].start, end |-> requests[r].end]]
       /\ FinishWith(r, i)
  /\ UNCHANGED now

\* A conflict, a failing query, a row that is gone.
Refuse(r) ==
  /\ requests[r] # Idle
  /\ Finish(r)
  /\ UNCHANGED <<now, sessions>>

-----------------------------------------------------------------------------
(* updateSession                                                           *)

\* An end that is given must be after the start that is given, or read; a start
\* alone is not compared with the end.  An end that is taken away is checked for
\* conflicts as if it stayed ("newEndTime ?? session.end_time").
UpdateSession(r, i, sets, start, end) ==
  LET session == sessions[i]
      newStart == IF "start" \in sets THEN start ELSE session.start
      opens == "end" \in sets /\ end = NoOne
  IN /\ session # NoOne
     /\ sets # {}
     /\ "end" \in sets => Before(newStart, end)
     /\ Start(r, [Idle EXCEPT
                    !.at = "checking", !.id = i, !.class = session.class,
                    !.host = session.host, !.start = newStart,
                    !.end = IF "end" \in sets /\ ~opens THEN end ELSE session.end,
                    !.sets = sets, !.opens = opens])
     /\ UNCHANGED <<now, sessions>>

CheckUpdate(r) ==
  /\ At(r, "checking")
  /\ ClassIsFree(requests[r])
  /\ requests' = [requests EXCEPT ![r].at = "asking"]
  /\ UNCHANGED <<now, sessions>>

SaveSession(r) ==
  LET i == requests[r].id
  IN /\ At(r, "updating")
     /\ sessions[i] # NoOne
     /\ sessions' = [sessions EXCEPT
          ![i].start = IF "start" \in requests[r].sets THEN requests[r].start ELSE @,
          ![i].end = IF "end" \in requests[r].sets THEN requests[r].end ELSE @]
     /\ FinishWith(r, i)
     /\ UNCHANGED now

-----------------------------------------------------------------------------
(* endSession, deleteSession and the cron                                  *)

EndSession(r, i) ==
  /\ sessions[i] # NoOne
  /\ Before(now, sessions[i].end)
  /\ Start(r, [Idle EXCEPT !.at = "ending", !.id = i])
  /\ UNCHANGED <<now, sessions>>

SaveEnd(r) ==
  LET i == requests[r].id
  IN /\ At(r, "ending")
     /\ sessions[i] # NoOne
     /\ sessions' = [sessions EXCEPT ![i].end = now]
     /\ FinishWith(r, i)
     /\ UNCHANGED now

\* Host and creator do not change: nothing it has read can be stale.
DeleteSession(i) ==
  /\ sessions[i] # NoOne
  /\ sessions' = [sessions EXCEPT ![i] = NoOne]
  /\ UNCHANGED <<now, requests>>

\* handleSessionLifecycleMaintenance: what ended a week ago, and what began a week
\* ago and has no end.
Old(s) == (IF s.end = NoOne THEN s.start ELSE s.end) + Week <= now

Maintenance ==
  /\ \E i \in Ids : sessions[i] # NoOne /\ Old(sessions[i])
  /\ sessions' = [i \in Ids |-> IF sessions[i] # NoOne /\ Old(sessions[i])
                                THEN NoOne ELSE sessions[i]]
  /\ UNCHANGED <<now, requests>>

Tick ==
  /\ now < Horizon
  /\ now' = now + 1
  /\ UNCHANGED <<sessions, requests>>

-----------------------------------------------------------------------------
Resume(r) ==
  \/ CheckUpdate(r) \/ AskHost(r) \/ Refuse(r)
  \/ InsertSession(r) \/ SaveSession(r) \/ SaveEnd(r)

Receive(r) ==
  \/ \E start \in Starts, end \in Null(Ends) :
       \/ \E c \in Classes, h \in Hosts : CreateSession(r, c, h, start, end)
       \/ \E i \in Ids, sets \in SUBSET {"start", "end"} : UpdateSession(r, i, sets, start, end)
  \/ \E i \in Ids : EndSession(r, i)

Next ==
  \/ \E r \in Requests : Resume(r) \/ Receive(r)
  \/ \E i \in Ids : DeleteSession(i)
  \/ Maintenance
  \/ Tick

Spec == Init /\ [][Next]_vars

-----------------------------------------------------------------------------
(* Safety                                                                  *)

\* Two sessions of a class, or of a host, at the same time.
Clash(i, j) ==
  /\ sessions[i] # NoOne /\ sessions[j] # NoOne
  /\ SameRoom(sessions[i], sessions[j])
  /\ Overlap(sessions[i], sessions[j])

\* r writes row i, and one of the rows has been written since r began.
Overtaken(r, i, j) == requests[r].overtaken \cap {i, j} # {}

\* Sessions that are not in each other's way come to clash only
\*   - in a write that another write to one of them overtook,
\*   - in an update that takes an end away, or
\*   - in an endSession so slow that the session had ended by itself.
\* Everything else is kept apart by checkSessionConflicts, whose query has to get
\* open sessions, equal times and the row itself right.
ClashNeedsOverlap ==
  [][\A i, j \in Ids :
       i # j /\ ~Clash(i, j) /\ Clash(i, j)' =>
         \E r \in Requests :
           /\ requests[r] # Idle /\ requests'[r] = Idle
           /\ \/ Overtaken(r, i, j)
              \/ requests[r].id \in {i, j} /\ requests[r].opens
              \/ /\ requests[r].id \in {i, j}
                 /\ At(r, "ending") /\ ~Before(now, sessions[requests[r].id].end)
    ]_vars

\* A session that ends no later than it starts.
Inverted(i) == sessions[i] # NoOne /\ ~Before(sessions[i].start, sessions[i].end)

\* "end_time must be after start_time": it comes not to be only by an endSession
\* before the start, by an update of the start alone, or by two updates that each
\* looked at the row the other had not written yet.
InvertedNeedsCause ==
  [][\A i \in Ids :
       ~Inverted(i) /\ Inverted(i)' =>
         \E r \in Requests :
           /\ requests[r].id = i /\ requests'[r] = Idle
           /\ \/ At(r, "ending") /\ now <= sessions[i].start
              \/ At(r, "updating") /\ requests[r].sets = {"start"}
              \/ At(r, "updating") /\ i \in requests[r].overtaken
    ]_vars
=============================================================================

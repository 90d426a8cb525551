------------------------ MODULE SessionScheduleProofs ------------------------
(***************************************************************************)
(* Theorems about SessionSchedule, for every set of classes, hosts, rows,  *)
(* times and overlapping handlers.                                         *)
(*                                                                         *)
(* What a handler has found in the rows stays true of those rows that no   *)
(* other handler has written since (Knows).  The queries for conflicts are *)
(* such findings; what follows from them is true of the row when it is     *)
(* written, unless it or the other row was overtaken.                      *)
(***************************************************************************)
EXTENDS SessionSchedule, TLAPS

Table == [Ids -> Null(Session)]

RequestOK(q) ==
  /\ q.at \in {"checking", "asking", "creating"} => q.class \in Classes /\ q.host \in Hosts
  /\ q.at \in {"checking", "updating", "ending"} => q.id \in Ids
  /\ q.at = "creating" => q.id = NoOne
  /\ q.opens => "end" \in q.sets

TypeInv ==
  /\ TypeOK
  /\ \A r \in Requests : RequestOK(requests[r])

-----------------------------------------------------------------------------
(* What a handler knows, of rows as they are in table                      *)

Fresh(q, table, i) == table[i] # NoOne /\ i \notin q.overtaken

\* The times that the update q will leave in row s, when it does not take the end away.
Updated(q, s) ==
  [start |-> IF "start" \in q.sets THEN q.start ELSE s.start,
   end   |-> IF "end" \in q.sets THEN q.end ELSE s.end]

\* The row it has read.
KnowsRow(q, table) ==
  q.at \in {"checking", "asking"} /\ q.id \in Ids /\ Fresh(q, table, q.id) =>
    /\ q.class = table[q.id].class
    /\ q.host = table[q.id].host
    /\ "start" \notin q.sets => q.start = table[q.id].start
    /\ "end" \notin q.sets => q.end = table[q.id].end

\* The answers to the queries for conflicts.
KnowsClass(q, table) ==
  q.at \in {"asking", "creating"} =>
    \A j \in Ids \ {q.id} : Fresh(q, table, j) =>
      ~(q.class = table[j].class /\ Overlap(q, table[j]))

KnowsHost(q, table) ==
  q.at = "creating" =>
    \A j \in Ids \ {q.id} : Fresh(q, table, j) =>
      ~(q.host = table[j].host /\ Overlap(q, table[j]))

KnowsBoth(q, table) ==
  q.at = "updating" /\ ~q.opens /\ Fresh(q, table, q.id) =>
    \A j \in Ids \ {q.id} : Fresh(q, table, j) =>
      ~(SameRoom(table[q.id], table[j]) /\ Overlap(Updated(q, table[q.id]), table[j]))

\* The end it was given comes after the start.
KnowsOrder(q, table) ==
  /\ q.at = "creating" => Before(q.start, q.end)
  /\ q.at \in {"checking", "asking"} /\ (q.id = NoOne \/ ("end" \in q.sets /\ ~q.opens)) =>
       Before(q.start, q.end)
  /\ q.at = "updating" /\ q.opens => q.end = NoOne
  /\ q.at = "updating" /\ "end" \in q.sets /\ ("start" \in q.sets \/ Fresh(q, table, q.id)) =>
       Before(Updated(q, table[q.id]).start, q.end)

Knows(q, table) ==
  /\ KnowsRow(q, table)
  /\ KnowsClass(q, table)
  /\ KnowsHost(q, table)
  /\ KnowsBoth(q, table)
  /\ KnowsOrder(q, table)

Inv ==
  /\ TypeInv
  /\ \A r \in Requests : Knows(requests[r], sessions)

-----------------------------------------------------------------------------
(* Types                                                                   *)


LEMMA IdleOK == Idle \in Request /\ RequestOK(Idle)
BY ScheduleAssumption DEF Idle, Request, RequestOK, Steps, Null, Times

LEMMA TypeInit == Init => TypeInv
<1> SUFFICES ASSUME Init PROVE TypeInv
  OBVIOUS
<1>1. TypeOK
  BY IdleOK, ScheduleAssumption DEF Init, TypeOK, Null
<1>2. \A r \in Requests : RequestOK(requests[r])
  BY IdleOK DEF Init
<1> QED BY <1>1, <1>2 DEF TypeInv

\* A handler that begins with, or goes on to, an acceptable request.
LEMMA StepType ==
  ASSUME TypeInv, NEW r \in Requests, NEW q \in Request, RequestOK(q),
         requests' = [requests EXCEPT ![r] = q]
  PROVE  requests' \in [Requests -> Request] /\ \A p \in Requests : RequestOK(requests'[p])
BY DEF TypeInv, TypeOK

LEMMA FinishType ==
  ASSUME TypeInv, NEW r \in Requests, NEW i \in Ids, FinishWith(r, i)
  PROVE  requests' \in [Requests -> Request] /\ \A p \in Requests : RequestOK(requests'[p])
<1> SUFFICES ASSUME NEW p \in Requests
             PROVE  requests'[p] \in Request /\ RequestOK(requests'[p])
  BY DEF FinishWith
<1>1. requests'[p] = Idle \/ requests'[p] = [requests[p] EXCEPT !.overtaken = @ \cup {i}]
  BY DEF FinishWith
<1>2. [requests[p] EXCEPT !.overtaken = @ \cup {i}] \in Request
  BY DEF TypeInv, TypeOK, Request
<1>3. RequestOK([requests[p] EXCEPT !.overtaken = @ \cup {i}])
  BY DEF TypeInv, TypeOK, Request, RequestOK
<1> QED BY <1>1, <1>2, <1>3, IdleOK

LEMMA TimeFacts ==
  /\ Times \subseteq Nat
  /\ Starts \subseteq Times
  /\ Ends \subseteq Times
  /\ 0 \in Times
  /\ NoOne \notin Times
  /\ NoOne \notin Session
<1>1. Times \subseteq Nat /\ Starts \subseteq Times /\ Ends \subseteq Times /\ 0 \in Times
  BY ScheduleAssumption DEF Times
<1>2. NoOne \notin Times
  BY <1>1, ScheduleAssumption
<1>3. Session \subseteq [class : Classes, host : Hosts, start : Nat, end : Nat \cup {NoOne}]
  BY <1>1 DEF Session, Null
<1> QED BY <1>1, <1>2, <1>3, ScheduleAssumption

-----------------------------------------------------------------------------
(* The requests that handlers begin with                                   *)

\* As CreateSession and UpdateSession put them together.
Booked(c, h, start, end) ==
  [Idle EXCEPT !.at = "asking", !.class = c, !.host = h, !.start = start, !.end = end]

NewStart(i, sets, start) == IF "start" \in sets THEN start ELSE sessions[i].start

Opens(sets, end) == "end" \in sets /\ end = NoOne

Moved(i, sets, start, end) ==
  [Idle EXCEPT !.at = "checking", !.id = i, !.class = sessions[i].class,
               !.host = sessions[i].host, !.start = NewStart(i, sets, start),
               !.end = IF "end" \in sets /\ ~Opens(sets, end) THEN end
                       ELSE sessions[i].end,
               !.sets = sets, !.opens = Opens(sets, end)]

\* What an update has left after the queries.
Asked(q) ==
  [Idle EXCEPT
     !.at = "updating", !.id = q.id, !.sets = q.sets,
     !.opens = q.opens, !.overtaken = q.overtaken,
     !.start = IF "start" \in q.sets THEN q.start ELSE 0,
     !.end = IF "end" \in q.sets /\ ~q.opens THEN q.end ELSE NoOne]

LEMMA BookedOK ==
  ASSUME NEW c, NEW h, <<c, h>> \in Bookings, NEW start \in Starts, NEW end \in Null(Ends)
  PROVE  Booked(c, h, start, end) \in Request /\ RequestOK(Booked(c, h, start, end))
<1>1. c \in Classes /\ h \in Hosts
  BY ScheduleAssumption
<1> QED BY <1>1, TimeFacts DEF Booked, Idle, Request, RequestOK, Steps, Null

LEMMA MovedOK ==
  ASSUME TypeInv, NEW i \in Ids, sessions[i] # NoOne, NEW sets \in SUBSET {"start", "end"},
         NEW start \in Starts, NEW end \in Null(Ends)
  PROVE  Moved(i, sets, start, end) \in Request /\ RequestOK(Moved(i, sets, start, end))
<1>1. sessions[i] \in Session
  BY DEF TypeInv, TypeOK, Null
<1>2. /\ sessions[i].class \in Classes /\ sessions[i].host \in Hosts
      /\ sessions[i].start \in Times /\ sessions[i].end \in Null(Times)
  BY <1>1 DEF Session
<1>3. NewStart(i, sets, start) \in Times /\ Opens(sets, end) \in BOOLEAN
  BY <1>2, TimeFacts DEF NewStart, Opens
<1>4. (IF "end" \in sets /\ ~Opens(sets, end) THEN end ELSE sessions[i].end) \in Null(Times)
  BY <1>2, TimeFacts DEF Null
<1>5. Moved(i, sets, start, end) \in Request
  BY <1>2, <1>3, <1>4 DEF Moved, Idle, Request, Steps, Null
<1>6. RequestOK(Moved(i, sets, start, end))
  BY <1>2 DEF Moved, Idle, RequestOK, Opens
<1> QED BY <1>5, <1>6

LEMMA AskedOK ==
  ASSUME NEW q \in Request, RequestOK(q), q.id # NoOne
  PROVE  Asked(q) \in Request /\ RequestOK(Asked(q))
BY TimeFacts DEF Asked, Idle, Request, RequestOK, Steps, Null

LEMMA CreatingOK ==
  ASSUME NEW q \in Request, q.at = "asking", RequestOK(q), q.id = NoOne
  PROVE  [q EXCEPT !.at = "creating"] \in Request /\ RequestOK([q EXCEPT !.at = "creating"])
<1>1. q.opens => "end" \in q.sets
  BY DEF RequestOK
<1> QED BY <1>1 DEF Request, RequestOK, Steps

-----------------------------------------------------------------------------
LEMMA TypeStep == TypeInv /\ [Next]_vars => TypeInv'
<1> SUFFICES ASSUME TypeInv, [Next]_vars PROVE TypeInv'
  OBVIOUS
<1> USE DEF TypeInv
<1>1. ASSUME NEW r \in Requests, InsertSession(r) PROVE TypeInv'
  <2>1. PICK i \in NewIds :
          /\ sessions' = [sessions EXCEPT ![i] =
               [class |-> requests[r].class, host |-> requests[r].host,
                start |-> requests[r].start, end |-> requests[r].end]]
          /\ FinishWith(r, i)
    BY <1>1 DEF InsertSession
  <2>2. i \in Ids
    BY <2>1 DEF NewIds
  <2>3. [class |-> requests[r].class, host |-> requests[r].host,
         start |-> requests[r].start, end |-> requests[r].end] \in Session
    BY <1>1 DEF InsertSession, At, TypeOK, Request, RequestOK, Session
  <2>4. sessions' \in [Ids -> Null(Session)]
    BY <2>1, <2>3 DEF TypeOK, Null
  <2> QED BY <1>1, <2>1, <2>2, <2>4, FinishType DEF InsertSession, TypeOK
<1>2. ASSUME NEW r \in Requests, SaveSession(r) PROVE TypeInv'
  <2> DEFINE i == requests[r].id
  <2>1. i \in Ids /\ sessions[i] \in Session /\ requests[r] \in Request
    BY <1>2 DEF SaveSession, At, TypeOK, RequestOK, Null
  <2>2. sessions' = [sessions EXCEPT ![i] = [sessions[i] EXCEPT
          !.start = IF "start" \in requests[r].sets THEN requests[r].start ELSE @,
          !.end = IF "end" \in requests[r].sets THEN requests[r].end ELSE @]]
    BY <1>2, <2>1 DEF SaveSession, TypeOK, Session
  <2>3. sessions'[i] \in Session
    BY <2>1, <2>2 DEF TypeOK, Session, Request
  <2>4. sessions' \in [Ids -> Null(Session)]
    BY <2>2, <2>3 DEF TypeOK, Null
  <2> QED BY <1>2, <2>1, <2>4, FinishType DEF SaveSession, TypeOK
<1>3. ASSUME NEW r \in Requests, SaveEnd(r) PROVE TypeInv'
  <2> DEFINE i == requests[r].id
  <2>1. i \in Ids /\ sessions[i] \in Session /\ now \in Times
    BY <1>3 DEF SaveEnd, At, TypeOK, RequestOK, Null, Times
  <2>2. [sessions[i] EXCEPT !.end = now] \in Session
    BY <2>1 DEF Session, Null
  <2>3. sessions' \in [Ids -> Null(Session)]
    BY <1>3, <2>1, <2>2 DEF SaveEnd, TypeOK, Null
  <2> QED BY <1>3, <2>1, <2>3, FinishType DEF SaveEnd, TypeOK
<1>4. ASSUME NEW r \in Requests, CheckUpdate(r) PROVE TypeInv'
  <2>1. /\ [requests[r] EXCEPT !.at = "asking"] \in Request
        /\ RequestOK([requests[r] EXCEPT !.at = "asking"])
    BY <1>4 DEF CheckUpdate, At, TypeOK, Request, RequestOK, Steps
  <2> QED BY <1>4, <2>1, StepType DEF CheckUpdate, TypeOK
<1>5. ASSUME NEW r \in Requests, AskHost(r) PROVE TypeInv'
  <2>1. requests[r] \in Request /\ RequestOK(requests[r]) /\ requests[r].at = "asking"
    BY <1>5 DEF AskHost, At, TypeOK
  <2>2. CASE requests[r].id = NoOne
    <3>1. requests' = [requests EXCEPT ![r] = [requests[r] EXCEPT !.at = "creating"]]
      BY <1>5, <2>2 DEF AskHost
    <3> QED BY <1>5, <2>1, <2>2, <3>1, CreatingOK, StepType DEF AskHost, TypeOK
  <2>3. CASE requests[r].id # NoOne
    <3>1. requests' = [requests EXCEPT ![r] = Asked(requests[r])]
      BY <1>5, <2>3 DEF AskHost, Asked
    <3> QED BY <1>5, <2>1, <2>3, <3>1, AskedOK, StepType DEF AskHost, TypeOK
  <2> QED BY <2>2, <2>3
<1>6. ASSUME NEW r \in Requests, Refuse(r) PROVE TypeInv'
  BY <1>6, IdleOK, StepType DEF Refuse, Finish, TypeOK
<1>7. ASSUME NEW r \in Requests, NEW start \in Starts, NEW end \in Null(Ends),
             NEW c \in Classes, NEW h \in Hosts, CreateSession(r, c, h, start, end)
      PROVE  TypeInv'
  <2>1. requests' = [requests EXCEPT ![r] = Booked(c, h, start, end)] /\ <<c, h>> \in Bookings
    BY <1>7 DEF CreateSession, Start, Booked
  <2> QED BY <1>7, <2>1, BookedOK, StepType DEF CreateSession, TypeOK
<1>8. ASSUME NEW r \in Requests, NEW start \in Starts, NEW end \in Null(Ends),
             NEW i \in Ids, NEW sets \in SUBSET {"start", "end"},
             UpdateSession(r, i, sets, start, end)
      PROVE  TypeInv'
  <2>1. requests' = [requests EXCEPT ![r] = Moved(i, sets, start, end)] /\ sessions[i] # NoOne
    BY <1>8 DEF UpdateSession, Start, Moved, NewStart, Opens
  <2> QED BY <1>8, <2>1, MovedOK, StepType DEF UpdateSession, TypeOK
<1>9. ASSUME NEW r \in Requests, NEW i \in Ids, EndSession(r, i) PROVE TypeInv'
  <2> DEFINE q == [Idle EXCEPT !.at = "ending", !.id = i]
  <2>1. q \in Request /\ RequestOK(q)
    BY TimeFacts DEF Idle, Request, RequestOK, Steps, Null
  <2>2. requests' = [requests EXCEPT ![r] = q]
    BY <1>9 DEF EndSession, Start
  <2> QED BY <1>9, <2>1, <2>2, StepType DEF EndSession, TypeOK
<1>10. ASSUME NEW i \in Ids, DeleteSession(i) PROVE TypeInv'
  BY <1>10 DEF DeleteSession, TypeOK, Null
<1>11. CASE Maintenance
  BY <1>11 DEF Maintenance, TypeOK, Null
<1>12. CASE Tick
  BY <1>12, ScheduleAssumption DEF Tick, TypeOK
<1>13. CASE UNCHANGED vars
  BY <1>13 DEF vars, TypeOK
<1> QED BY <1>1, <1>2, <1>3, <1>4, <1>5, <1>6, <1>7, <1>8, <1>9, <1>10, <1>11, <1>12, <1>13
    DEF Next, Resume, Receive

\* Rows and handlers keep their types.
THEOREM TypeCorrect == Spec => []TypeOK
<1>1. TypeInv => TypeOK
  BY DEF TypeInv
<1> QED BY <1>1, TypeInit, TypeStep, PTL DEF Spec

-----------------------------------------------------------------------------
(* What handlers know stays true                                           *)

LEMMA StillKnows ==
  ASSUME NEW q \in Request, RequestOK(q), NEW s \in Table, NEW t \in Table,
         NEW o \in SUBSET Ids, q.overtaken \subseteq o,
         \A j \in Ids \ o : t[j] # NoOne => t[j] = s[j],
         Knows(q, s)
  PROVE  Knows([q EXCEPT !.overtaken = o], t)
<1> DEFINE p == [q EXCEPT !.overtaken = o]
<1>1. /\ p.at = q.at /\ p.id = q.id /\ p.class = q.class /\ p.host = q.host
      /\ p.start = q.start /\ p.end = q.end /\ p.sets = q.sets /\ p.opens = q.opens
      /\ p.overtaken = o
  BY DEF Request
<1>2. \A j \in Ids : Fresh(p, t, j) => Fresh(q, s, j) /\ t[j] = s[j]
  BY <1>1 DEF Fresh
<1>3. \A u : Updated(p, u) = Updated(q, u) /\ Overlap(p, u) = Overlap(q, u)
  BY <1>1 DEF Updated, Overlap
<1> HIDE DEF p
<1>4. KnowsRow(p, t)
  BY <1>1, <1>2 DEF Knows, KnowsRow
<1>5. KnowsClass(p, t)
  BY <1>1, <1>2, <1>3 DEF Knows, KnowsClass
<1>6. KnowsHost(p, t)
  BY <1>1, <1>2, <1>3 DEF Knows, KnowsHost
<1>7. KnowsBoth(p, t)
  BY <1>1, <1>2, <1>3 DEF Knows, KnowsBoth, RequestOK
<1>8. KnowsOrder(p, t)
  <2>1. p.at = "updating" => p.id \in Ids
    BY <1>1 DEF RequestOK
  <2>2. p.at = "updating" /\ "start" \in p.sets => Updated(p, t[p.id]).start = Updated(q, s[q.id]).start
    BY <1>1 DEF Updated
  <2> QED BY <1>1, <1>2, <1>3, <2>1, <2>2 DEF Knows, KnowsOrder
<1> QED BY <1>4, <1>5, <1>6, <1>7, <1>8 DEF Knows, p

\* A handler that knows its new request does not change what others know.
LEMMA StepKnows ==
  ASSUME Inv, TypeInv', NEW r \in Requests, NEW q, Knows(q, sessions),
         requests' = [requests EXCEPT ![r] = q], sessions' = sessions
  PROVE  Inv'
BY DEF Inv, TypeInv, TypeOK

LEMMA IdleKnows == \A t : Knows(Idle, t)
BY DEF Idle, Knows, KnowsRow, KnowsClass, KnowsHost, KnowsBoth, KnowsOrder

LEMMA InvInit == Init => Inv
BY TypeInit, IdleKnows DEF Init, Inv

\* Row i is written; the other rows stay.
LEMMA FinishKnows ==
  ASSUME Inv, TypeInv', NEW r \in Requests, NEW i \in Ids, FinishWith(r, i),
         \A j \in Ids \ {i} : sessions'[j] = sessions[j]
  PROVE  Inv'
<1> SUFFICES ASSUME NEW p \in Requests PROVE Knows(requests'[p], sessions')
  BY DEF Inv
<1>1. CASE p = r \/ requests[p] = Idle
  BY <1>1, IdleKnows DEF FinishWith
<1>2. CASE ~(p = r \/ requests[p] = Idle)
  <2> DEFINE o == requests[p].overtaken \cup {i}
  <2>1. requests'[p] = [requests[p] EXCEPT !.overtaken = o]
    BY <1>2 DEF FinishWith
  <2>2. requests[p] \in Request /\ RequestOK(requests[p]) /\ Knows(requests[p], sessions)
    BY DEF Inv, TypeInv, TypeOK
  <2>3. o \in SUBSET Ids
    BY <2>2 DEF Request
  <2>4. sessions \in Table /\ sessions' \in Table
    BY DEF Inv, TypeInv, TypeOK, Table
  <2>5. \A j \in Ids \ o : sessions'[j] # NoOne => sessions'[j] = sessions[j]
    OBVIOUS
  <2> HIDE DEF o
  <2>6. requests[p].overtaken \subseteq o
    BY DEF o
  <2> QED BY <2>1, <2>2, <2>3, <2>4, <2>5, <2>6, StillKnows
<1> QED BY <1>1, <1>2

\* Rows are deleted.
LEMMA DeleteKnows ==
  ASSUME Inv, TypeInv', requests' = requests,
         \A j \in Ids : sessions'[j] # NoOne => sessions'[j] = sessions[j]
  PROVE  Inv'
<1> SUFFICES ASSUME NEW p \in Requests PROVE Knows(requests'[p], sessions')
  BY DEF Inv
<1> DEFINE q == requests[p]
<1>1. q \in Request /\ RequestOK(q) /\ Knows(q, sessions)
  BY DEF Inv, TypeInv, TypeOK
<1>2. q.overtaken \in SUBSET Ids /\ [q EXCEPT !.overtaken = q.overtaken] = q
  BY <1>1 DEF Request
<1>3. sessions \in Table /\ sessions' \in Table
  BY DEF Inv, TypeInv, TypeOK, Table
<1> HIDE DEF q
<1>4. Knows([q EXCEPT !.overtaken = q.overtaken], sessions')
  BY <1>1, <1>2, <1>3, StillKnows
<1> QED BY <1>2, <1>4 DEF q

LEMMA BookedKnows ==
  ASSUME NEW c, NEW h, NEW start, NEW end, Before(start, end),
         ClassIsFree(Booked(c, h, start, end))
  PROVE  Knows(Booked(c, h, start, end), sessions)
<1> DEFINE q == Booked(c, h, start, end)
<1>1. /\ q.at = "asking" /\ q.id = NoOne /\ q.start = start /\ q.end = end
      /\ q.overtaken = {}
  BY DEF Booked, Idle
<1>2. q.id \notin Ids
  BY <1>1, ScheduleAssumption
<1>3. KnowsClass(q, sessions)
  BY <1>1 DEF KnowsClass, ClassIsFree, Fresh
<1> HIDE DEF q
<1> QED BY <1>1, <1>2, <1>3 DEF Knows, KnowsRow, KnowsHost, KnowsBoth, KnowsOrder, q

LEMMA MovedKnows ==
  ASSUME NEW i \in Ids, NEW sets, NEW start, NEW end,
         "end" \in sets => Before(NewStart(i, sets, start), end)
  PROVE  Knows(Moved(i, sets, start, end), sessions)
<1> DEFINE q == Moved(i, sets, start, end)
<1>1. /\ q.at = "checking" /\ q.id = i /\ q.sets = sets
      /\ q.class = sessions[i].class /\ q.host = sessions[i].host
      /\ q.start = NewStart(i, sets, start) /\ q.opens = Opens(sets, end)
      /\ q.end = IF "end" \in sets /\ ~Opens(sets, end) THEN end ELSE sessions[i].end
  BY DEF Moved, Idle
<1>2. i # NoOne
  BY ScheduleAssumption
<1>3. KnowsRow(q, sessions)
  BY <1>1 DEF KnowsRow, NewStart
<1>4. KnowsOrder(q, sessions)
  BY <1>1, <1>2 DEF KnowsOrder
<1> HIDE DEF q
<1> QED BY <1>1, <1>3, <1>4 DEF Knows, KnowsClass, KnowsHost, KnowsBoth, q

\* The query for the class finds nothing.
LEMMA CheckedKnows ==
  ASSUME NEW q \in Request, q.at = "checking", Knows(q, sessions), ClassIsFree(q)
  PROVE  Knows([q EXCEPT !.at = "asking"], sessions)
<1> DEFINE p == [q EXCEPT !.at = "asking"]
<1>1. /\ p.at = "asking" /\ p.id = q.id /\ p.class = q.class /\ p.host = q.host
      /\ p.start = q.start /\ p.end = q.end /\ p.sets = q.sets /\ p.opens = q.opens
      /\ p.overtaken = q.overtaken
  BY DEF Request
<1> HIDE DEF p
<1>2. \A u : Overlap(p, u) = Overlap(q, u)
  BY <1>1 DEF Overlap
<1>3. KnowsClass(p, sessions)
  BY <1>1, <1>2 DEF KnowsClass, ClassIsFree, Fresh
<1>4. KnowsRow(p, sessions)
  BY <1>1 DEF Knows, KnowsRow, Fresh
<1>5. KnowsOrder(p, sessions)
  BY <1>1 DEF Knows, KnowsOrder
<1> QED BY <1>1, <1>3, <1>4, <1>5 DEF Knows, KnowsHost, KnowsBoth, p

\* The query for the host finds nothing: createSession goes on ...
LEMMA CreatingKnows ==
  ASSUME NEW q \in Request, q.at = "asking", q.id = NoOne, Knows(q, sessions), HostIsFree(q)
  PROVE  Knows([q EXCEPT !.at = "creating"], sessions)
<1> DEFINE p == [q EXCEPT !.at = "creating"]
<1>1. /\ p.at = "creating" /\ p.id = q.id /\ p.class = q.class /\ p.host = q.host
      /\ p.start = q.start /\ p.end = q.end /\ p.overtaken = q.overtaken
  BY DEF Request
<1> HIDE DEF p
<1>2. \A u : Overlap(p, u) = Overlap(q, u)
  BY <1>1 DEF Overlap
<1>3. KnowsClass(p, sessions)
  BY <1>1, <1>2 DEF Knows, KnowsClass, Fresh
<1>4. KnowsHost(p, sessions)
  BY <1>1, <1>2 DEF KnowsHost, HostIsFree, Fresh
<1>5. KnowsOrder(p, sessions)
  BY <1>1 DEF Knows, KnowsOrder
<1> QED BY <1>1, <1>3, <1>4, <1>5 DEF Knows, KnowsRow, KnowsBoth, p

\* ... and so does updateSession.  What it will write is what it asked about, as
\* long as its row is what it was.
LEMMA AskedKnows ==
  ASSUME TypeInv, NEW q \in Request, q.at = "asking", q.id # NoOne, Knows(q, sessions),
         HostIsFree(q)
  PROVE  Knows(Asked(q), sessions)
<1> DEFINE p == Asked(q)
           i == q.id
<1>1. /\ p.at = "updating" /\ p.id = i /\ p.sets = q.sets /\ p.opens = q.opens
      /\ p.overtaken = q.overtaken
      /\ p.start = IF "start" \in q.sets THEN q.start ELSE 0
      /\ p.end = IF "end" \in q.sets /\ ~q.opens THEN q.end ELSE NoOne
  BY DEF Asked, Idle
<1>2. i \in Ids
  BY DEF Request, Null
<1> HIDE DEF p
<1>3. KnowsBoth(p, sessions)
  <2> SUFFICES ASSUME ~p.opens, Fresh(p, sessions, i),
                      NEW j \in Ids \ {i}, Fresh(p, sessions, j)
               PROVE  ~(SameRoom(sessions[i], sessions[j])
                        /\ Overlap(Updated(p, sessions[i]), sessions[j]))
    BY <1>1 DEF KnowsBoth
  <2>1. Fresh(q, sessions, i) /\ Fresh(q, sessions, j)
    BY <1>1 DEF Fresh
  <2>2. /\ q.class = sessions[i].class /\ q.host = sessions[i].host
        /\ "start" \notin q.sets => q.start = sessions[i].start
        /\ "end" \notin q.sets => q.end = sessions[i].end
    BY <1>2, <2>1 DEF Knows, KnowsRow
  <2>3. Updated(p, sessions[i]).start = q.start /\ Updated(p, sessions[i]).end = q.end
    BY <1>1, <2>2 DEF Updated
  <2>4. Overlap(Updated(p, sessions[i]), sessions[j]) = Overlap(q, sessions[j])
    BY <2>3 DEF Overlap
  <2>5. ~(q.class = sessions[j].class /\ Overlap(q, sessions[j]))
    BY <2>1 DEF Knows, KnowsClass
  <2>6. ~(q.host = sessions[j].host /\ Overlap(q, sessions[j]))
    BY <2>1 DEF HostIsFree, Fresh
  <2> QED BY <2>2, <2>4, <2>5, <2>6 DEF SameRoom
<1>4. KnowsOrder(p, sessions)
  <2>1. p.opens => p.end = NoOne
    BY <1>1
  <2>2. ASSUME "end" \in p.sets, "start" \in p.sets \/ Fresh(p, sessions, p.id)
        PROVE  Before(Updated(p, sessions[p.id]).start, p.end)
    <3>1. CASE p.opens
      BY <2>1, <3>1 DEF Before
    <3>2. CASE ~p.opens
      <4>1. Before(q.start, q.end)
        BY <1>1, <2>2, <3>2 DEF Knows, KnowsOrder
      <4>2. "start" \notin q.sets => q.start = sessions[i].start
        BY <1>1, <1>2, <2>2 DEF Knows, KnowsRow, Fresh
      <4>3. Updated(p, sessions[p.id]).start = q.start
        BY <1>1, <4>2 DEF Updated
      <4> QED BY <1>1, <2>2, <3>2, <4>1, <4>3
    <3> QED BY <3>1, <3>2
  <2> QED BY <1>1, <2>1, <2>2 DEF KnowsOrder
<1> QED BY <1>1, <1>3, <1>4 DEF Knows, KnowsRow, KnowsClass, KnowsHost, p

-----------------------------------------------------------------------------
LEMMA InvStep == Inv /\ [Next]_vars => Inv'
<1> SUFFICES ASSUME Inv, [Next]_vars PROVE Inv'
  OBVIOUS
<1>0. TypeInv'
  BY TypeStep DEF Inv
<1>a. /\ sessions \in Table
      /\ \A r \in Requests : requests[r] \in Request /\ RequestOK(requests[r])
                              /\ Knows(requests[r], sessions)
  BY DEF Inv, TypeInv, TypeOK, Table
<1>1. ASSUME NEW r \in Requests, InsertSession(r) PROVE Inv'
  <2>1. PICK i \in NewIds : FinishWith(r, i) /\ \A j \in Ids \ {i} : sessions'[j] = sessions[j]
    BY <1>1, <1>a DEF InsertSession, Table
  <2> QED BY <1>0, <2>1, FinishKnows DEF NewIds
<1>2. ASSUME NEW r \in Requests, SaveSession(r) PROVE Inv'
  <2>1. requests[r].id \in Ids
    BY <1>2, <1>a DEF SaveSession, At, RequestOK
  <2>2. \A j \in Ids \ {requests[r].id} : sessions'[j] = sessions[j]
    BY <1>2, <1>a DEF SaveSession, Table
  <2> QED BY <1>0, <1>2, <2>1, <2>2, FinishKnows DEF SaveSession
<1>3. ASSUME NEW r \in Requests, SaveEnd(r) PROVE Inv'
  <2>1. requests[r].id \in Ids
    BY <1>3, <1>a DEF SaveEnd, At, RequestOK
  <2>2. \A j \in Ids \ {requests[r].id} : sessions'[j] = sessions[j]
    BY <1>3, <1>a DEF SaveEnd, Table
  <2> QED BY <1>0, <1>3, <2>1, <2>2, FinishKnows DEF SaveEnd
<1>4. ASSUME NEW r \in Requests, CheckUpdate(r) PROVE Inv'
  <2>1. requests' = [requests EXCEPT ![r] = [requests[r] EXCEPT !.at = "asking"]]
    BY <1>4 DEF CheckUpdate
  <2>2. Knows([requests[r] EXCEPT !.at = "asking"], sessions)
    BY <1>4, <1>a, CheckedKnows DEF CheckUpdate, At
  <2> QED BY <1>0, <1>4, <2>1, <2>2, StepKnows DEF CheckUpdate
<1>5. ASSUME NEW r \in Requests, AskHost(r) PROVE Inv'
  <2>1. requests[r].at = "asking" /\ HostIsFree(requests[r]) /\ sessions' = sessions
    BY <1>5 DEF AskHost, At
  <2>2. CASE requests[r].id = NoOne
    <3>1. requests' = [requests EXCEPT ![r] = [requests[r] EXCEPT !.at = "creating"]]
      BY <1>5, <2>2 DEF AskHost
    <3>2. Knows([requests[r] EXCEPT !.at = "creating"], sessions)
      BY <1>a, <2>1, <2>2, CreatingKnows
    <3> QED BY <1>0, <2>1, <3>1, <3>2, StepKnows
  <2>3. CASE requests[r].id # NoOne
    <3>1. requests' = [requests EXCEPT ![r] = Asked(requests[r])]
      BY <1>5, <2>3 DEF AskHost, Asked
    <3>2. Knows(Asked(requests[r]), sessions)
      BY <1>a, <2>1, <2>3, AskedKnows DEF Inv
    <3> QED BY <1>0, <2>1, <3>1, <3>2, StepKnows
  <2> QED BY <2>2, <2>3
<1>6. ASSUME NEW r \in Requests, Refuse(r) PROVE Inv'
  BY <1>0, <1>6, IdleKnows, StepKnows DEF Refuse, Finish
<1>7. ASSUME NEW r \in Requests, NEW start \in Starts, NEW end \in Null(Ends),
             NEW c \in Classes, NEW h \in Hosts, CreateSession(r, c, h, start, end)
      PROVE  Inv'
  <2>1. /\ requests' = [requests EXCEPT ![r] = Booked(c, h, start, end)]
        /\ Before(start, end) /\ ClassIsFree(Booked(c, h, start, end))
        /\ sessions' = sessions
    BY <1>7 DEF CreateSession, Start, Booked
  <2> QED BY <1>0, <2>1, BookedKnows, StepKnows
<1>8. ASSUME NEW r \in Requests, NEW start \in Starts, NEW end \in Null(Ends),
             NEW i \in Ids, NEW sets \in SUBSET {"start", "end"},
             UpdateSession(r, i, sets, start, end)
      PROVE  Inv'
  <2>1. /\ requests' = [requests EXCEPT ![r] = Moved(i, sets, start, end)]
        /\ "end" \in sets => Before(NewStart(i, sets, start), end)
        /\ sessions' = sessions
    BY <1>8 DEF UpdateSession, Start, Moved, NewStart, Opens
  <2> QED BY <1>0, <2>1, MovedKnows, StepKnows
<1>9. ASSUME NEW r \in Requests, NEW i \in Ids, EndSession(r, i) PROVE Inv'
  <2> DEFINE q == [Idle EXCEPT !.at = "ending", !.id = i]
  <2>1. requests' = [requests EXCEPT ![r] = q] /\ sessions' = sessions
    BY <1>9 DEF EndSession, Start
  <2>2. Knows(q, sessions)
    BY DEF Idle, Knows, KnowsRow, KnowsClass, KnowsHost, KnowsBoth, KnowsOrder
  <2> QED BY <1>0, <2>1, <2>2, StepKnows
<1>10. ASSUME NEW i \in Ids, DeleteSession(i) PROVE Inv'
  BY <1>0, <1>10, <1>a, DeleteKnows DEF DeleteSession, Table
<1>11. CASE Maintenance
  BY <1>0, <1>11, DeleteKnows DEF Maintenance
<1>12. CASE Tick
  BY <1>0, <1>12, DeleteKnows DEF Tick
<1>13. CASE UNCHANGED vars
  BY <1>0, <1>13, DeleteKnows DEF vars
<1> QED BY <1>1, <1>2, <1>3, <1>4, <1>5, <1>6, <1>7, <1>8, <1>9, <1>10, <1>11, <1>12, <1>13
    DEF Next, Resume, Receive

-----------------------------------------------------------------------------
(* Clashes                                                                 *)

\* How a handler may bring about a clash of rows i and j (see ClashNeedsOverlap).
Excused(r, i, j) ==
  \/ Overtaken(r, i, j)
  \/ requests[r].id \in {i, j} /\ requests[r].opens
  \/ /\ requests[r].id \in {i, j}
     /\ At(r, "ending") /\ ~Before(now, sessions[requests[r].id].end)

LEMMA ClashSymmetric == \A i, j \in Ids : Clash(i, j) <=> Clash(j, i)
BY DEF Clash, SameRoom, Overlap

\* Before, of times, is what it is of numbers; no end is after everything.
LEMMA BeforeFacts ==
  ASSUME NEW t \in Times, NEW u \in Times, NEW e \in Null(Times)
  PROVE  /\ Before(t, NoOne)
         /\ Before(t, u) <=> t < u
         /\ Before(t, u) /\ Before(u, e) => Before(t, e)
<1>1. t \in Nat /\ u \in Nat /\ u # NoOne
  BY TimeFacts, ScheduleAssumption
<1>2. CASE e = NoOne
  BY <1>1, <1>2 DEF Before
<1>3. CASE e # NoOne
  <2>1. e \in Nat
    BY <1>3, TimeFacts DEF Null
  <2> QED BY <1>1, <2>1 DEF Before
<1> QED BY <1>2, <1>3

LEMMA InsertClash ==
  ASSUME Inv, NEW r \in Requests, InsertSession(r),
         NEW i \in Ids, NEW j \in Ids, i # j, ~Clash(i, j), Clash(i, j)'
  PROVE  requests'[r] = Idle /\ Excused(r, i, j)
<1> DEFINE q == requests[r]
<1>1. PICK k \in NewIds :
        /\ sessions' = [sessions EXCEPT ![k] =
             [class |-> q.class, host |-> q.host, start |-> q.start, end |-> q.end]]
        /\ FinishWith(r, k)
  BY DEF InsertSession
<1>2. requests'[r] = Idle
  BY <1>1 DEF FinishWith
<1>3. /\ q.at = "creating" /\ q.id = NoOne /\ Knows(q, sessions) /\ k \in Ids
      /\ sessions \in Table
  BY <1>1 DEF InsertSession, At, Inv, TypeInv, TypeOK, RequestOK, Table, NewIds
<1> HIDE DEF q
<1>4. ASSUME NEW l \in Ids, l # k, Clash(k, l)' PROVE l \in q.overtaken
  <2>1. /\ sessions'[l] = sessions[l] /\ sessions[l] # NoOne
        /\ sessions'[k].class = q.class /\ sessions'[k].host = q.host
        /\ sessions'[k].start = q.start /\ sessions'[k].end = q.end
    BY <1>1, <1>3, <1>4 DEF Clash, Table
  <2>2. (q.class = sessions[l].class \/ q.host = sessions[l].host) /\ Overlap(q, sessions[l])
    BY <1>4, <2>1 DEF Clash, SameRoom, Overlap
  <2>3. l \in Ids \ {q.id}
    BY <1>3, ScheduleAssumption
  <2> QED BY <1>3, <2>1, <2>2, <2>3 DEF Knows, KnowsClass, KnowsHost, Fresh
<1>5. CASE k = i
  BY <1>2, <1>4, <1>5 DEF Excused, Overtaken, q
<1>6. CASE k = j
  <2>1. Clash(k, i)'
    BY <1>6 DEF Clash, SameRoom, Overlap
  <2> QED BY <1>2, <1>4, <1>6, <2>1 DEF Excused, Overtaken, q
<1>7. CASE k \notin {i, j}
  <2>1. sessions'[i] = sessions[i] /\ sessions'[j] = sessions[j]
    BY <1>1, <1>3, <1>7 DEF Table
  <2> QED BY <2>1 DEF Clash
<1> QED BY <1>5, <1>6, <1>7

LEMMA SaveClash ==
  ASSUME Inv, NEW r \in Requests, SaveSession(r),
         NEW i \in Ids, NEW j \in Ids, i # j, ~Clash(i, j), Clash(i, j)'
  PROVE  requests'[r] = Idle /\ Excused(r, i, j)
<1> DEFINE q == requests[r]
<1>0. PICK k \in Ids : k = q.id
  BY DEF SaveSession, At, Inv, TypeInv, RequestOK
<1>1. requests'[r] = Idle
  BY DEF SaveSession, FinishWith
<1>2. /\ q.at = "updating" /\ k \in Ids /\ Knows(q, sessions) /\ sessions[k] \in Session
      /\ sessions \in Table /\ sessions[k] # NoOne
  BY <1>0 DEF SaveSession, At, Inv, TypeInv, TypeOK, Table, Null
<1>3. sessions' = [sessions EXCEPT ![k] = [sessions[k] EXCEPT
        !.start = IF "start" \in q.sets THEN q.start ELSE @,
        !.end = IF "end" \in q.sets THEN q.end ELSE @]]
  BY <1>0, <1>2 DEF SaveSession, Table, Session
<1> HIDE DEF q
<1>4. /\ sessions'[k].class = sessions[k].class /\ sessions'[k].host = sessions[k].host
      /\ sessions'[k].start = Updated(q, sessions[k]).start
      /\ sessions'[k].end = Updated(q, sessions[k]).end
  BY <1>2, <1>3 DEF Table, Session, Updated
<1>5. ASSUME NEW l \in Ids, l # k, Clash(k, l)', ~q.opens
      PROVE  k \in q.overtaken \/ l \in q.overtaken
  <2>1. sessions'[l] = sessions[l] /\ sessions[l] # NoOne
    BY <1>2, <1>3, <1>5 DEF Clash, Table
  <2>2. SameRoom(sessions[k], sessions[l]) /\ Overlap(Updated(q, sessions[k]), sessions[l])
    BY <1>4, <1>5, <2>1 DEF Clash, SameRoom, Overlap
  <2> QED BY <1>0, <1>2, <1>5, <2>1, <2>2 DEF Knows, KnowsBoth, Fresh
<1>6. CASE k = i
  BY <1>0, <1>1, <1>5, <1>6 DEF Excused, Overtaken, q
<1>7. CASE k = j
  <2>1. Clash(k, i)'
    BY <1>7 DEF Clash, SameRoom, Overlap
  <2> QED BY <1>0, <1>1, <1>5, <1>7, <2>1 DEF Excused, Overtaken, q
<1>8. CASE k \notin {i, j}
  <2>1. sessions'[i] = sessions[i] /\ sessions'[j] = sessions[j]
    BY <1>2, <1>3, <1>8 DEF Table
  <2> QED BY <2>1 DEF Clash
<1> QED BY <1>6, <1>7, <1>8

LEMMA EndClash ==
  ASSUME Inv, NEW r \in Requests, SaveEnd(r),
         NEW i \in Ids, NEW j \in Ids, i # j, ~Clash(i, j), Clash(i, j)'
  PROVE  requests'[r] = Idle /\ Excused(r, i, j)
<1>0. PICK k \in Ids : k = requests[r].id
  BY DEF SaveEnd, At, Inv, TypeInv, RequestOK
<1>1. requests'[r] = Idle
  BY DEF SaveEnd, FinishWith
<1>2. /\ k \in Ids /\ sessions[k] # NoOne /\ sessions \in Table
      /\ sessions' = [sessions EXCEPT ![k].end = now]
  BY <1>0 DEF SaveEnd, At, Inv, TypeInv, TypeOK, Table
<1>3. sessions[k] \in Session /\ now \in Times
  BY <1>2 DEF Table, Null, Inv, TypeInv, TypeOK, Times
<1>4. /\ sessions'[k].class = sessions[k].class /\ sessions'[k].host = sessions[k].host
      /\ sessions'[k].start = sessions[k].start /\ sessions'[k].end = now
  BY <1>2, <1>3 DEF Table, Session
<1>5. ASSUME NEW l \in Ids, l # k, Clash(k, l)', Before(now, sessions[k].end)
      PROVE  Clash(k, l)
  <2>1. sessions'[l] = sessions[l] /\ sessions[l] # NoOne /\ sessions[l] \in Session
    BY <1>2, <1>5 DEF Clash, Table, Null
  <2>2. sessions[l].start \in Times /\ sessions[k].end \in Null(Times)
    BY <1>3, <2>1 DEF Session
  <2>3. /\ SameRoom(sessions[k], sessions[l])
        /\ Before(sessions[k].start, sessions[l].end) /\ Before(sessions[l].start, now)
    BY <1>4, <1>5, <2>1 DEF Clash, SameRoom, Overlap
  <2>4. Before(sessions[l].start, sessions[k].end)
    BY <1>3, <1>5, <2>2, <2>3, BeforeFacts
  <2> QED BY <1>2, <2>1, <2>3, <2>4 DEF Clash, Overlap
<1>6. At(r, "ending")
  BY DEF SaveEnd
<1>7. CASE k = i
  BY <1>0, <1>1, <1>5, <1>6, <1>7 DEF Excused
<1>8. CASE k = j
  <2>1. Clash(k, i)' /\ ~Clash(k, i)
    BY <1>8, ClashSymmetric DEF Clash, SameRoom, Overlap
  <2> QED BY <1>0, <1>1, <1>5, <1>6, <1>8, <2>1 DEF Excused
<1>9. CASE k \notin {i, j}
  <2>1. sessions'[i] = sessions[i] /\ sessions'[j] = sessions[j]
    BY <1>2, <1>9 DEF Table
  <2> QED BY <2>1 DEF Clash
<1> QED BY <1>7, <1>8, <1>9

\* The steps that write no row, or only delete some.
Writes == \E r \in Requests : InsertSession(r) \/ SaveSession(r) \/ SaveEnd(r)

LEMMA OthersDelete ==
  ASSUME TypeInv, [Next]_vars, ~Writes
  PROVE  \A i \in Ids : sessions'[i] = sessions[i] \/ sessions'[i] = NoOne
<1>1. CASE UNCHANGED vars
  BY <1>1 DEF vars
<1>2. CASE Next
  <2>1. ASSUME NEW i \in Ids, DeleteSession(i)
        PROVE  \A j \in Ids : sessions'[j] = sessions[j] \/ sessions'[j] = NoOne
    BY <2>1 DEF DeleteSession, TypeInv, TypeOK
  <2>2. ASSUME Maintenance
        PROVE  \A j \in Ids : sessions'[j] = sessions[j] \/ sessions'[j] = NoOne
    BY <2>2 DEF Maintenance
  <2>3. ASSUME NEW r \in Requests, Resume(r) PROVE sessions' = sessions
    BY <2>3 DEF Resume, Writes, CheckUpdate, AskHost, Refuse
  <2>4. ASSUME NEW r \in Requests, Receive(r) PROVE sessions' = sessions
    BY <2>4, Zenon DEF Receive, CreateSession, UpdateSession, EndSession
  <2> QED BY <1>2, <2>1, <2>2, <2>3, <2>4 DEF Next, Tick
<1> QED BY <1>1, <1>2

\* Two sessions come to clash only in a write that was overtaken, that takes an end
\* away, or that ends a session already over.
THEOREM ClashesNeedOverlap == Spec => ClashNeedsOverlap
<1>1. ASSUME Inv, [Next]_vars
      PROVE  [\A i, j \in Ids :
                i # j /\ ~Clash(i, j) /\ Clash(i, j)' =>
                  \E r \in Requests :
                    /\ requests[r] # Idle /\ requests'[r] = Idle
                    /\ \/ Overtaken(r, i, j)
                       \/ requests[r].id \in {i, j} /\ requests[r].opens
                       \/ /\ requests[r].id \in {i, j}
                          /\ At(r, "ending") /\ ~Before(now, sessions[requests[r].id].end)
             ]_vars
  <2> SUFFICES ASSUME NEW i \in Ids, NEW j \in Ids, i # j, ~Clash(i, j), Clash(i, j)'
               PROVE  \E r \in Requests :
                        requests[r] # Idle /\ requests'[r] = Idle /\ Excused(r, i, j)
    BY DEF Excused
  <2>1. CASE Writes
    <3>1. PICK r \in Requests : InsertSession(r) \/ SaveSession(r) \/ SaveEnd(r)
      BY <2>1 DEF Writes
    <3>2. requests[r] # Idle
      BY <3>1 DEF InsertSession, SaveSession, SaveEnd, At, Idle
    <3>3. requests'[r] = Idle /\ Excused(r, i, j)
      BY <1>1, <3>1, InsertClash, SaveClash, EndClash
    <3> QED BY <3>2, <3>3
  <2>2. CASE ~Writes
    <3>1. \A k \in Ids : sessions'[k] = sessions[k] \/ sessions'[k] = NoOne
      BY <1>1, <2>2, OthersDelete DEF Inv
    <3>2. sessions'[i] = sessions[i] /\ sessions'[j] = sessions[j]
      BY <3>1 DEF Clash
    <3> QED BY <3>2 DEF Clash
  <2> QED BY <2>1, <2>2
<1> QED BY <1>1, InvInit, InvStep, PTL DEF Spec, ClashNeedsOverlap

-----------------------------------------------------------------------------
(* Order of start and end                                                  *)

LEMMA InsertOrder ==
  ASSUME Inv, NEW r \in Requests, InsertSession(r), NEW i \in Ids, ~Inverted(i)
  PROVE  ~Inverted(i)'
<1> DEFINE q == requests[r]
<1>1. PICK k \in NewIds :
        sessions' = [sessions EXCEPT ![k] =
          [class |-> q.class, host |-> q.host, start |-> q.start, end |-> q.end]]
  BY DEF InsertSession
<1>2. /\ q.at = "creating" /\ Knows(q, sessions) /\ sessions \in Table
  BY DEF InsertSession, At, Inv, TypeInv, TypeOK, Table
<1> HIDE DEF q
<1>3. Before(q.start, q.end)
  BY <1>2 DEF Knows, KnowsOrder
<1> QED BY <1>1, <1>2, <1>3 DEF Inverted, Table

LEMMA SaveOrder ==
  ASSUME Inv, NEW r \in Requests, SaveSession(r), NEW i \in Ids, ~Inverted(i), Inverted(i)'
  PROVE  /\ requests[r].id = i /\ requests'[r] = Idle
         /\ requests[r].sets = {"start"} \/ i \in requests[r].overtaken
<1> DEFINE q == requests[r]
<1>0. PICK k \in Ids : k = q.id
  BY DEF SaveSession, At, Inv, TypeInv, RequestOK
<1>1. requests'[r] = Idle
  BY DEF SaveSession, FinishWith
<1>2. /\ q.at = "updating" /\ Knows(q, sessions) /\ sessions[k] \in Session
      /\ sessions \in Table /\ sessions[k] # NoOne /\ q \in Request
  BY <1>0 DEF SaveSession, At, Inv, TypeInv, TypeOK, Table, Null
<1>3. sessions' = [sessions EXCEPT ![k] = [sessions[k] EXCEPT
        !.start = IF "start" \in q.sets THEN q.start ELSE @,
        !.end = IF "end" \in q.sets THEN q.end ELSE @]]
  BY <1>0, <1>2 DEF SaveSession, Table, Session
<1> HIDE DEF q
<1>4. k = i
  BY <1>2, <1>3 DEF Inverted, Table
<1>5. /\ sessions'[k].start = Updated(q, sessions[k]).start
      /\ sessions'[k].end = Updated(q, sessions[k]).end
      /\ sessions'[k] # NoOne
  BY <1>2, <1>3, <1>4 DEF Table, Session, Updated, Inverted
<1>6. ~Before(Updated(q, sessions[k]).start, Updated(q, sessions[k]).end)
  BY <1>4, <1>5 DEF Inverted
<1>7. CASE "end" \in q.sets
  <2>1. Updated(q, sessions[k]).end = q.end
    BY <1>7 DEF Updated
  <2>2. ~Fresh(q, sessions, k)
    BY <1>0, <1>2, <1>6, <1>7, <2>1 DEF Knows, KnowsOrder
  <2> QED BY <1>0, <1>1, <1>2, <1>4, <2>2 DEF Fresh, q
<1>8. CASE "end" \notin q.sets
  <2>1. "start" \in q.sets
    BY <1>2, <1>4, <1>6, <1>8 DEF Updated, Inverted
  <2>2. q.sets = {"start"}
    BY <1>2, <1>8, <2>1 DEF Request
  <2> QED BY <1>0, <1>1, <1>4, <2>2 DEF q
<1> QED BY <1>7, <1>8

LEMMA EndOrder ==
  ASSUME Inv, NEW r \in Requests, SaveEnd(r), NEW i \in Ids, ~Inverted(i), Inverted(i)'
  PROVE  /\ requests[r].id = i /\ requests'[r] = Idle
         /\ At(r, "ending") /\ now <= sessions[i].start
<1>0. PICK k \in Ids : k = requests[r].id
  BY DEF SaveEnd, At, Inv, TypeInv, RequestOK
<1>1. requests'[r] = Idle /\ At(r, "ending")
  BY DEF SaveEnd, FinishWith
<1>2. /\ sessions[k] # NoOne /\ sessions \in Table
      /\ sessions' = [sessions EXCEPT ![k].end = now]
  BY <1>0 DEF SaveEnd, Inv, TypeInv, TypeOK, Table
<1>3. k = i
  BY <1>2 DEF Inverted, Table
<1>4. sessions[i] \in Session /\ now \in Times
  BY <1>2, <1>3 DEF Table, Null, Inv, TypeInv, TypeOK, Times
<1>5. sessions'[i].start = sessions[i].start /\ sessions'[i].end = now
  BY <1>2, <1>3, <1>4 DEF Table, Session
<1>6. sessions[i].start \in Times
  BY <1>4 DEF Session
<1>7. ~Before(sessions[i].start, now)
  BY <1>5 DEF Inverted
<1>8. now \in Nat /\ sessions[i].start \in Nat /\ now # NoOne
  BY <1>4, <1>6, TimeFacts
<1>9. now <= sessions[i].start
  BY <1>7, <1>8 DEF Before
<1> QED BY <1>0, <1>1, <1>3, <1>9

\* A session comes to end no later than it starts only by an endSession before its
\* start, an update of the start alone, or an update that was overtaken.
THEOREM InversionsNeedCause == Spec => InvertedNeedsCause
<1>1. ASSUME Inv, [Next]_vars
      PROVE  [\A i \in Ids :
                ~Inverted(i) /\ Inverted(i)' =>
                  \E r \in Requests :
                    /\ requests[r].id = i /\ requests'[r] = Idle
                    /\ \/ At(r, "ending") /\ now <= sessions[i].start
                       \/ At(r, "updating") /\ requests[r].sets = {"start"}
                       \/ At(r, "updating") /\ i \in requests[r].overtaken
             ]_vars
  <2> SUFFICES ASSUME NEW i \in Ids, ~Inverted(i), Inverted(i)'
               PROVE  \E r \in Requests :
                        /\ requests[r].id = i /\ requests'[r] = Idle
                        /\ \/ At(r, "ending") /\ now <= sessions[i].start
                           \/ At(r, "updating") /\ requests[r].sets = {"start"}
                           \/ At(r, "updating") /\ i \in requests[r].overtaken
    OBVIOUS
  <2>1. ASSUME NEW r \in Requests, InsertSession(r) PROVE FALSE
    BY <1>1, <2>1, InsertOrder
  <2>2. ASSUME NEW r \in Requests, SaveSession(r)
        PROVE  /\ requests[r].id = i /\ requests'[r] = Idle
               /\ At(r, "updating")
               /\ requests[r].sets = {"start"} \/ i \in requests[r].overtaken
    BY <1>1, <2>2, SaveOrder DEF SaveSession
  <2>3. ASSUME NEW r \in Requests, SaveEnd(r)
        PROVE  /\ requests[r].id = i /\ requests'[r] = Idle
               /\ At(r, "ending") /\ now <= sessions[i].start
    BY <1>1, <2>3, EndOrder
  <2>4. CASE ~Writes
    <3>1. sessions'[i] = sessions[i] \/ sessions'[i] = NoOne
      BY <1>1, <2>4, OthersDelete DEF Inv
    <3> QED BY <3>1 DEF Inverted
  <2> QED BY <2>1, <2>2, <2>3, <2>4 DEF Writes
<1> QED BY <1>1, InvInit, InvStep, PTL DEF Spec, InvertedNeedsCause

-----------------------------------------------------------------------------
(* One handler after the other                                             *)

\* The calendar that checkSessionConflicts is there for.
Diary == INSTANCE Calendar

OneAtATime == \A p, q \in Requests : p = q

\* With nobody beside it, a handler is not overtaken.
InOrderInv == OneAtATime => \A r \in Requests : requests[r].overtaken = {}

LEMMA FinishInOrder ==
  ASSUME OneAtATime, NEW r \in Requests, NEW i, FinishWith(r, i)
  PROVE  \A p \in Requests : requests'[p].overtaken = {}
BY DEF FinishWith, OneAtATime, Idle

LEMMA InOrderStep == TypeInv /\ InOrderInv /\ [Next]_vars => InOrderInv'
<1> SUFFICES ASSUME TypeInv, InOrderInv, [Next]_vars, OneAtATime
             PROVE  \A p \in Requests : requests'[p].overtaken = {}
  BY DEF InOrderInv, OneAtATime
<1>0. /\ \A r \in Requests : requests[r].overtaken = {} /\ requests[r] \in Request
      /\ requests \in [Requests -> Request]
  BY DEF InOrderInv, TypeInv, TypeOK
<1>1. ASSUME NEW r \in Requests, InsertSession(r) \/ SaveSession(r) \/ SaveEnd(r)
      PROVE  \A p \in Requests : requests'[p].overtaken = {}
  BY <1>1, FinishInOrder DEF InsertSession, SaveSession, SaveEnd
<1>2. ASSUME NEW r \in Requests, NEW q, q.overtaken = {},
             requests' = [requests EXCEPT ![r] = q]
      PROVE  \A p \in Requests : requests'[p].overtaken = {}
  BY <1>0, <1>2
<1>3. ASSUME NEW r \in Requests, CheckUpdate(r) \/ AskHost(r) \/ Refuse(r)
      PROVE  \A p \in Requests : requests'[p].overtaken = {}
  <2>1. CASE CheckUpdate(r)
    BY <1>0, <2>1 DEF CheckUpdate, Request
  <2>2. CASE AskHost(r)
    BY <1>0, <2>2 DEF AskHost, Request, Idle
  <2>3. CASE Refuse(r)
    BY <1>2, <2>3 DEF Refuse, Finish, Idle
  <2> QED BY <1>3, <2>1, <2>2, <2>3
<1>4. ASSUME NEW r \in Requests, Receive(r)
      PROVE  \A p \in Requests : requests'[p].overtaken = {}
  <2>1. ASSUME NEW start \in Starts, NEW end \in Null(Ends), NEW c \in Classes, NEW h \in Hosts,
               CreateSession(r, c, h, start, end)
        PROVE  \A p \in Requests : requests'[p].overtaken = {}
    BY <1>0, <2>1 DEF CreateSession, Start, Idle
  <2>2. ASSUME NEW start \in Starts, NEW end \in Null(Ends), NEW i \in Ids,
               NEW sets \in SUBSET {"start", "end"}, UpdateSession(r, i, sets, start, end)
        PROVE  \A p \in Requests : requests'[p].overtaken = {}
    BY <1>0, <2>2 DEF UpdateSession, Start, Idle
  <2>3. ASSUME NEW i \in Ids, EndSession(r, i)
        PROVE  \A p \in Requests : requests'[p].overtaken = {}
    BY <1>0, <2>3 DEF EndSession, Start, Idle
  <2> QED BY <1>4, <2>1, <2>2, <2>3 DEF Receive
<1>5. CASE (\E i \in Ids : DeleteSession(i)) \/ Maintenance \/ Tick \/ UNCHANGED vars
  BY <1>0, <1>5 DEF DeleteSession, Maintenance, Tick, vars
<1> QED BY <1>1, <1>3, <1>4, <1>5 DEF Next, Resume

-----------------------------------------------------------------------------
(* A write that nothing has overtaken is one of the calendar's              *)

Unovertaken == \A r \in Requests : requests[r].overtaken = {}

LEMMA InsertIsBooking ==
  ASSUME Inv, TypeInv', NEW r \in Requests, requests[r].overtaken = {}, InsertSession(r)
  PROVE  \E i \in Ids, s \in Session : Diary!Book(i, s)
<1> DEFINE q == requests[r]
           s == [class |-> q.class, host |-> q.host, start |-> q.start, end |-> q.end]
<1>1. PICK i \in NewIds : sessions' = [sessions EXCEPT ![i] = s]
  BY DEF InsertSession
<1>2. /\ q.at = "creating" /\ q.id = NoOne /\ Knows(q, sessions) /\ i \in Ids
      /\ q.overtaken = {} /\ sessions[i] = NoOne /\ now' = now
      /\ q \in Request /\ RequestOK(q)
  BY <1>1 DEF InsertSession, At, Inv, TypeInv, TypeOK, RequestOK, NewIds
<1> HIDE DEF q
<1>3. s \in Session
  BY <1>2 DEF Request, RequestOK, Session
<1>4. s.class = q.class /\ s.host = q.host /\ s.start = q.start /\ s.end = q.end
  OBVIOUS
<1>5. Diary!Fits(s, i)
  <2> SUFFICES ASSUME NEW j \in Ids \ {i}, sessions[j] # NoOne
               PROVE  ~Diary!InTheWay(s, sessions[j])
    BY DEF Diary!Fits
  <2>1. Fresh(q, sessions, j) /\ j # q.id
    BY <1>2, ScheduleAssumption DEF Fresh
  <2>2. /\ ~(q.class = sessions[j].class /\ Overlap(q, sessions[j]))
        /\ ~(q.host = sessions[j].host /\ Overlap(q, sessions[j]))
    BY <1>2, <2>1 DEF Knows, KnowsClass, KnowsHost
  <2> QED BY <1>4, <2>2 DEF Diary!InTheWay, Diary!Before, Overlap, Before
<1>6. Diary!Before(s.start, s.end)
  BY <1>2, <1>4 DEF Knows, KnowsOrder, Before, Diary!Before
<1> HIDE DEF s
<1>7. Diary!Book(i, s)
  BY <1>1, <1>2, <1>5, <1>6 DEF Diary!Book
<1> QED BY <1>2, <1>3, <1>7

LEMMA SaveIsMove ==
  ASSUME Inv, NEW r \in Requests, requests[r].overtaken = {}, SaveSession(r)
  PROVE  \E i \in Ids : \/ \E s \in Session : Diary!Move(i, s)
                        \/ \E start \in Times : Diary!TakeEndAway(i, start)
<1> DEFINE q == requests[r]
<1>0. PICK i \in Ids : i = q.id
  BY DEF SaveSession, At, Inv, TypeInv, RequestOK
<1>1. /\ q.at = "updating" /\ Knows(q, sessions) /\ sessions[i] \in Session
      /\ sessions \in Table /\ sessions[i] # NoOne /\ q \in Request /\ q.overtaken = {}
      /\ RequestOK(q) /\ now' = now
  BY <1>0 DEF SaveSession, At, Inv, TypeInv, TypeOK, Table, Null
<1> DEFINE s == [sessions[i] EXCEPT
                   !.start = IF "start" \in q.sets THEN q.start ELSE @,
                   !.end = IF "end" \in q.sets THEN q.end ELSE @]
<1>2. sessions' = [sessions EXCEPT ![i] = s]
  BY <1>0, <1>1 DEF SaveSession, Table, Session
<1> HIDE DEF q
<1>3. /\ s \in Session
      /\ s.class = sessions[i].class /\ s.host = sessions[i].host
      /\ s.start = Updated(q, sessions[i]).start /\ s.end = Updated(q, sessions[i]).end
  BY <1>1 DEF Session, Request, Updated
<1>4. CASE q.opens
  <2>1. q.end = NoOne
    BY <1>1, <1>4 DEF Knows, KnowsOrder
  <2>2. s = [sessions[i] EXCEPT !.start = s.start, !.end = NoOne]
    BY <1>1, <1>4, <2>1 DEF Session, RequestOK
  <2>3. PICK start \in Times : start = s.start
    BY <1>3 DEF Session
  <2>4. sessions' = [sessions EXCEPT ![i].start = start, ![i].end = NoOne]
    BY <1>1, <1>2, <2>2, <2>3 DEF Table, Session
  <2>5. Diary!TakeEndAway(i, start)
    BY <1>1, <2>4 DEF Diary!TakeEndAway
  <2> QED BY <2>5
<1>5. CASE ~q.opens
  <2>1. Fresh(q, sessions, i)
    BY <1>1 DEF Fresh
  <2>2. Diary!Fits(s, i)
    <3> SUFFICES ASSUME NEW j \in Ids \ {i}, sessions[j] # NoOne
                 PROVE  ~Diary!InTheWay(s, sessions[j])
      BY DEF Diary!Fits
    <3>1. Fresh(q, sessions, j)
      BY <1>1 DEF Fresh
    <3>2. ~(SameRoom(sessions[i], sessions[j])
            /\ Overlap(Updated(q, sessions[i]), sessions[j]))
      BY <1>0, <1>1, <1>5, <2>1, <3>1 DEF Knows, KnowsBoth
    <3> QED BY <1>3, <3>2 DEF Diary!InTheWay, Diary!Before, Overlap, Before, SameRoom
  <2>3. s.end # sessions[i].end => Diary!Before(s.start, s.end)
    <3> SUFFICES ASSUME s.end # sessions[i].end PROVE Diary!Before(s.start, s.end)
      OBVIOUS
    <3>1. "end" \in q.sets /\ s.end = q.end
      BY <1>3 DEF Updated
    <3>2. Before(Updated(q, sessions[i]).start, q.end)
      BY <1>0, <1>1, <2>1, <3>1 DEF Knows, KnowsOrder
    <3> QED BY <1>3, <3>1, <3>2 DEF Before, Diary!Before
  <2> HIDE DEF s
  <2>4. Diary!Move(i, s)
    BY <1>1, <1>2, <1>3, <2>2, <2>3 DEF Diary!Move
  <2> QED BY <1>3, <2>4
<1> QED BY <1>4, <1>5

LEMMA CalendarStep ==
  ASSUME Inv, TypeInv', Unovertaken, [Next]_vars
  PROVE  [Diary!Next]_(Diary!vars)
<1>0. \A r \in Requests : requests[r].overtaken = {}
  BY DEF Unovertaken
<1>1. ASSUME NEW r \in Requests, InsertSession(r) PROVE Diary!Next
  BY <1>0, <1>1, InsertIsBooking DEF Diary!Next, Diary!Session, Session, Null
<1>2. ASSUME NEW r \in Requests, SaveSession(r) PROVE Diary!Next
  BY <1>0, <1>2, SaveIsMove DEF Diary!Next, Diary!Session, Session, Null
<1>3. ASSUME NEW r \in Requests, SaveEnd(r) PROVE Diary!Next
  <2>1. PICK i \in Ids : i = requests[r].id
    BY <1>3 DEF SaveEnd, At, Inv, TypeInv, RequestOK
  <2>2. Diary!EndNow(i)
    BY <1>3, <2>1 DEF SaveEnd, Diary!EndNow
  <2> QED BY <2>2 DEF Diary!Next
<1>4. ASSUME NEW I \in SUBSET Ids,
             sessions' = [i \in Ids |-> IF i \in I THEN NoOne ELSE sessions[i]], now' = now
      PROVE  Diary!Next
  <2>1. Diary!Cancel(I)
    BY <1>4 DEF Diary!Cancel
  <2> QED BY <2>1 DEF Diary!Next
<1>5. ASSUME NEW i \in Ids, DeleteSession(i) PROVE Diary!Next
  <2>1. sessions' = [j \in Ids |-> IF j \in {i} THEN NoOne ELSE sessions[j]]
    BY <1>5 DEF DeleteSession, Inv, TypeInv, TypeOK
  <2> QED BY <1>4, <1>5, <2>1 DEF DeleteSession
<1>6. CASE Maintenance
  <2> DEFINE I == {i \in Ids : sessions[i] # NoOne /\ Old(sessions[i])}
  <2>1. sessions' = [i \in Ids |-> IF i \in I THEN NoOne ELSE sessions[i]]
    BY <1>6 DEF Maintenance
  <2>2. now' = now
    BY <1>6 DEF Maintenance
  <2> HIDE DEF I
  <2>3. I \in SUBSET Ids
    BY DEF I
  <2> QED BY <1>4, <2>1, <2>2, <2>3
<1>7. CASE Tick
  BY <1>7 DEF Tick, Diary!Tick, Diary!Next
<1>8. ASSUME NEW r \in Requests, CheckUpdate(r) \/ AskHost(r) \/ Refuse(r)
      PROVE  UNCHANGED Diary!vars
  BY <1>8 DEF CheckUpdate, AskHost, Refuse, Diary!vars
<1>9. ASSUME NEW r \in Requests, Receive(r) PROVE UNCHANGED Diary!vars
  BY <1>9, Zenon DEF Receive, CreateSession, UpdateSession, EndSession, Diary!vars
<1>10. CASE UNCHANGED vars
  BY <1>10 DEF vars, Diary!vars
<1> QED BY <1>1, <1>2, <1>3, <1>5, <1>6, <1>7, <1>8, <1>9, <1>10 DEF Next, Resume

\* Whenever no running handler has been overtaken, what happens to the sessions is a
\* step of the calendar: the two queries and the write come to one.
THEOREM UnovertakenIsCalendar ==
  Spec => [][Unovertaken => [Diary!Next]_(Diary!vars)]_vars
<1>1. Inv /\ TypeInv' /\ [Next]_vars => [Unovertaken => [Diary!Next]_(Diary!vars)]_vars
  BY CalendarStep
<1>2. Inv => TypeInv
  BY DEF Inv
<1> QED BY <1>1, <1>2, InvInit, InvStep, PTL DEF Spec

\* One handler after the other, SessionService implements the calendar.
THEOREM InOrderIsCalendar ==
  ASSUME OneAtATime PROVE Spec => Diary!Spec
<1>1. Init => Diary!Init /\ InOrderInv
  BY DEF Init, Diary!Init, InOrderInv, Idle
<1>2. Inv /\ InOrderInv /\ TypeInv' /\ [Next]_vars => [Diary!Next]_(Diary!vars)
  BY CalendarStep DEF InOrderInv, Unovertaken
<1>3. Inv /\ InOrderInv /\ [Next]_vars => InOrderInv'
  BY InOrderStep DEF Inv
<1>4. Inv => TypeInv
  BY DEF Inv
<1> QED BY <1>1, <1>2, <1>3, <1>4, InvInit, InvStep, PTL DEF Spec, Diary!Spec
=============================================================================

------------------------------ MODULE Calendar ------------------------------
(***************************************************************************)
(* What checkSessionConflicts is there for: a calendar in which a session  *)
(* is booked or moved in one step, and only to times at which neither its  *)
(* class nor its host has another one.  Two steps make no such promise: an *)
(* end that is taken away leaves a session that may run into others, and a *)
(* session is ended at whatever time it is.                                *)
(***************************************************************************)
EXTENDS Naturals

CONSTANTS
  Classes, Hosts, Ids, NoOne,
  Times      \* at which sessions may start and end

VARIABLES
  now,
  sessions   \* id -> class, host, start and end, or NoOne

vars == <<now, sessions>>

Session == [class : Classes, host : Hosts, start : Times, end : Times \cup {NoOne}]

Init ==
  /\ now = 0
  /\ sessions = [i \in Ids |-> NoOne]

\* A session without an end never ends.
Before(time, end) == end # NoOne => time < end

InTheWay(s, t) ==
  /\ s.class = t.class \/ s.host = t.host
  /\ Before(s.start, t.end)
  /\ Before(t.start, s.end)

\* Beside row i, there is nothing in the way of s.
Fits(s, i) == \A j \in Ids \ {i} : sessions[j] # NoOne => ~InTheWay(s, sessions[j])

Book(i, s) ==
  /\ sessions[i] = NoOne
  /\ Before(s.start, s.end)
  /\ Fits(s, i)
  /\ sessions' = [sessions EXCEPT ![i] = s]
  /\ UNCHANGED now

\* A start alone may be moved past the end.
Move(i, s) ==
  /\ sessions[i] # NoOne
  /\ s.class = sessions[i].class /\ s.host = sessions[i].host
  /\ s.end # sessions[i].end => Before(s.start, s.end)
  /\ Fits(s, i)
  /\ sessions' = [sessions EXCEPT ![i] = s]
  /\ UNCHANGED now

TakeEndAway(i, start) ==
  /\ sessions[i] # NoOne
  /\ sessions' = [sessions EXCEPT ![i].start = start, ![i].end = NoOne]
  /\ UNCHANGED now

EndNow(i) ==
  /\ sessions[i] # NoOne
  /\ sessions' = [sessions EXCEPT ![i].end = now]
  /\ UNCHANGED now

Cancel(I) ==
  /\ sessions' = [i \in Ids |-> IF i \in I THEN NoOne ELSE sessions[i]]
  /\ UNCHANGED now

Tick ==
  /\ now' = now + 1
  /\ UNCHANGED sessions

Next ==
  \/ \E i \in Ids :
       \/ \E s \in Session : Book(i, s) \/ Move(i, s)
       \/ \E start \in Times : TakeEndAway(i, start)
       \/ EndNow(i)
  \/ \E I \in SUBSET Ids : Cancel(I)
  \/ Tick

Spec == Init /\ [][Next]_vars
=============================================================================

---------------------------- MODULE MCMeetGateway ----------------------------
(***************************************************************************)
(* Instances of MeetGateway for TLC.                                       *)
(***************************************************************************)
EXTENDS MeetGateway, TLC

CONSTANTS teacher, assistant, student, s1, s2, k1, k2, k3

\* A teacher who is an admin, and a second teacher who reconnects with another
\* socket.
StageJoins == {<<k1, teacher, s1>>, <<k2, assistant, s1>>, <<k3, assistant, s1>>}
StageEnter == {teacher, assistant} \X {s1}
StageTeachers == {teacher, assistant} \X {s1}

\* In the attendance run the teacher hosts the session and is alone in it.
HostJoins == {<<k1, teacher, s1>>, <<k2, teacher, s1>>}
HostOnly == {<<teacher, s1>>}
Nobody == {}

\* Sockets that go from one session to another without leaving; the student never
\* has access to the second session.
RoomsJoins == {<<k1, teacher, s1>>, <<k1, teacher, s2>>,
               <<k2, student, s1>>, <<k2, student, s2>>}
RoomsEnter == {<<teacher, s1>>, <<teacher, s2>>, <<student, s1>>}

SlotSymmetry == Permutations(Requests)
SlotTimerSymmetry == Permutations(Requests) \cup Permutations(Timers)
=============================================================================

------------------------------ MODULE RoomAccess ------------------------------
(***************************************************************************)
(* The live meeting room of MeetGateway while the students of the class    *)
(* come and go: who has access to a session changes, by the handlers that  *)
(* Enrollment has in detail, at any time.                                  *)
(*                                                                         *)
(* Access is asked for by join-room only, before it awaits the user's      *)
(* details and the joining of the socket's room, and puts the user on the  *)
(* roster.  MayEnter is who may ever have access.                          *)
(***************************************************************************)
EXTENDS MeetGateway

VARIABLES
  access,     \* <<user, session>> that validateUserSessionAccess lets in by now
  validated,  \* handlers of join-room that it has let in, not yet on the roster
  overtaken   \* ... whose user has lost the access since; the code has no such thing

accessVars == <<vars, access, validated, overtaken>>

\* A refusal is to the room a handler that failed.
ASSUME AccessAssumption == Failures

AccessTypeOK ==
  /\ access \in SUBSET MayEnter
  /\ validated \in SUBSET Requests
  /\ overtaken \in SUBSET validated

AccessInit ==
  /\ Init
  /\ access = MayEnter
  /\ validated = {}
  /\ overtaken = {}

Guest(r) == <<requests[r].user, requests[r].session>>

-----------------------------------------------------------------------------
(* A mutated form of an operation, with the slip its name says.             *)

ValidateAccess_SessionOnly(r) ==
  /\ requests[r].at = "joining" /\ r \notin validated
  /\ validated' = validated \cup {r}
  /\ UNCHANGED <<vars, access, overtaken>>

-----------------------------------------------------------------------------
(* The room and the class                                                  *)

ValidateAccess(r) ==
  /\ requests[r].at = "joining" /\ r \notin validated
  /\ Guest(r) \in access
  /\ validated' = validated \cup {r}
  /\ UNCHANGED <<vars, access, overtaken>>

\* The room goes on, where join-room puts nobody on the roster who was not let in.
RoomStep ==
  /\ Next
  /\ \A r \in Requests :
       requests[r].at = "joining" /\ requests'[r].at = "tracked" => r \in validated
  /\ validated' = {r \in validated : requests'[r].at = "joining"}
  /\ overtaken' = overtaken \cap validated'
  /\ UNCHANGED access

\* A student's (last) row goes: removeStudent, leaveClass.
LoseAccess(u, s) ==
  /\ <<u, s>> \in access
  /\ access' = access \ {<<u, s>>}
  /\ overtaken' = overtaken \cup {r \in validated : Guest(r) = <<u, s>>}
  /\ UNCHANGED <<vars, validated>>

\* joinClass, addStudent, or a payment.
GainAccess(u, s) ==
  /\ <<u, s>> \in MayEnter \ access
  /\ access' = access \cup {<<u, s>>}
  /\ UNCHANGED <<vars, validated, overtaken>>

AccessNext ==
  \/ RoomStep
  \/ \E r \in Requests : ValidateAccess(r)
  \/ \E u \in Students, s \in Sessions : LoseAccess(u, s) \/ GainAccess(u, s)

AccessSpec == AccessInit /\ [][AccessNext]_accessVars

-----------------------------------------------------------------------------
(* Safety                                                                  *)

Present(u, s) ==
  IsConnected(u, s) \/ \E k \in Sockets : socketToUser[k] = [user |-> u, session |-> s]

\* Whoever loses access while in the room stays, as nobody asks again; but once out of
\* it comes back, by this socket or another, only with access, or in a join-room that
\* was let in before the access was lost.
EntryNeedsAccess ==
  [][\A u \in Users, s \in Sessions :
       ~Present(u, s) /\ Present(u, s)' =>
         \/ <<u, s>> \in access
         \/ \E r \in overtaken : Guest(r) = <<u, s>> /\ requests'[r].at = "tracked"
    ]_accessVars
=============================================================================

-------------------------- MODULE MCSessionSchedule --------------------------
(***************************************************************************)
(* Instances of SessionSchedule for TLC.                                   *)
(***************************************************************************)
EXTENDS SessionSchedule, TLC

CONSTANTS course, club, teacher

\* A host with two classes: two of its bookings share the class too, or the host only.
TwoBookings == {<<course, teacher>>, <<club, teacher>>}

Symmetry == Permutations(Ids) \cup Permutations(Requests) \cup Permutations(Classes)
=============================================================================

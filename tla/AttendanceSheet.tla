--------------------------- MODULE AttendanceSheet ---------------------------
(***************************************************************************)
(* What the room promises about attendance, whatever overlaps: a sheet on  *)
(* which a user who is due signs in once, and who has signed in may be     *)
(* marked as having attended.  Nothing is taken back, and nobody is marked *)
(* who has not signed in.                                                  *)
(***************************************************************************)
CONSTANTS
  Users, Sessions,
  Due      \* the <<user, session>> whose attendance is recorded

VARIABLE sheet   \* session -> user -> "none", "joined" or "attended"

Init == sheet = [s \in Sessions |-> [u \in Users |-> "none"]]

SignIn(u, s) ==
  /\ <<u, s>> \in Due
  /\ sheet[s][u] = "none"
  /\ sheet' = [sheet EXCEPT ![s][u] = "joined"]

Mark(u, s) ==
  /\ sheet[s][u] = "joined"
  /\ sheet' = [sheet EXCEPT ![s][u] = "attended"]

Next == \E u \in Users, s \in Sessions : SignIn(u, s) \/ Mark(u, s)

Spec == Init /\ [][Next]_sheet
=============================================================================

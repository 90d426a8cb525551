----------------------------- MODULE CanvasLock -----------------------------
(***************************************************************************)
(* What the room promises about the canvas, whatever overlaps: in each     *)
(* session it is a lock that only a teacher of the session takes, and only *)
(* when it is free.  It never passes from one holder to another in one     *)
(* step, and a step takes or frees the canvas of one session only.         *)
(***************************************************************************)
CONSTANTS Users, Sessions, NoOne, Teachers

VARIABLE holder   \* session -> the user whose canvas is open, or NoOne

Init == holder = [s \in Sessions |-> NoOne]

Open(u, s) ==
  /\ <<u, s>> \in Teachers
  /\ holder[s] = NoOne
  /\ holder' = [holder EXCEPT ![s] = u]

Close(s) ==
  /\ holder[s] # NoOne
  /\ holder' = [holder EXCEPT ![s] = NoOne]

Next == \E s \in Sessions : Close(s) \/ \E u \in Users : Open(u, s)

Spec == Init /\ [][Next]_holder
=============================================================================

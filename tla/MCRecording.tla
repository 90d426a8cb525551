----------------------------- MODULE MCRecording -----------------------------
(***************************************************************************)
(* Instances of Recording for TLC.                                         *)
(***************************************************************************)
EXTENDS Recording, TLC

Symmetry == Permutations(Requests) \cup Permutations(Egresses)
=============================================================================

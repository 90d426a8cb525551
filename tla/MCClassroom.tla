------------------------------ MODULE MCClassroom ------------------------------
(***************************************************************************)
(* Instances of Classroom for TLC.                                         *)
(***************************************************************************)
EXTENDS Classroom, FiniteSets, TLC

BusyAccounts == Cardinality({r \in Requests : requests[r] # Idle})

Busy == BusyAccounts + Cardinality({k \in Calls : calls[k] # NoCall})

UsesClasses == (\E c \in Classes : classes[c] # NoOne) \/ (\E k \in Calls : calls[k] # NoCall)

\* Two handlers overlap.  Accounts are made before classes are; while there is a class,
\* one student is enough, and one handler of accounts, which does what any other could.
\* Emails are confirmed, and fall free, when no admin and no class is at work.
Bound ==
  /\ Busy <= 2
  /\ UsesClasses =>
       /\ BusyAccounts <= 1
       /\ \A r \in Requests : requests[r].at \in {"idle", "updating"}
       /\ \A c \in Classes : Cardinality(students[c]) <= 1
  /\ confirmed \cup spoilt # {} =>
       /\ ~UsesClasses
       /\ \A r \in Requests : requests[r].at \notin {"updating", "banning", "unbanning"}

Symmetry ==
  Permutations(Ids) \cup Permutations(Emails) \cup Permutations(Requests)
    \cup Permutations(Rows) \cup Permutations(Codes) \cup Permutations(Calls)
=============================================================================

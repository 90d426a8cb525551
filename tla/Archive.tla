------------------------------- MODULE Archive -------------------------------
(***************************************************************************)
(* What the server promises about recordings, whatever is lost, late or    *)
(* repeated on the way: an archive that trails after LiveKit.  An egress   *)
(* belongs to one session and only goes forward.  Its entry, once made, is *)
(* never taken out, and is only ever given a status the egress has come    *)
(* to; what is filed stays filed.  A session points to nothing but its own *)
(* recordings: to one with an entry, for the next stop, and to one that is *)
(* complete, for who wants to watch it.                                    *)
(***************************************************************************)
CONSTANTS Sessions, Egresses, NoOne

VARIABLES
  egresses,   \* session and status of each egress
  entries,    \* egress -> the status the archive has for it, or "none"
  filed,      \* egresses whose file and end the archive knows
  current,    \* session -> the egress that a stop would stop
  shown       \* session -> the egress whose file is shown

vars == <<egresses, entries, filed, current, shown>>

Running == {"STARTING", "ACTIVE", "ENDING"}
Files == {"COMPLETE", "LIMIT_REACHED"}
Status == Running \cup Files \cup {"FAILED"}

\* What has been true of an egress by the time its status is st.
UpTo(st) ==
  CASE st = "none"     -> {}
    [] st = "STARTING" -> {"STARTING"}
    [] st = "ACTIVE"   -> {"STARTING", "ACTIVE"}
    [] OTHER           -> Running \cup {st}

Init ==
  /\ egresses = [e \in Egresses |-> [session |-> NoOne, status |-> "none"]]
  /\ entries = [e \in Egresses |-> "none"]
  /\ filed = {}
  /\ current = [s \in Sessions |-> NoOne]
  /\ shown = [s \in Sessions |-> NoOne]

\* LiveKit starts an egress, or takes one further.
Launch(e, s) ==
  /\ egresses[e].status = "none"
  /\ egresses' = [egresses EXCEPT ![e] = [session |-> s, status |-> "STARTING"]]
  /\ UNCHANGED <<entries, filed, current, shown>>

Advance(e, st) ==
  /\ egresses[e].status \in UpTo(st) \ {st}
  /\ egresses' = [egresses EXCEPT ![e].status = st]
  /\ UNCHANGED <<entries, filed, current, shown>>

\* An entry is made or overwritten, with what has been true of the egress; or an
\* entry that is there, with UNKNOWN.
Enter(e, st) ==
  /\ \/ st \in UpTo(egresses[e].status)
     \/ st = "UNKNOWN" /\ entries[e] # "none"
  /\ entries' = [entries EXCEPT ![e] = st]
  /\ filed' = IF st \in Files THEN filed \cup {e} ELSE filed
  /\ UNCHANGED <<egresses, current, shown>>

PointTo(s, e) ==
  /\ egresses[e].session = s
  /\ entries[e] # "none"
  /\ current' = [current EXCEPT ![s] = e]
  /\ UNCHANGED <<egresses, entries, filed, shown>>

Show(s, e) ==
  /\ egresses[e] = [session |-> s, status |-> "COMPLETE"]
  /\ shown' = [shown EXCEPT ![s] = e]
  /\ UNCHANGED <<egresses, entries, filed, current>>

Next ==
  \E e \in Egresses :
    \/ \E s \in Sessions : Launch(e, s) \/ PointTo(s, e) \/ Show(s, e)
    \/ \E st \in Status : Advance(e, st) \/ Enter(e, st)
    \/ Enter(e, "UNKNOWN")

Spec == Init /\ [][Next]_vars
=============================================================================

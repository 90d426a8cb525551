--------------------------- MODULE RecordingProofs ---------------------------
(***************************************************************************)
(* Theorems about Recording, for every set of sessions, egresses and       *)
(* overlapping handlers, with failures, crashes and any order of webhooks. *)
(*                                                                         *)
(* What makes a late word of LiveKit harmless is that statuses only go     *)
(* forward: whatever a webhook, a handler or a row says of an egress has   *)
(* been reached by it, and stays reached.                                  *)
(***************************************************************************)
EXTENDS Recording, TLAPS

\* An egress whose status is now has reached st: it is not before it, and has
\* ended in no other way.
Reached(now, st) ==
  /\ Order[st] <= Order[now]
  /\ st \in Ended => st = now

Said == Status \cup {"UNKNOWN"}
Had == Status \cup {"none"}

\* From eg to later, no egress goes back or to another session.
Forward(eg, later) ==
  \A e \in Egresses :
    /\ eg[e].status # "none" => later[e].session = eg[e].session
    /\ \A st \in Said : Reached(eg[e].status, st) => Reached(later[e].status, st)

\* From rec to later, no row is deleted.
RowsStay(rec, later) == \A e \in Egresses : rec[e] # "none" => later[e] # "none"

\* What a handler knows of the egress it works on, given the egresses and rows.
RequestOK(q, eg, rec) ==
  /\ q.at # "idle" => q.session \in Sessions
  /\ q.at \in {"checking", "launching"} => q.info = "UNKNOWN"
  /\ q.at \notin {"idle", "checking", "launching"} =>
       /\ q.egress \in Egresses
       /\ eg[q.egress].session = q.session
       /\ Reached(eg[q.egress].status, "STARTING")
       /\ Reached(eg[q.egress].status, q.info)
       /\ q.at # "creating" => rec[q.egress] # "none"
  /\ q.at \in {"ending", "fetching", "syncing", "linking", "closing"} =>
       Reached(eg[q.egress].status, "ENDING")
  /\ q.at \in {"linking", "mirroring"} => Reached(eg[q.egress].status, "COMPLETE")

\* An egress with a status has a session, and a row has an egress.
EgressOK(e) ==
  /\ egresses[e].status # "none" => egresses[e].session \in Sessions
  /\ recordings[e] # "none" => egresses[e].status # "none"

\* The state of LiveKit and of the database.
DataInv ==
  /\ egresses \in [Egresses -> [session : Null(Sessions), status : Had]]
  /\ events \subseteq Egresses \X Status
  /\ recordings \in [Egresses -> Said \cup {"none"}]
  /\ located \subseteq Egresses
  /\ recordingId \in [Sessions -> Null(Egresses)]
  /\ recordingUrl \in [Sessions -> Null(Egresses)]
  /\ \A e \in Egresses : EgressOK(e)
  /\ \A v \in events : Reached(egresses[v[1]].status, v[2])
  /\ NeverAhead
  /\ FileIsThere
  /\ NamedHasRow

Inv ==
  /\ DataInv
  /\ requests \in [Requests -> Request]
  /\ \A r \in Requests : RequestOK(requests[r], egresses, recordings)

-----------------------------------------------------------------------------
(* Statuses only go forward                                                *)

\* The order of statuses, spelled out for the provers.
LEMMA Orders ==
  /\ Order["none"] = 0 /\ Order["UNKNOWN"] = 0
  /\ Order["STARTING"] = 1 /\ Order["ACTIVE"] = 2 /\ Order["ENDING"] = 3
  /\ Order["COMPLETE"] = 4 /\ Order["LIMIT_REACHED"] = 4 /\ Order["FAILED"] = 4
BY DEF Order

LEMMA ReachedItself == \A st \in Had : Reached(st, st) /\ Reached(st, "UNKNOWN")
BY Orders DEF Reached, Had, Status, Ended

\* Whatever LiveKit does next, or stopEgress makes it do, keeps what was reached.
LEMMA StatusForward ==
  ASSUME NEW now \in Had, NEW next,
         \/ next \in Successors(now)
         \/ now \in {"STARTING", "ACTIVE"} /\ next = "ENDING"
         \/ now = "none" /\ next = "STARTING"
  PROVE  /\ next \in Status
         /\ \A st \in Said : Reached(now, st) => Reached(next, st)
BY Orders DEF Reached, Had, Said, Status, Ended, Successors

\* A status was reached exactly when the status of now says so.
LEMMA ReachedMeans ==
  \A now \in Had :
    /\ Reached(now, "STARTING") <=> now # "none"
    /\ Reached(now, "ENDING") <=> now \notin {"none", "STARTING", "ACTIVE"}
    /\ Reached(now, "COMPLETE") <=> now = "COMPLETE"
    /\ Reached(now, "LIMIT_REACHED") <=> now = "LIMIT_REACHED"
    /\ \A st \in Status : Reached(now, st) => now # "none"
BY Orders DEF Reached, Had, Status, Ended

\* What a handler knows stays true as egresses go forward and rows stay.
LEMMA RequestForward ==
  ASSUME NEW q \in Request, NEW eg, NEW rec, NEW eg2, NEW rec2,
         \A e \in Egresses : eg[e].status \in Had,
         RequestOK(q, eg, rec), Forward(eg, eg2), RowsStay(rec, rec2)
  PROVE  RequestOK(q, eg2, rec2)
<1>1. \A e \in Egresses : Reached(eg[e].status, "STARTING") => eg[e].status # "none"
  BY ReachedMeans
<1>2. "STARTING" \in Said /\ "ENDING" \in Said /\ "COMPLETE" \in Said /\ q.info \in Said
  BY DEF Said, Status, Ended, Request
<1> QED BY <1>1, <1>2 DEF RequestOK, Forward, RowsStay

\* An action that changes one request at most, and makes it right, keeps Inv if
\* it keeps what the handlers know.
LEMMA RequestsOK ==
  ASSUME Inv, DataInv', NEW r \in Requests,
         requests' \in [Requests -> Request],
         \A q \in Requests : q # r => requests'[q] = requests[q],
         Forward(egresses, egresses'), RowsStay(recordings, recordings'),
         RequestOK(requests'[r], egresses', recordings')
  PROVE  Inv'
<1>1. \A e \in Egresses : egresses[e].status \in Had
  BY DEF Inv, DataInv
<1>2. ASSUME NEW q \in Requests, q # r
      PROVE  RequestOK(requests'[q], egresses', recordings')
  <2>1. requests[q] \in Request /\ RequestOK(requests[q], egresses, recordings)
    BY DEF Inv
  <2>2. RequestOK(requests[q], egresses', recordings')
    BY <1>1, <2>1, RequestForward
  <2> QED BY <1>2, <2>2
<1>3. \A q \in Requests : RequestOK(requests'[q], egresses', recordings')
  BY <1>2
<1> QED BY <1>3 DEF Inv

LEMMA Unmoved == Forward(egresses, egresses) /\ RowsStay(recordings, recordings)
BY DEF Forward, RowsStay

LEMMA IdleOK == \A eg, rec : Idle \in Request /\ RequestOK(Idle, eg, rec)
BY DEF Idle, Request, RequestOK, Steps, Null

-----------------------------------------------------------------------------
(* The three kinds of writes                                               *)

\* The database is left alone, and so is LiveKit.
LEMMA NothingWritten ==
  ASSUME Inv, UNCHANGED <<livekitVars, rowVars, sessionVars>>
  PROVE  DataInv' /\ Forward(egresses, egresses') /\ RowsStay(recordings, recordings')
BY Unmoved
DEF Inv, DataInv, EgressOK, NeverAhead, FileIsThere, NamedHasRow, livekitVars, rowVars,
    sessionVars

\* LiveKit moves an egress on, and raises the event.
LEMMA EgressMoved ==
  ASSUME Inv, NEW e \in Egresses, NEW s \in Sessions, NEW next,
         egresses[e].status # "none" => s = egresses[e].session,
         \/ next \in Successors(egresses[e].status)
         \/ egresses[e].status \in {"STARTING", "ACTIVE"} /\ next = "ENDING"
         \/ egresses[e].status = "none" /\ next = "STARTING",
         egresses' = [egresses EXCEPT ![e] = [session |-> s, status |-> next]],
         events' = events \cup {<<e, next>>},
         UNCHANGED <<rowVars, sessionVars>>
  PROVE  DataInv' /\ Forward(egresses, egresses') /\ RowsStay(recordings, recordings')
<1> USE DEF Inv, DataInv
<1>1. /\ next \in Status
      /\ \A st \in Said : Reached(egresses[e].status, st) => Reached(next, st)
  BY StatusForward
<1>2. /\ egresses'[e] = [session |-> s, status |-> next]
      /\ \A f \in Egresses : f # e => egresses'[f] = egresses[f]
      /\ egresses' \in [Egresses -> [session : Null(Sessions), status : Had]]
  BY <1>1 DEF Had, Null
<1>3. Forward(egresses, egresses')
  BY <1>1, <1>2 DEF Forward
<1>4. UNCHANGED <<recordings, located, recordingId, recordingUrl>>
  BY DEF rowVars, sessionVars
<1>5. events' \subseteq Egresses \X Status
  BY <1>1
<1>6. \A f \in Egresses : EgressOK(f)'
  BY <1>1, <1>2, <1>4 DEF EgressOK, Status, Ended
<1>7. \A v \in events' : Reached(egresses'[v[1]].status, v[2])
  <2>1. Reached(next, next)
    BY <1>1, ReachedItself DEF Had
  <2>2. ASSUME NEW v \in events PROVE Reached(egresses'[v[1]].status, v[2])
    BY <1>3 DEF Forward, Said
  <2> QED BY <1>2, <2>1, <2>2
<1>8. NeverAhead'
  <2>1. ASSUME NEW f \in Egresses, recordings[f] # "none"
        PROVE  Reached(egresses'[f].status, recordings[f])
    BY <1>3, <2>1 DEF NeverAhead, Forward, Reached
  <2>2. \A now \in Had : Reached(now, "none")
    BY Orders DEF Reached, Had, Status, Ended
  <2> QED BY <1>2, <1>4, <2>1, <2>2 DEF NeverAhead, Reached
<1>9. FileIsThere'
  <2>1. \A f \in Egresses, st \in {"COMPLETE", "LIMIT_REACHED"} :
          egresses[f].status = st => egresses'[f] = egresses[f]
    BY <1>2 DEF Successors
  <2> QED BY <1>4, <2>1 DEF FileIsThere, WithFile, Null
<1>10. NamedHasRow'
  BY <1>3, <1>4 DEF NamedHasRow, Forward, EgressOK, Null
<1> QED BY <1>2, <1>3, <1>4, <1>5, <1>6, <1>7, <1>8, <1>9, <1>10 DEF RowsStay

\* The row of an egress takes something the egress has reached.
LEMMA RowWritten ==
  ASSUME Inv, NEW e \in Egresses, NEW st \in Said, egresses[e].status # "none",
         Reached(egresses[e].status, st),
         recordings' = [recordings EXCEPT ![e] = st],
         located' = IF st \in WithFile THEN located \cup {e} ELSE located,
         UNCHANGED <<livekitVars, sessionVars>>
  PROVE  DataInv' /\ Forward(egresses, egresses') /\ RowsStay(recordings, recordings')
<1> USE DEF Inv, DataInv, livekitVars, sessionVars
<1>1. st # "none"
  BY DEF Said, Status, Ended
<1>2. /\ recordings' \in [Egresses -> Said \cup {"none"}]
      /\ located' \subseteq Egresses
      /\ RowsStay(recordings, recordings')
      /\ \A f \in Egresses : EgressOK(f)'
  BY <1>1 DEF RowsStay, EgressOK
<1>3. NeverAhead'
  BY DEF NeverAhead, Reached
<1>4. FileIsThere'
  BY <1>1 DEF FileIsThere, Reached, WithFile, Ended
<1>5. NamedHasRow'
  BY <1>1 DEF NamedHasRow, Null
<1> QED BY <1>2, <1>3, <1>4, <1>5, Unmoved

\* The session is told of one of its egresses.
LEMMA SessionWritten ==
  ASSUME Inv, NEW s \in Sessions, NEW e \in Egresses, egresses[e].session = s,
         \/ /\ recordings[e] # "none"
            /\ recordingId' = [recordingId EXCEPT ![s] = e]
            /\ UNCHANGED recordingUrl
         \/ /\ egresses[e].status = "COMPLETE"
            /\ recordingUrl' = [recordingUrl EXCEPT ![s] = e]
            /\ UNCHANGED recordingId,
         UNCHANGED <<livekitVars, rowVars>>
  PROVE  DataInv' /\ Forward(egresses, egresses') /\ RowsStay(recordings, recordings')
<1> USE DEF Inv, DataInv, livekitVars, rowVars
<1>1. /\ recordingId' \in [Sessions -> Null(Egresses)]
      /\ recordingUrl' \in [Sessions -> Null(Egresses)]
  BY DEF Null
<1>2. FileIsThere'
  BY DEF FileIsThere
<1>3. NamedHasRow'
  BY DEF NamedHasRow
<1> QED BY <1>1, <1>2, <1>3, Unmoved DEF EgressOK, NeverAhead

-----------------------------------------------------------------------------
(* Requests that start, go on and end                                      *)

LEMMA StartOK ==
  ASSUME Inv, DataInv', NEW r \in Requests, NEW step \in Steps, NEW s \in Sessions,
         NEW e \in Null(Egresses), Start(r, step, s, e),
         Forward(egresses, egresses'), RowsStay(recordings, recordings'),
         RequestOK([at |-> step, session |-> s, egress |-> e, info |-> "UNKNOWN"],
                   egresses', recordings')
  PROVE  Inv'
<1> DEFINE new == [at |-> step, session |-> s, egress |-> e, info |-> "UNKNOWN"]
<1>1. requests' = [requests EXCEPT ![r] = new]
  BY DEF Start
<1>2. new \in Request
  BY DEF Request, Null
<1> HIDE DEF new
<1>3. /\ requests' \in [Requests -> Request]
      /\ requests'[r] = new
      /\ \A q \in Requests : q # r => requests'[q] = requests[q]
  BY <1>1, <1>2 DEF Inv
<1> QED BY <1>3, RequestsOK DEF new

LEMMA GoToOK ==
  ASSUME Inv, DataInv', NEW r \in Requests, NEW step \in Steps, GoTo(r, step),
         Forward(egresses, egresses'), RowsStay(recordings, recordings'),
         RequestOK([requests[r] EXCEPT !.at = step, !.info = "UNKNOWN"],
                   egresses', recordings')
  PROVE  Inv'
<1> DEFINE new == [requests[r] EXCEPT !.at = step, !.info = "UNKNOWN"]
<1>1. requests[r] \in Request /\ new \in Request
  BY DEF Request, Inv
<1>2. requests'[r] = new
  BY <1>1 DEF GoTo, Inv
<1>3. /\ requests' \in [Requests -> Request]
      /\ requests'[r] = new
      /\ \A q \in Requests : q # r => requests'[q] = requests[q]
  <2>1. \A q \in Requests : q # r => requests'[q] = requests[q]
    BY DEF GoTo, Inv
  <2>2. requests' = [q \in Requests |-> requests'[q]]
    BY DEF GoTo, Inv
  <2> HIDE DEF new
  <2> QED BY <1>1, <1>2, <2>1, <2>2 DEF Inv
<1> HIDE DEF new
<1> QED BY <1>3, RequestsOK DEF new

LEMMA FinishOK ==
  ASSUME Inv, DataInv', NEW r \in Requests, Finish(r),
         Forward(egresses, egresses'), RowsStay(recordings, recordings')
  PROVE  Inv'
<1>1. /\ requests' \in [Requests -> Request]
      /\ requests'[r] = Idle
      /\ \A q \in Requests : q # r => requests'[q] = requests[q]
  BY IdleOK DEF Finish, Inv
<1> QED BY <1>1, IdleOK, RequestsOK

LEMMA StayOK ==
  ASSUME Inv, DataInv', UNCHANGED requests,
         Forward(egresses, egresses'), RowsStay(recordings, recordings')
  PROVE  Inv'
<1>1. \A e \in Egresses : egresses[e].status \in Had
  BY DEF Inv, DataInv
<1>2. ASSUME NEW q \in Requests
      PROVE  RequestOK(requests[q], egresses', recordings')
  <2>1. requests[q] \in Request /\ RequestOK(requests[q], egresses, recordings)
    BY DEF Inv
  <2> QED BY <1>1, <2>1, RequestForward
<1> QED BY <1>2 DEF Inv

-----------------------------------------------------------------------------
(* The invariant                                                           *)

LEMMA InitInv == Init => Inv
<1> SUFFICES ASSUME Init PROVE Inv
  OBVIOUS
<1>1. \A r \in Requests : requests[r] \in Request /\ RequestOK(requests[r], egresses, recordings)
  BY IdleOK DEF Init
<1>2. requests \in [Requests -> Request]
  BY <1>1 DEF Init
<1>3. DataInv
  BY Orders DEF Init, DataInv, EgressOK, NeverAhead, FileIsThere, NamedHasRow, Null, Had,
                Said, Ended
<1> QED BY <1>1, <1>2, <1>3 DEF Inv

\* An egress with a row or a status has a session.
LEMMA EgressFacts ==
  ASSUME Inv, NEW e \in Egresses
  PROVE  /\ egresses[e].status \in Had
         /\ Reached(egresses[e].status, "UNKNOWN")
         /\ egresses[e].status # "none" =>
              /\ egresses[e].session \in Sessions
              /\ Reached(egresses[e].status, "STARTING")
         /\ recordings[e] # "none" => egresses[e].status # "none"
<1>1. egresses[e].status \in Had
  BY DEF Inv, DataInv
<1>2. \A now \in Had : Reached(now, "UNKNOWN")
  BY Orders DEF Reached, Had, Status, Ended
<1> QED BY <1>1, <1>2, ReachedMeans DEF Inv, DataInv, EgressOK

\* A handler past startRoomRecording knows its egress.
LEMMA HandlerFacts ==
  ASSUME Inv, NEW r \in Requests, requests[r].at \notin {"idle", "checking", "launching"}
  PROVE  /\ requests[r].egress \in Egresses
         /\ requests[r].session \in Sessions
         /\ requests[r].info \in Said
         /\ egresses[requests[r].egress].session = requests[r].session
         /\ egresses[requests[r].egress].status # "none"
         /\ Reached(egresses[requests[r].egress].status, "STARTING")
         /\ Reached(egresses[requests[r].egress].status, requests[r].info)
         /\ Reached(egresses[requests[r].egress].status, "UNKNOWN")
         /\ requests[r].at # "creating" => recordings[requests[r].egress] # "none"
<1>1. RequestOK(requests[r], egresses, recordings) /\ requests[r] \in Request
  BY DEF Inv
<1>2. requests[r].egress \in Egresses
  BY <1>1 DEF RequestOK
<1>3. egresses[requests[r].egress].status \in Had
  BY <1>2, EgressFacts
<1>4. Reached(egresses[requests[r].egress].status, "STARTING")
  BY <1>1 DEF RequestOK
<1> QED BY <1>1, <1>2, <1>3, <1>4, EgressFacts, ReachedMeans DEF RequestOK, Request, Said

\* Every step keeps the invariant.
LEMMA NextInv == Inv /\ [Next]_vars => Inv'
<1> SUFFICES ASSUME Inv, [Next]_vars PROVE Inv'
  OBVIOUS
<1>1. CASE UNCHANGED vars
  BY <1>1, NothingWritten, StayOK DEF vars, livekitVars, rowVars, sessionVars
<1>2. ASSUME NEW r \in Requests, NEW s \in Sessions, StartRecording(r, s) PROVE Inv'
  BY <1>2, NothingWritten, StartOK DEF StartRecording, RequestOK, Steps, Null
<1>3. ASSUME NEW r \in Requests, CheckActive(r) PROVE Inv'
  <2>1. requests[r].session \in Sessions /\ requests[r] \in Request
    BY <1>3 DEF CheckActive, At, Inv, RequestOK
  <2>2. RequestOK([requests[r] EXCEPT !.at = "launching", !.info = "UNKNOWN"],
                  egresses', recordings')
    BY <2>1 DEF RequestOK, Request
  <2> QED BY <1>3, <2>2, NothingWritten, GoToOK DEF CheckActive, Steps
<1>4. ASSUME NEW r \in Requests, LaunchEgress(r) PROVE Inv'
  <2> DEFINE s == requests[r].session
  <2>1. s \in Sessions /\ requests[r] \in Request
    BY <1>4 DEF LaunchEgress, At, Inv, RequestOK
  <2>2. PICK e \in Egresses :
          /\ egresses[e].status = "none"
          /\ egresses' = [egresses EXCEPT ![e] = [session |-> s, status |-> "STARTING"]]
          /\ events' = events \cup {<<e, "STARTING">>}
          /\ requests' = [requests EXCEPT ![r].at = "creating", ![r].egress = e]
    BY <1>4 DEF LaunchEgress
  <2>3. DataInv' /\ Forward(egresses, egresses') /\ RowsStay(recordings, recordings')
    BY <1>4, <2>1, <2>2, EgressMoved DEF LaunchEgress
  <2>4. /\ requests'[r] \in Request
        /\ requests'[r].at = "creating" /\ requests'[r].session = s
        /\ requests'[r].egress = e /\ requests'[r].info = requests[r].info
        /\ requests' = [q \in Requests |-> requests'[q]]
        /\ \A q \in Requests : q # r => requests'[q] = requests[q]
    BY <2>1, <2>2 DEF Inv, Request, Steps, Null
  <2>5. egresses'[e] = [session |-> s, status |-> "STARTING"]
    BY <2>2 DEF Inv, DataInv
  <2>6. requests[r].info = "UNKNOWN"
    BY <1>4 DEF LaunchEgress, At, Inv, RequestOK
  <2>7. Reached("STARTING", "STARTING") /\ Reached("STARTING", "UNKNOWN")
    BY ReachedItself DEF Had, Status
  <2>8. RequestOK(requests'[r], egresses', recordings')
    BY <2>1, <2>4, <2>5, <2>6, <2>7 DEF RequestOK
  <2>9. requests' \in [Requests -> Request]
    BY <2>4 DEF Inv
  <2> QED BY <2>3, <2>4, <2>8, <2>9, RequestsOK
<1>5. ASSUME NEW r \in Requests, CreateRow(r) PROVE Inv'
  <2> DEFINE e == requests[r].egress
  <2>1. /\ At(r, "creating") /\ GoTo(r, "naming")
        /\ recordings' = [recordings EXCEPT ![e] = "STARTING"]
        /\ UNCHANGED <<livekitVars, located, sessionVars>>
    BY <1>5 DEF CreateRow
  <2>2. /\ e \in Egresses /\ requests[r].session \in Sessions
        /\ egresses[e].session = requests[r].session /\ egresses[e].status # "none"
        /\ Reached(egresses[e].status, "STARTING") /\ Reached(egresses[e].status, "UNKNOWN")
        /\ requests[r] \in Request
    BY <2>1, HandlerFacts DEF At, Inv
  <2>3. "STARTING" \in Said \ WithFile
    BY DEF Said, Status, WithFile
  <2>4. DataInv' /\ Forward(egresses, egresses') /\ RowsStay(recordings, recordings')
    BY <2>1, <2>2, <2>3, RowWritten
  <2>5. recordings'[e] # "none" /\ egresses' = egresses
    BY <2>1, <2>2 DEF Inv, DataInv, livekitVars
  <2>6. RequestOK([requests[r] EXCEPT !.at = "naming", !.info = "UNKNOWN"],
                  egresses', recordings')
    BY <2>2, <2>5 DEF RequestOK, Request
  <2> QED BY <2>1, <2>4, <2>6, GoToOK DEF Steps
<1>6. ASSUME NEW r \in Requests, NameRecording(r) \/ CloseStopped(r) PROVE Inv'
  <2>1. requests[r].at \in {"naming", "closing"}
    BY <1>6 DEF NameRecording, CloseStopped, At
  <2>2. DataInv' /\ Forward(egresses, egresses') /\ RowsStay(recordings, recordings')
    BY <1>6, <2>1, HandlerFacts, SessionWritten DEF NameRecording, CloseStopped
  <2> QED BY <1>6, <2>2, FinishOK DEF NameRecording, CloseStopped
<1>7. ASSUME NEW r \in Requests, StartFail(r) \/ StopFail(r) \/ BackfillEnd(r) PROVE Inv'
  BY <1>7, NothingWritten, FinishOK DEF StartFail, StopFail, BackfillEnd
<1>8. ASSUME NEW r \in Requests, NEW s \in Sessions, StopRecording(r, s) PROVE Inv'
  <2> DEFINE e == recordingId[s]
  <2>1. /\ Start(r, "stopping", s, e)
        /\ e # NoOne
        /\ UNCHANGED <<livekitVars, rowVars, sessionVars>>
    BY <1>8 DEF StopRecording
  <2>2. e \in Egresses /\ egresses[e].session = s /\ recordings[e] # "none"
    BY <2>1 DEF Inv, DataInv, NamedHasRow, Null
  <2>3. Reached(egresses[e].status, "STARTING") /\ Reached(egresses[e].status, "UNKNOWN")
    BY <2>2, EgressFacts
  <2>4. RequestOK([at |-> "stopping", session |-> s, egress |-> e, info |-> "UNKNOWN"],
                  egresses', recordings')
    BY <2>1, <2>2, <2>3 DEF RequestOK, livekitVars, rowVars
  <2> QED BY <2>1, <2>2, <2>4, NothingWritten, StartOK DEF Steps, Null
<1>9. ASSUME NEW r \in Requests, StopEgress(r) PROVE Inv'
  <2> DEFINE e == requests[r].egress
  <2>1. At(r, "stopping") /\ GoTo(r, "ending") /\ UNCHANGED <<rowVars, sessionVars>>
    BY <1>9 DEF StopEgress
  <2>2. /\ e \in Egresses /\ requests[r].session \in Sessions
        /\ egresses[e].session = requests[r].session /\ egresses[e].status # "none"
        /\ recordings[e] # "none" /\ requests[r] \in Request
        /\ egresses[e].status \in Had
    BY <2>1, HandlerFacts, EgressFacts DEF At, Inv
  <2>3. /\ DataInv' /\ Forward(egresses, egresses') /\ RowsStay(recordings, recordings')
        /\ egresses'[e].status \notin {"none", "STARTING", "ACTIVE"}
        /\ egresses'[e].session = requests[r].session
    <3>1. CASE egresses[e].status \in {"STARTING", "ACTIVE"}
      <4>1. SetStatus(e, "ENDING")
        BY <1>9, <3>1 DEF StopEgress
      <4>2. egresses' = [egresses EXCEPT ![e] = [session |-> requests[r].session,
                                                 status |-> "ENDING"]]
        BY <2>2, <4>1 DEF SetStatus, Inv, DataInv
      <4>3. DataInv' /\ Forward(egresses, egresses') /\ RowsStay(recordings, recordings')
        BY <2>1, <2>2, <3>1, <4>1, <4>2, EgressMoved DEF SetStatus
      <4> QED BY <2>2, <4>2, <4>3 DEF Inv, DataInv
    <3>2. CASE egresses[e].status \notin {"STARTING", "ACTIVE"}
      <4>1. UNCHANGED livekitVars
        BY <1>9, <3>2 DEF StopEgress
      <4> QED BY <2>1, <2>2, <3>2, <4>1, NothingWritten DEF livekitVars
    <3> QED BY <3>1, <3>2
  <2>4. egresses'[e].status \in Had
    BY <2>2, <2>3 DEF DataInv
  <2>5. /\ Reached(egresses'[e].status, "STARTING") /\ Reached(egresses'[e].status, "ENDING")
        /\ Reached(egresses'[e].status, "UNKNOWN")
    BY <2>3, <2>4, ReachedMeans, Orders DEF Reached, Had, Status, Ended
  <2>6. recordings'[e] # "none"
    BY <2>2, <2>3 DEF RowsStay
  <2>7. RequestOK([requests[r] EXCEPT !.at = "ending", !.info = "UNKNOWN"],
                  egresses', recordings')
    BY <2>2, <2>3, <2>5, <2>6 DEF RequestOK, Request
  <2> QED BY <2>1, <2>3, <2>7, GoToOK DEF Steps
<1>10. ASSUME NEW r \in Requests, MarkEnding(r) PROVE Inv'
  <2> DEFINE e == requests[r].egress
  <2>1. /\ At(r, "ending") /\ GoTo(r, "fetching")
        /\ UNCHANGED <<livekitVars, located, sessionVars>>
    BY <1>10 DEF MarkEnding
  <2>2. /\ e \in Egresses /\ requests[r].session \in Sessions
        /\ egresses[e].session = requests[r].session /\ egresses[e].status # "none"
        /\ Reached(egresses[e].status, "STARTING") /\ Reached(egresses[e].status, "UNKNOWN")
        /\ recordings[e] # "none" /\ requests[r] \in Request
    BY <2>1, HandlerFacts DEF At, Inv
  <2>3. Reached(egresses[e].status, "ENDING")
    BY <2>1 DEF At, Inv, RequestOK
  <2>4. recordings' = [recordings EXCEPT ![e] = "ENDING"]
    BY <1>10, <2>2 DEF MarkEnding
  <2>5. "ENDING" \in Said \ WithFile
    BY DEF Said, Status, WithFile
  <2>6. DataInv' /\ Forward(egresses, egresses') /\ RowsStay(recordings, recordings')
    BY <2>1, <2>2, <2>3, <2>4, <2>5, RowWritten
  <2>7. recordings'[e] # "none" /\ egresses' = egresses
    BY <2>1, <2>2, <2>6 DEF RowsStay, livekitVars
  <2>8. RequestOK([requests[r] EXCEPT !.at = "fetching", !.info = "UNKNOWN"],
                  egresses', recordings')
    BY <2>2, <2>3, <2>7 DEF RequestOK, Request
  <2> QED BY <2>1, <2>6, <2>8, GoToOK DEF Steps
<1>11. ASSUME NEW r \in Requests, FetchInfo(r) PROVE Inv'
  <2> DEFINE e == requests[r].egress
             q == requests'[r]
  <2>1. requests[r].at \in {"fetching", "asking"} /\ UNCHANGED <<livekitVars, rowVars, sessionVars>>
    BY <1>11 DEF FetchInfo
  <2>2. /\ e \in Egresses /\ requests[r].session \in Sessions
        /\ egresses[e].session = requests[r].session /\ egresses[e].status # "none"
        /\ Reached(egresses[e].status, "STARTING") /\ Reached(egresses[e].status, "UNKNOWN")
        /\ recordings[e] # "none" /\ requests[r] \in Request
    BY <2>1, HandlerFacts DEF Inv
  <2>3. requests[r].at = "fetching" => Reached(egresses[e].status, "ENDING")
    BY DEF Inv, RequestOK
  <2>4. PICK info \in {egresses[e].status} \cup (IF Failures THEN {"UNKNOWN"} ELSE {}) :
          requests' = [requests EXCEPT
                         ![r].at = IF @ = "fetching" THEN "syncing" ELSE "filling",
                         ![r].info = info]
    BY <1>11 DEF FetchInfo
  <2>5. info \in Said /\ Reached(egresses[e].status, info)
    <3>1. egresses[e].status \in Had
      BY <2>2 DEF Inv, DataInv
    <3> QED BY <2>2, <3>1, ReachedItself DEF Had, Said
  <2>6. /\ q \in Request
        /\ q.at = IF requests[r].at = "fetching" THEN "syncing" ELSE "filling"
        /\ q.session = requests[r].session /\ q.egress = e /\ q.info = info
        /\ requests' = [x \in Requests |-> requests'[x]]
        /\ \A x \in Requests : x # r => requests'[x] = requests[x]
    BY <2>2, <2>4, <2>5 DEF Inv, Request, Steps, Said
  <2>7. requests' \in [Requests -> Request]
    BY <2>6 DEF Inv
  <2>8. RequestOK(q, egresses', recordings')
    <3> HIDE DEF q
    <3> QED BY <2>1, <2>2, <2>3, <2>5, <2>6 DEF RequestOK, livekitVars, rowVars
  <2> QED BY <2>1, <2>6, <2>7, <2>8, NothingWritten, RequestsOK
<1>12. ASSUME NEW r \in Requests, SyncStopped(r) \/ FillRow(r) PROVE Inv'
  <2> DEFINE e == requests[r].egress
             info == requests[r].info
  <2>1. /\ requests[r].at \in {"syncing", "filling"}
        /\ SyncRow(e, info) /\ UNCHANGED <<livekitVars, sessionVars>>
    BY <1>12 DEF SyncStopped, FillRow, At
  <2>2. /\ e \in Egresses /\ requests[r].session \in Sessions /\ info \in Said
        /\ egresses[e].session = requests[r].session /\ egresses[e].status # "none"
        /\ Reached(egresses[e].status, "STARTING") /\ Reached(egresses[e].status, "UNKNOWN")
        /\ Reached(egresses[e].status, info)
        /\ recordings[e] # "none" /\ requests[r] \in Request
    BY <2>1, HandlerFacts DEF Inv
  <2>3. /\ recordings' = [recordings EXCEPT ![e] = info]
        /\ located' = IF info \in WithFile THEN located \cup {e} ELSE located
    BY <2>1, <2>2 DEF SyncRow
  <2>4. DataInv' /\ Forward(egresses, egresses') /\ RowsStay(recordings, recordings')
    BY <2>1, <2>2, <2>3, RowWritten
  <2>5. recordings'[e] # "none" /\ egresses' = egresses
    BY <2>1, <2>2, <2>4 DEF RowsStay, livekitVars
  <2>6. CASE SyncStopped(r)
    <3>1. requests[r].at = "syncing"
          /\ GoTo(r, IF info = "COMPLETE" THEN "linking" ELSE "closing")
      BY <2>6 DEF SyncStopped, At
    <3>2. Reached(egresses[e].status, "ENDING")
      BY <3>1 DEF Inv, RequestOK
    <3>3. ASSUME NEW step \in {"linking", "closing"}, step = "linking" => info = "COMPLETE"
          PROVE  RequestOK([requests[r] EXCEPT !.at = step, !.info = "UNKNOWN"],
                           egresses', recordings')
      BY <2>2, <2>5, <3>2, <3>3 DEF RequestOK, Request
    <3> QED BY <2>4, <3>1, <3>3, GoToOK DEF Steps
  <2>7. CASE FillRow(r)
    <3>1. IF info = "COMPLETE" THEN GoTo(r, "mirroring") ELSE Finish(r)
      BY <2>7 DEF FillRow
    <3>2. info = "COMPLETE" =>
            RequestOK([requests[r] EXCEPT !.at = "mirroring", !.info = "UNKNOWN"],
                      egresses', recordings')
      BY <2>2, <2>5 DEF RequestOK, Request
    <3> QED BY <2>4, <3>1, <3>2, GoToOK, FinishOK DEF Steps
  <2> QED BY <1>12, <2>6, <2>7
<1>13. ASSUME NEW r \in Requests, LinkStopped(r) \/ MirrorUrl(r) PROVE Inv'
  <2> DEFINE e == requests[r].egress
  <2>1. /\ requests[r].at \in {"linking", "mirroring"}
        /\ recordingUrl' = [recordingUrl EXCEPT ![requests[r].session] = e]
        /\ UNCHANGED <<livekitVars, rowVars, recordingId>>
    BY <1>13 DEF LinkStopped, MirrorUrl, At
  <2>2. /\ e \in Egresses /\ requests[r].session \in Sessions
        /\ egresses[e].session = requests[r].session
        /\ Reached(egresses[e].status, "STARTING") /\ Reached(egresses[e].status, "UNKNOWN")
        /\ recordings[e] # "none" /\ requests[r] \in Request
    BY <2>1, HandlerFacts DEF Inv
  <2>3. egresses[e].status = "COMPLETE"
    <3>1. Reached(egresses[e].status, "COMPLETE") /\ egresses[e].status \in Had
      BY <2>1, <2>2, EgressFacts DEF Inv, RequestOK
    <3> QED BY <3>1, ReachedMeans
  <2>4. DataInv' /\ Forward(egresses, egresses') /\ RowsStay(recordings, recordings')
    BY <2>1, <2>2, <2>3, SessionWritten
  <2>5. CASE LinkStopped(r)
    <3>1. requests[r].at = "linking" /\ GoTo(r, "closing")
      BY <2>5 DEF LinkStopped, At
    <3>2. Reached(egresses[e].status, "ENDING")
      BY <3>1 DEF Inv, RequestOK
    <3>3. RequestOK([requests[r] EXCEPT !.at = "closing", !.info = "UNKNOWN"],
                    egresses', recordings')
      BY <2>1, <2>2, <3>2 DEF RequestOK, Request, livekitVars, rowVars
    <3> QED BY <2>4, <3>1, <3>3, GoToOK DEF Steps
  <2>6. CASE MirrorUrl(r)
    BY <2>4, <2>6, FinishOK DEF MirrorUrl
  <2> QED BY <1>13, <2>5, <2>6
<1>14. ASSUME NEW r \in Requests, SyncFail(r) PROVE Inv'
  <2> DEFINE e == requests[r].egress
  <2>1. /\ requests[r].at \in {"syncing", "linking"} /\ GoTo(r, "closing")
        /\ UNCHANGED <<livekitVars, rowVars, sessionVars>>
    BY <1>14 DEF SyncFail
  <2>2. /\ e \in Egresses /\ requests[r].session \in Sessions
        /\ egresses[e].session = requests[r].session
        /\ Reached(egresses[e].status, "STARTING") /\ Reached(egresses[e].status, "UNKNOWN")
        /\ recordings[e] # "none" /\ requests[r] \in Request
    BY <2>1, HandlerFacts DEF Inv
  <2>3. Reached(egresses[e].status, "ENDING")
    BY <2>1 DEF Inv, RequestOK
  <2>4. RequestOK([requests[r] EXCEPT !.at = "closing", !.info = "UNKNOWN"],
                  egresses', recordings')
    BY <2>1, <2>2, <2>3 DEF RequestOK, Request, livekitVars, rowVars
  <2> QED BY <2>1, <2>4, NothingWritten, GoToOK DEF Steps
<1>15. ASSUME NEW r \in Requests, NEW e \in Egresses, Backfill(r, e) PROVE Inv'
  <2>1. /\ recordings[e] # "none" /\ Start(r, "asking", egresses[e].session, e)
        /\ UNCHANGED <<livekitVars, rowVars, sessionVars>>
    BY <1>15 DEF Backfill
  <2>2. /\ egresses[e].session \in Sessions
        /\ Reached(egresses[e].status, "STARTING") /\ Reached(egresses[e].status, "UNKNOWN")
    BY <2>1, EgressFacts
  <2>3. RequestOK([at |-> "asking", session |-> egresses[e].session, egress |-> e,
                   info |-> "UNKNOWN"], egresses', recordings')
    BY <2>1, <2>2 DEF RequestOK, livekitVars, rowVars
  <2> QED BY <2>1, <2>2, <2>3, NothingWritten, StartOK DEF Steps, Null
<1>16. ASSUME NEW r \in Requests, NEW e \in Egresses, NEW st \in Status, Webhook(r, e, st)
       PROVE  Inv'
  <2>1. /\ <<e, st>> \in events
        /\ recordings' = [recordings EXCEPT ![e] = st]
        /\ located' = IF st \in WithFile THEN located \cup {e} ELSE located
        /\ UNCHANGED <<livekitVars, sessionVars>>
    BY <1>16 DEF Webhook
  <2>2. Reached(egresses[e].status, st)
    BY <2>1 DEF Inv, DataInv
  <2>3. egresses[e].status # "none"
    BY <2>2, EgressFacts, ReachedMeans
  <2>4. DataInv' /\ Forward(egresses, egresses') /\ RowsStay(recordings, recordings')
    BY <2>1, <2>2, <2>3, RowWritten DEF Said
  <2>5. CASE st = "COMPLETE"
    <3>1. Start(r, "mirroring", egresses[e].session, e)
      BY <1>16, <2>5 DEF Webhook
    <3>2. /\ egresses[e].session \in Sessions
          /\ Reached(egresses[e].status, "STARTING") /\ Reached(egresses[e].status, "UNKNOWN")
      BY <2>3, EgressFacts
    <3>3. recordings'[e] # "none" /\ egresses' = egresses
      BY <2>1, <2>5 DEF Inv, DataInv, livekitVars
    <3>4. RequestOK([at |-> "mirroring", session |-> egresses[e].session, egress |-> e,
                     info |-> "UNKNOWN"], egresses', recordings')
      BY <2>2, <2>5, <3>2, <3>3 DEF RequestOK
    <3> QED BY <2>4, <3>1, <3>2, <3>4, StartOK DEF Steps, Null
  <2>6. CASE st # "COMPLETE"
    <3>1. UNCHANGED requests
      BY <1>16, <2>6 DEF Webhook
    <3> QED BY <2>4, <3>1, StayOK
  <2> QED BY <2>5, <2>6
<1>17. ASSUME NEW e \in Egresses, EgressProgress(e) PROVE Inv'
  <2> DEFINE s == egresses[e].session
  <2>1. PICK st \in Successors(egresses[e].status) : SetStatus(e, st)
    BY <1>17 DEF EgressProgress
  <2>2. egresses[e].status # "none"
    BY <2>1 DEF Successors
  <2>3. s \in Sessions
    BY <2>2, EgressFacts
  <2>4. DataInv' /\ Forward(egresses, egresses') /\ RowsStay(recordings, recordings')
    BY <1>17, <2>1, <2>3, EgressMoved DEF EgressProgress, SetStatus
  <2> QED BY <1>17, <2>4, StayOK DEF EgressProgress
<1>18. CASE Crash
  <2>1. /\ requests' = [r \in Requests |-> Idle]
        /\ UNCHANGED <<livekitVars, rowVars, sessionVars>>
    BY <1>18 DEF Crash
  <2>2. DataInv'
    BY <2>1, NothingWritten
  <2>3. \A r \in Requests : requests'[r] \in Request
                            /\ RequestOK(requests'[r], egresses', recordings')
    BY <2>1, IdleOK
  <2> QED BY <2>1, <2>2, <2>3 DEF Inv
<1>19. ASSUME NEW r \in Requests, Resume(r) PROVE Inv'
  BY <1>3, <1>4, <1>5, <1>6, <1>7, <1>9, <1>10, <1>11, <1>12, <1>13, <1>14, <1>19 DEF Resume
<1>20. ASSUME NEW r \in Requests, Receive(r) PROVE Inv'
  BY <1>2, <1>8, <1>15, <1>16, <1>20 DEF Receive
<1> QED BY <1>1, <1>17, <1>18, <1>19, <1>20 DEF Next

LEMMA Invariance == Spec => []Inv
BY InitInv, NextInv, PTL DEF Spec

-----------------------------------------------------------------------------
(* What follows                                                            *)

\* The state of recordings always has its type.
THEOREM TypeCorrect == Spec => []TypeOK
<1>1. Inv => TypeOK
  BY DEF Inv, DataInv, TypeOK, Had, Said
<1> QED BY <1>1, Invariance, PTL

\* A row is never ahead of its egress, so a running recording is never taken
\* for one that is over.
THEOREM RowsNeverAhead == Spec => []NeverAhead
<1>1. Inv => NeverAhead
  BY DEF Inv, DataInv
<1> QED BY <1>1, Invariance, PTL

\* A recording_url, and a row that has its file and end, name a file LiveKit has
\* really left, of that session.
THEOREM FilesAreThere == Spec => []FileIsThere
<1>1. Inv => FileIsThere
  BY DEF Inv, DataInv
<1> QED BY <1>1, Invariance, PTL

\* What stop-recording would stop is a recording of the session with a row.
THEOREM NamesHaveRows == Spec => []NamedHasRow
<1>1. Inv => NamedHasRow
  BY DEF Inv, DataInv
<1> QED BY <1>1, Invariance, PTL

\* Without failed queries no row is UNKNOWN.
KnownInv ==
  ~Failures => /\ \A e \in Egresses : recordings[e] # "UNKNOWN"
               /\ \A r \in Requests : requests[r].at \in {"syncing", "filling"} =>
                                        requests[r].info # "UNKNOWN"

LEMMA NextKnown == Inv /\ KnownInv /\ [Next]_vars => KnownInv'
<1> SUFFICES ASSUME Inv, KnownInv, [Next]_vars, ~Failures PROVE KnownInv'
  BY DEF KnownInv
<1> DEFINE Rows == \A e \in Egresses : recordings[e] # "UNKNOWN"
           Infos == \A r \in Requests : requests[r].at \in {"syncing", "filling"} =>
                                          requests[r].info # "UNKNOWN"
<1>0. /\ Rows /\ Infos
      /\ recordings \in [Egresses -> Said \cup {"none"}]
      /\ egresses \in [Egresses -> [session : Null(Sessions), status : Had]]
      /\ requests \in [Requests -> Request]
  BY DEF KnownInv, Inv, DataInv
<1>1. ASSUME NEW r \in Requests, NEW step \in Steps \ {"syncing", "filling"}, GoTo(r, step)
      PROVE  Infos'
  BY <1>0, <1>1 DEF GoTo, Request
<1>2. ASSUME NEW r \in Requests, Finish(r) PROVE Infos'
  BY <1>0, <1>2 DEF Finish, Idle
<1>3. ASSUME NEW r \in Requests, CreateRow(r) \/ MarkEnding(r) PROVE Rows' /\ Infos'
  BY <1>0, <1>3 DEF CreateRow, MarkEnding, GoTo, Request
<1>4. ASSUME NEW r \in Requests, SyncStopped(r) \/ FillRow(r) PROVE Rows' /\ Infos'
  <2>1. requests[r].info # "UNKNOWN" /\ SyncRow(requests[r].egress, requests[r].info)
    BY <1>0, <1>4 DEF SyncStopped, FillRow, At
  <2>2. Rows'
    BY <1>0, <2>1 DEF SyncRow
  <2>3. Infos'
    BY <1>4, <1>1, <1>2 DEF SyncStopped, FillRow, Steps
  <2> QED BY <2>2, <2>3
<1>5. ASSUME NEW r \in Requests, FetchInfo(r) PROVE Rows' /\ Infos'
  <2> DEFINE e == requests[r].egress
  <2>1. requests' = [requests EXCEPT
                       ![r].at = IF @ = "fetching" THEN "syncing" ELSE "filling",
                       ![r].info = egresses[e].status]
    BY <1>5 DEF FetchInfo
  <2>2. e \in Egresses
    BY <1>5, HandlerFacts DEF FetchInfo
  <2>3. egresses[e].status # "UNKNOWN"
    BY <1>0, <2>2 DEF Had, Status, Ended
  <2>4. Rows'
    BY <1>0, <1>5 DEF FetchInfo, rowVars
  <2>5. Infos'
    BY <1>0, <2>1, <2>3 DEF Request
  <2> QED BY <2>4, <2>5
<1>6. ASSUME NEW r \in Requests, NEW e \in Egresses, NEW st \in Status, Webhook(r, e, st)
      PROVE  Rows' /\ Infos'
  <2>1. Rows'
    BY <1>0, <1>6 DEF Webhook, Status, Ended
  <2>2. Infos'
    BY <1>0, <1>6 DEF Webhook, Start
  <2> QED BY <2>1, <2>2
<1>7. ASSUME NEW r \in Requests,
             \/ CheckActive(r) \/ LaunchEgress(r) \/ NameRecording(r) \/ StartFail(r)
             \/ StopEgress(r) \/ LinkStopped(r) \/ SyncFail(r) \/ CloseStopped(r)
             \/ StopFail(r) \/ MirrorUrl(r) \/ BackfillEnd(r)
      PROVE  Rows' /\ Infos'
  <2>1. UNCHANGED recordings
    BY <1>7 DEF CheckActive, LaunchEgress, NameRecording, StartFail, StopEgress, LinkStopped,
                SyncFail, CloseStopped, StopFail, MirrorUrl, BackfillEnd, rowVars
  <2>2. \/ Finish(r)
        \/ \E step \in Steps \ {"syncing", "filling"} : GoTo(r, step)
        \/ LaunchEgress(r)
    BY <1>7 DEF CheckActive, NameRecording, StartFail, StopEgress, LinkStopped,
                SyncFail, CloseStopped, StopFail, MirrorUrl, BackfillEnd, Steps
  <2>3. Infos'
    <3>1. ASSUME LaunchEgress(r) PROVE Infos'
      BY <1>0, <3>1 DEF LaunchEgress, Request
    <3> QED BY <2>2, <3>1, <1>1, <1>2
  <2> QED BY <1>0, <2>1, <2>3
<1>8. ASSUME NEW r \in Requests, NEW s \in Sessions, StartRecording(r, s) \/ StopRecording(r, s)
      PROVE  Rows' /\ Infos'
  BY <1>0, <1>8 DEF StartRecording, StopRecording, Start, rowVars
<1>9. ASSUME NEW r \in Requests, NEW e \in Egresses, Backfill(r, e) PROVE Rows' /\ Infos'
  BY <1>0, <1>9 DEF Backfill, Start, rowVars
<1>10. ASSUME NEW e \in Egresses, EgressProgress(e) PROVE Rows' /\ Infos'
  BY <1>0, <1>10 DEF EgressProgress, rowVars
<1>11. ASSUME Crash PROVE Rows' /\ Infos'
  BY <1>0, <1>11 DEF Crash, Idle, rowVars
<1>12. ASSUME UNCHANGED vars PROVE Rows' /\ Infos'
  BY <1>0, <1>12 DEF vars
<1>13. ASSUME NEW r \in Requests, Resume(r) PROVE Rows' /\ Infos'
  BY <1>3, <1>4, <1>5, <1>7, <1>13 DEF Resume
<1>14. ASSUME NEW r \in Requests, Receive(r) PROVE Rows' /\ Infos'
  BY <1>6, <1>8, <1>9, <1>14 DEF Receive
<1>15. Rows' /\ Infos'
  BY <1>10, <1>11, <1>12, <1>13, <1>14 DEF Next
<1> QED BY <1>15 DEF KnownInv

\* Only startRecording's check sends a handler on to LiveKit.
LEMMA OnlyCheckLaunches ==
  ASSUME Inv, [Next]_vars, NEW r \in Requests,
         At(r, "checking"), requests'[r].at = "launching"
  PROVE  CheckActive(r)
<1>1. ASSUME NEW q \in Requests, Resume(q), q # r PROVE requests'[r] = requests[r]
  BY <1>1 DEF Resume, CheckActive, LaunchEgress, CreateRow, NameRecording, StartFail,
              StopEgress, MarkEnding, FetchInfo, SyncStopped, LinkStopped, SyncFail,
              CloseStopped, StopFail, FillRow, MirrorUrl, BackfillEnd, GoTo, Finish, Inv
<1>2. ASSUME NEW q \in Requests, Receive(q) PROVE requests'[r] = requests[r]
  <2>1. \/ UNCHANGED requests
        \/ \E step \in Steps, s \in Null(Sessions), e \in Null(Egresses) : Start(q, step, s, e)
    BY <1>2 DEF Receive, StartRecording, StopRecording, Backfill, Webhook, Steps, Null, Inv,
                DataInv
  <2>2. ASSUME NEW step, NEW s, NEW e, Start(q, step, s, e)
        PROVE  requests'[r] = requests[r]
    BY <2>2 DEF Start, Idle, Inv, At
  <2> QED BY <2>1, <2>2
<1>3. ASSUME NEW e \in Egresses, EgressProgress(e) PROVE requests'[r] = requests[r]
  BY <1>3 DEF EgressProgress
<1>4. ASSUME Resume(r) PROVE CheckActive(r)
  BY <1>4 DEF Resume, LaunchEgress, CreateRow, NameRecording, StartFail,
              StopEgress, MarkEnding, FetchInfo, SyncStopped, LinkStopped, SyncFail,
              CloseStopped, StopFail, FillRow, MirrorUrl, BackfillEnd, GoTo, Finish, Inv,
              At, Idle
<1>5. CASE Crash
  BY <1>5 DEF Crash, Idle
<1>6. CASE UNCHANGED vars
  BY <1>6 DEF vars, At
<1> QED BY <1>1, <1>2, <1>3, <1>4, <1>5, <1>6 DEF Next, At

\* startRecording's check overlooks an egress that is not over only if its row is
\* not written yet, or was overwritten by a failed query.
THEOREM CheckIsSound == Spec => CheckSeesUnfinished
<1> DEFINE Sees == \A r \in Requests, e \in Egresses :
                     /\ At(r, "checking") /\ requests'[r].at = "launching"
                     /\ egresses[e].session = requests[r].session
                     /\ egresses[e].status \notin Ended
                     => recordings[e] = "none" \/ (Failures /\ recordings[e] = "UNKNOWN")
<1>1. Init => KnownInv
  BY DEF Init, KnownInv, Idle
<1>2. Inv /\ KnownInv /\ [Next]_vars => Sees
  <2> SUFFICES ASSUME Inv, KnownInv, [Next]_vars, NEW r \in Requests, NEW e \in Egresses,
                      At(r, "checking"), requests'[r].at = "launching",
                      egresses[e].session = requests[r].session,
                      egresses[e].status \notin Ended
               PROVE  recordings[e] = "none" \/ (Failures /\ recordings[e] = "UNKNOWN")
    OBVIOUS
  <2>1. CheckActive(r)
    BY OnlyCheckLaunches
  <2>2. recordings[e] \notin {"STARTING", "ACTIVE", "ENDING"}
    BY <2>1 DEF CheckActive, ActiveRow
  <2>3. recordings[e] \notin Ended
    BY DEF Inv, DataInv, NeverAhead
  <2>4. recordings[e] \in Said \cup {"none"}
    BY DEF Inv, DataInv
  <2> QED BY <2>2, <2>3, <2>4 DEF Said, Status, KnownInv
<1>3. Inv /\ KnownInv /\ [Next]_vars => [Sees]_vars
  BY <1>2
<1> HIDE DEF Sees
<1>4. Spec => [][Sees]_vars
  BY <1>1, <1>3, Invariance, NextKnown, PTL DEF Spec
<1> QED BY <1>4 DEF Sees, CheckSeesUnfinished

-----------------------------------------------------------------------------
(* Recording implements Archive                                            *)

\* What was reached, for Archive, is what has been true.
LEMMA ReachedIsUpTo ==
  \A now \in Had, st \in Status : Reached(now, st) <=> st \in Books!UpTo(now)
BY Orders DEF Reached, Had, Status, Ended, Books!UpTo, Books!Running

LEMMA SameStatus == Books!Status = Status /\ Books!Files = WithFile
BY DEF Books!Status, Books!Running, Books!Files, Status, Ended, WithFile

\* What of an egress was reached may be written into its entry.
LEMMA RowIsEntered ==
  ASSUME NEW e \in Egresses, NEW info \in Said,
         egresses[e].status \in Had, Reached(egresses[e].status, info),
         info = "UNKNOWN" => recordings[e] # "none",
         recordings' = [recordings EXCEPT ![e] = info],
         located' = IF info \in WithFile THEN located \cup {e} ELSE located,
         UNCHANGED <<livekitVars, sessionVars>>
  PROVE  Books!Next
<1>1. \/ info \in Status /\ info \in Books!UpTo(egresses[e].status)
      \/ info = "UNKNOWN" /\ recordings[e] # "none"
  BY ReachedIsUpTo DEF Said
<1>2. Books!Enter(e, info)
  BY <1>1, SameStatus DEF Books!Enter, livekitVars, sessionVars
<1> QED BY <1>1, <1>2, SameStatus DEF Books!Next

\* LiveKit takes an egress further, by itself or because it was told to stop.
LEMMA StatusAdvances ==
  ASSUME NEW e \in Egresses, NEW st, SetStatus(e, st), UNCHANGED <<rowVars, sessionVars>>,
         egresses \in [Egresses -> [session : Null(Sessions), status : Had]],
         \/ st \in Successors(egresses[e].status)
         \/ egresses[e].status \in {"STARTING", "ACTIVE"} /\ st = "ENDING"
  PROVE  Books!Next
<1>1. st \in Status /\ egresses[e].status \in Books!UpTo(st) \ {st}
  BY DEF Successors, Status, Ended, Books!UpTo, Books!Running
<1>2. egresses' = [egresses EXCEPT ![e].status = st]
  BY DEF SetStatus
<1>3. Books!Advance(e, st)
  BY <1>1, <1>2 DEF Books!Advance, rowVars, sessionVars
<1> QED BY <1>1, <1>3, SameStatus DEF Books!Next

\* A handler that links a recording does it for a complete one of its session.
LEMMA LinkShows ==
  ASSUME Inv, NEW r \in Requests, LinkStopped(r) \/ MirrorUrl(r)
  PROVE  Books!Next
<1> DEFINE e == requests[r].egress
           s == requests[r].session
<1>1. /\ requests[r].at \in {"linking", "mirroring"}
      /\ recordingUrl' = [recordingUrl EXCEPT ![s] = e]
      /\ UNCHANGED <<livekitVars, rowVars, recordingId>>
  BY DEF LinkStopped, MirrorUrl, At
<1>2. e \in Egresses /\ s \in Sessions /\ egresses[e].session = s
  BY <1>1, HandlerFacts
<1>3. egresses[e].status = "COMPLETE"
  BY <1>1, <1>2, EgressFacts, ReachedMeans DEF Inv, RequestOK
<1>4. egresses[e] = [session |-> s, status |-> "COMPLETE"]
  BY <1>2, <1>3 DEF Inv, DataInv
<1>5. Books!Show(s, e)
  BY <1>1, <1>4 DEF Books!Show, livekitVars, rowVars
<1> QED BY <1>2, <1>5 DEF Books!Next

\* A handler that names a recording for the next stop does it for one of its session
\* that has a row.
LEMMA NamePoints ==
  ASSUME Inv, NEW r \in Requests, NameRecording(r) \/ CloseStopped(r)
  PROVE  Books!Next
<1> DEFINE e == requests[r].egress
           s == requests[r].session
<1>1. /\ requests[r].at \in {"naming", "closing"}
      /\ recordingId' = [recordingId EXCEPT ![s] = e]
      /\ UNCHANGED <<livekitVars, rowVars, recordingUrl>>
  BY DEF NameRecording, CloseStopped, At
<1>2. e \in Egresses /\ s \in Sessions /\ egresses[e].session = s /\ recordings[e] # "none"
  BY <1>1, HandlerFacts
<1>3. Books!PointTo(s, e)
  BY <1>1, <1>2 DEF Books!PointTo, livekitVars, rowVars
<1> QED BY <1>2, <1>3 DEF Books!Next

LEMMA ArchiveStep == Inv /\ [Next]_vars => [Books!Next]_(Books!vars)
<1> SUFFICES ASSUME Inv, [Next]_vars PROVE Books!Next \/ UNCHANGED Books!vars
  OBVIOUS
<1>0. egresses \in [Egresses -> [session : Null(Sessions), status : Had]]
  BY DEF Inv, DataInv
<1>1. ASSUME NEW r \in Requests, LaunchEgress(r) PROVE Books!Next
  <2>1. requests[r].session \in Sessions
    BY <1>1 DEF LaunchEgress, At, Inv, RequestOK
  <2>2. PICK e \in Egresses :
          /\ egresses[e].status = "none"
          /\ egresses' = [egresses EXCEPT ![e] = [session |-> requests[r].session,
                                                  status |-> "STARTING"]]
    BY <1>1 DEF LaunchEgress
  <2>3. Books!Launch(e, requests[r].session)
    BY <1>1, <2>2 DEF Books!Launch, LaunchEgress, rowVars, sessionVars
  <2> QED BY <2>1, <2>3 DEF Books!Next
<1>2. ASSUME NEW r \in Requests, CreateRow(r) PROVE Books!Next
  <2>1. At(r, "creating") /\ "STARTING" \in Said \ WithFile /\ "STARTING" # "UNKNOWN"
    BY <1>2 DEF CreateRow, Said, Status, WithFile
  <2>2. /\ requests[r].egress \in Egresses
        /\ egresses[requests[r].egress].status \in Had
        /\ Reached(egresses[requests[r].egress].status, "STARTING")
    BY <2>1, HandlerFacts, EgressFacts DEF At
  <2> QED BY <1>2, <2>1, <2>2, RowIsEntered DEF CreateRow
<1>3. ASSUME NEW r \in Requests, MarkEnding(r) PROVE Books!Next
  <2>1. At(r, "ending") /\ "ENDING" \in Said \ WithFile /\ "ENDING" # "UNKNOWN"
    BY <1>3 DEF MarkEnding, Said, Status, WithFile
  <2>2. /\ requests[r].egress \in Egresses
        /\ egresses[requests[r].egress].status \in Had
        /\ Reached(egresses[requests[r].egress].status, "ENDING")
        /\ recordings[requests[r].egress] # "none"
    BY <2>1, HandlerFacts, EgressFacts DEF At, Inv, RequestOK
  <2>3. recordings' = [recordings EXCEPT ![requests[r].egress] = "ENDING"]
    BY <1>3, <2>2 DEF MarkEnding
  <2> QED BY <1>3, <2>1, <2>2, <2>3, RowIsEntered DEF MarkEnding
<1>4. ASSUME NEW r \in Requests, SyncStopped(r) \/ FillRow(r) PROVE Books!Next
  <2> DEFINE e == requests[r].egress
             info == requests[r].info
  <2>1. /\ requests[r].at \in {"syncing", "filling"}
        /\ SyncRow(e, info) /\ UNCHANGED <<livekitVars, sessionVars>>
    BY <1>4 DEF SyncStopped, FillRow, At
  <2>2. /\ e \in Egresses /\ info \in Said
        /\ egresses[e].status \in Had /\ Reached(egresses[e].status, info)
        /\ recordings[e] # "none"
    BY <2>1, HandlerFacts, EgressFacts
  <2>3. /\ recordings' = [recordings EXCEPT ![e] = info]
        /\ located' = IF info \in WithFile THEN located \cup {e} ELSE located
    BY <2>1, <2>2 DEF SyncRow
  <2> QED BY <2>1, <2>2, <2>3, RowIsEntered
<1>5. ASSUME NEW r \in Requests, NEW e \in Egresses, NEW st \in Status, Webhook(r, e, st)
      PROVE  Books!Next
  <2>1. Reached(egresses[e].status, st)
    BY <1>5 DEF Webhook, Inv, DataInv
  <2>2. egresses[e].status \in Had /\ st \in Said /\ st # "UNKNOWN"
    BY EgressFacts DEF Said, Status, Ended
  <2> QED BY <1>5, <2>1, <2>2, RowIsEntered DEF Webhook
<1>6. ASSUME NEW r \in Requests, StopEgress(r) PROVE Books!Next \/ UNCHANGED Books!vars
  <2>1. requests[r].egress \in Egresses
    BY <1>6, HandlerFacts DEF StopEgress, At
  <2>2. CASE egresses[requests[r].egress].status \in {"STARTING", "ACTIVE"}
    BY <1>0, <1>6, <2>1, <2>2, StatusAdvances DEF StopEgress
  <2>3. CASE egresses[requests[r].egress].status \notin {"STARTING", "ACTIVE"}
    BY <1>6, <2>3 DEF StopEgress, livekitVars, rowVars, sessionVars, Books!vars
  <2> QED BY <2>2, <2>3
<1>7. ASSUME NEW e \in Egresses, EgressProgress(e) PROVE Books!Next
  BY <1>0, <1>7, StatusAdvances DEF EgressProgress
<1>8. ASSUME NEW r \in Requests,
             \/ CheckActive(r) \/ StartFail(r) \/ FetchInfo(r) \/ SyncFail(r) \/ StopFail(r)
             \/ BackfillEnd(r)
      PROVE  UNCHANGED Books!vars
  BY <1>8 DEF CheckActive, StartFail, FetchInfo, SyncFail, StopFail, BackfillEnd,
              livekitVars, rowVars, sessionVars, Books!vars
<1>9. ASSUME NEW r \in Requests, Resume(r) PROVE Books!Next \/ UNCHANGED Books!vars
  BY <1>1, <1>2, <1>3, <1>4, <1>6, <1>8, <1>9, LinkShows, NamePoints DEF Resume
<1>10. ASSUME NEW r \in Requests, Receive(r) PROVE Books!Next \/ UNCHANGED Books!vars
  BY <1>5, <1>10 DEF Receive, StartRecording, StopRecording, Backfill, livekitVars, rowVars,
                     sessionVars, Books!vars
<1>11. CASE Crash \/ UNCHANGED vars
  BY <1>11 DEF Crash, vars, livekitVars, rowVars, sessionVars, Books!vars
<1> QED BY <1>7, <1>9, <1>10, <1>11 DEF Next

\* Under failures, crashes and any order of webhooks, rows and sessions are an archive
\* that trails after LiveKit: the initial states agree, and each step is one of Archive's,
\* which touches an egress, an entry or a pointer, or none.
THEOREM RecordingImplementsArchive == Spec => TrailsLiveKit
<1>1. Init => Books!Init
  BY DEF Init, Books!Init
<1> QED BY <1>1, ArchiveStep, Invariance, PTL DEF Spec, TrailsLiveKit, Books!Spec

-----------------------------------------------------------------------------
(* What an archive is good for                                             *)

\* Any archive, not just this server's: an entry says what the egress has reached.
ArchiveInv ==
  /\ egresses \in [Egresses -> [session : Null(Sessions), status : Had]]
  /\ recordings \in [Egresses -> Said \cup {"none"}]
  /\ located \subseteq Egresses
  /\ recordingId \in [Sessions -> Null(Egresses)]
  /\ recordingUrl \in [Sessions -> Null(Egresses)]
  /\ \A e \in Egresses : recordings[e] # "none" =>
       Reached(egresses[e].status, recordings[e]) /\ egresses[e].status # "none"
  /\ FileIsThere
  /\ NamedHasRow

\* What was reached stays reached as an egress advances, and nothing follows an end.
LEMMA UpToForward ==
  \A old \in Had, st \in Status : old \in Books!UpTo(st) \ {st} =>
    /\ old \notin Ended
    /\ \A said \in Said : Reached(old, said) => Reached(st, said)
BY Orders DEF Reached, Had, Said, Status, Ended, Books!UpTo, Books!Running

LEMMA ArchiveInvStep == ArchiveInv /\ [Books!Next]_(Books!vars) => ArchiveInv'
<1> SUFFICES ASSUME ArchiveInv, [Books!Next]_(Books!vars) PROVE ArchiveInv'
  OBVIOUS
<1>0. /\ egresses \in [Egresses -> [session : Null(Sessions), status : Had]]
      /\ recordings \in [Egresses -> Said \cup {"none"}]
      /\ located \subseteq Egresses
      /\ recordingId \in [Sessions -> Null(Egresses)]
      /\ recordingUrl \in [Sessions -> Null(Egresses)]
      /\ NoOne \notin Egresses
  BY RecordingAssumption DEF ArchiveInv
<1>1. ASSUME NEW e \in Egresses, NEW s \in Sessions, Books!Launch(e, s) PROVE ArchiveInv'
  <2>1. /\ egresses[e].status = "none" /\ recordings[e] = "none"
        /\ egresses' = [egresses EXCEPT ![e] = [session |-> s, status |-> "STARTING"]]
        /\ UNCHANGED <<rowVars, sessionVars>>
    BY <1>1 DEF Books!Launch, ArchiveInv, rowVars, sessionVars
  <2>2. egresses' \in [Egresses -> [session : Null(Sessions), status : Had]]
    BY <1>0, <2>1 DEF Null, Had, Status
  <2>3. \A d \in Egresses \ {e} : egresses'[d] = egresses[d]
    BY <1>0, <2>1
  <2>4. \A d \in Egresses : recordings[d] # "none" \/ egresses[d].status # "none" => d # e
    BY <2>1
  <2>5. FileIsThere'
    BY <1>0, <2>1, <2>3, <2>4 DEF ArchiveInv, FileIsThere, WithFile, rowVars, sessionVars, Null
  <2>6. NamedHasRow'
    BY <1>0, <2>1, <2>3, <2>4 DEF ArchiveInv, NamedHasRow, rowVars, sessionVars, Null
  <2>7. \A d \in Egresses : recordings'[d] # "none" =>
          Reached(egresses'[d].status, recordings'[d]) /\ egresses'[d].status # "none"
    BY <2>1, <2>3, <2>4 DEF ArchiveInv, rowVars
  <2> QED BY <1>0, <2>1, <2>2, <2>5, <2>6, <2>7 DEF ArchiveInv, rowVars, sessionVars
<1>2. ASSUME NEW e \in Egresses, NEW st \in Status, Books!Advance(e, st) PROVE ArchiveInv'
  <2>1. /\ egresses[e].status \in Books!UpTo(st) \ {st}
        /\ egresses' = [egresses EXCEPT ![e].status = st]
        /\ UNCHANGED <<rowVars, sessionVars>>
    BY <1>2 DEF Books!Advance, rowVars, sessionVars
  <2>2. egresses' \in [Egresses -> [session : Null(Sessions), status : Had]]
    BY <1>0, <2>1 DEF Had
  <2>3. /\ egresses[e].status \notin Ended
        /\ \A said \in Said : Reached(egresses[e].status, said) => Reached(st, said)
    BY <1>0, <2>1, UpToForward
  <2>4. /\ \A d \in Egresses \ {e} : egresses'[d] = egresses[d]
        /\ egresses'[e].session = egresses[e].session /\ egresses'[e].status = st
        /\ st # "none"
    BY <1>0, <2>1 DEF Status, Ended
  <2>5. FileIsThere'
    BY <1>0, <2>1, <2>3, <2>4
    DEF ArchiveInv, FileIsThere, WithFile, Ended, rowVars, sessionVars, Null
  <2>6. NamedHasRow'
    BY <1>0, <2>1, <2>4 DEF ArchiveInv, NamedHasRow, rowVars, sessionVars, Null
  <2>7. \A d \in Egresses : recordings'[d] # "none" =>
          Reached(egresses'[d].status, recordings'[d]) /\ egresses'[d].status # "none"
    BY <1>0, <2>1, <2>3, <2>4 DEF ArchiveInv, rowVars
  <2> QED BY <1>0, <2>1, <2>2, <2>5, <2>6, <2>7 DEF ArchiveInv, rowVars, sessionVars
<1>3. ASSUME NEW e \in Egresses, NEW st \in Said, Books!Enter(e, st) PROVE ArchiveInv'
  <2>1. /\ recordings' = [recordings EXCEPT ![e] = st]
        /\ located' = IF st \in WithFile THEN located \cup {e} ELSE located
        /\ UNCHANGED <<egresses, sessionVars>>
    BY <1>3, SameStatus DEF Books!Enter, sessionVars
  <2>2. Reached(egresses[e].status, st) /\ egresses[e].status # "none"
    <3>1. CASE st = "UNKNOWN"
      <4>1. recordings[e] # "none"
        BY <1>0, <1>3, <3>1 DEF Books!Enter, Books!UpTo, Books!Running, Had, Status, Ended
      <4>2. Reached(egresses[e].status, "UNKNOWN")
        BY <1>0, ReachedItself
      <4> QED BY <3>1, <4>1, <4>2 DEF ArchiveInv
    <3>2. CASE st # "UNKNOWN"
      <4>1. st \in Status /\ st \in Books!UpTo(egresses[e].status)
        BY <1>3, <3>2 DEF Books!Enter, Said
      <4> QED BY <1>0, <4>1, ReachedIsUpTo DEF Books!UpTo
    <3> QED BY <3>1, <3>2
  <2>3. st # "none"
    BY DEF Said, Status, Ended
  <2>4. \A d \in Egresses : recordings[d] # "none" => recordings'[d] # "none"
    BY <1>0, <2>1, <2>3
  <2>5. st \in WithFile => egresses[e].status = st
    BY <2>2 DEF Reached, Ended, WithFile
  <2>6. FileIsThere'
    BY <1>0, <2>1, <2>3, <2>4, <2>5 DEF ArchiveInv, FileIsThere, sessionVars
  <2>7. NamedHasRow'
    BY <1>0, <2>1, <2>4 DEF ArchiveInv, NamedHasRow, sessionVars, Null
  <2>8. \A d \in Egresses : recordings'[d] # "none" =>
          Reached(egresses'[d].status, recordings'[d]) /\ egresses'[d].status # "none"
    BY <1>0, <2>1, <2>2 DEF ArchiveInv
  <2> QED BY <1>0, <2>1, <2>6, <2>7, <2>8 DEF ArchiveInv, sessionVars
<1>4. ASSUME NEW e \in Egresses, NEW s \in Sessions, Books!PointTo(s, e) \/ Books!Show(s, e)
      PROVE  ArchiveInv'
  <2>1. UNCHANGED <<egresses, rowVars>>
    BY <1>4 DEF Books!PointTo, Books!Show, rowVars
  <2>2. FileIsThere' /\ recordingUrl' \in [Sessions -> Null(Egresses)]
    BY <1>0, <1>4 DEF Books!PointTo, Books!Show, ArchiveInv, FileIsThere, Null
  <2>3. NamedHasRow' /\ recordingId' \in [Sessions -> Null(Egresses)]
    BY <1>0, <1>4 DEF Books!PointTo, Books!Show, ArchiveInv, NamedHasRow, Null
  <2> QED BY <1>0, <2>1, <2>2, <2>3 DEF ArchiveInv, rowVars
<1>5. CASE UNCHANGED Books!vars
  BY <1>5 DEF Books!vars, ArchiveInv, FileIsThere, NamedHasRow
<1> QED BY <1>1, <1>2, <1>3, <1>4, <1>5, SameStatus DEF Books!Next, Said

\* Whatever implements Archive keeps the three invariants: what TrailsLiveKit says of the
\* server is enough to have its rows never ahead, its files there and its names backed.
THEOREM ArchiveKeepsItsWord == Books!Spec => [](NeverAhead /\ FileIsThere /\ NamedHasRow)
<1>1. Books!Init => ArchiveInv
  BY DEF Books!Init, ArchiveInv, FileIsThere, NamedHasRow, Null, Had
<1>2. ArchiveInv => NeverAhead /\ FileIsThere /\ NamedHasRow
  <2> SUFFICES ASSUME ArchiveInv PROVE NeverAhead
    BY DEF ArchiveInv
  <2>1. ASSUME NEW e \in Egresses, recordings[e] # "none"
        PROVE  /\ Order[recordings[e]] <= Order[egresses[e].status]
               /\ recordings[e] \in Ended => recordings[e] = egresses[e].status
    BY <2>1 DEF ArchiveInv, Reached
  <2>2. ASSUME NEW e \in Egresses, recordings[e] = "none"
        PROVE  /\ Order[recordings[e]] <= Order[egresses[e].status]
               /\ recordings[e] \in Ended => recordings[e] = egresses[e].status
    <3>1. egresses[e].status \in Had
      BY DEF ArchiveInv
    <3> QED BY <2>2, <3>1, Orders DEF Had, Status, Ended
  <2> QED BY <2>1, <2>2 DEF NeverAhead
<1> QED BY <1>1, <1>2, ArchiveInvStep, PTL DEF Books!Spec
=============================================================================

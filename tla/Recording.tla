------------------------------ MODULE Recording ------------------------------
(***************************************************************************)
(* Recording a session: MeetService.startRecording, stopRecording and the  *)
(* backfills of listRecordings and getRecordingUrl, with the webhook that  *)
(* LiveKit calls.  A recording is an egress at LiveKit and a row here; the *)
(* two only learn of each other through calls that take time, fail or are  *)
(* lost in a crash, and through webhooks that come late, twice or out of   *)
(* order.                                                                  *)
(*                                                                         *)
(* A handler is a slot of requests; what it does between two awaits is one *)
(* action.  The queries that decide who may record, and whether the session*)
(* exists, come before anything read here and are left out.                *)
(***************************************************************************)
EXTENDS Naturals

CONSTANTS
  Sessions,   \* class sessions
  Egresses,   \* ids LiveKit gives to egresses
  Requests,   \* slots for running handlers: how many may overlap
  NoOne,      \* null
  Failures,   \* whether a call to LiveKit or the database may fail
  Crashes     \* whether the server may crash

ASSUME RecordingAssumption ==
  /\ NoOne \notin Sessions \cup Egresses
  /\ Failures \in BOOLEAN
  /\ Crashes \in BOOLEAN

VARIABLES
  egresses,      \* LiveKit: the session and the status of each egress
  events,        \* LiveKit: the <<egress, status>> webhooks it has to deliver
  recordings,    \* the status of each egress's Recording row, or "none"
  located,       \* rows with a fileLocation and an endedAt
  recordingId,   \* Session.metadata.recordingEgressId
  recordingUrl,  \* the egress whose file Session.recording_url names
  requests       \* running handlers

livekitVars == <<egresses, events>>
rowVars == <<recordings, located>>
sessionVars == <<recordingId, recordingUrl>>
vars == <<egresses, events, recordings, located, recordingId, recordingUrl, requests>>

Null(S) == S \cup {NoOne}

\* livekit.EgressStatus; ABORTED is counted as FAILED.
Ended == {"COMPLETE", "LIMIT_REACHED", "FAILED"}
Status == {"STARTING", "ACTIVE", "ENDING"} \cup Ended

\* An egress that ends with one of these leaves a file.
WithFile == {"COMPLETE", "LIMIT_REACHED"}

\* Where a handler is:
\*   checking    startRecording, looking for an active row
\*   launching   startRecording, in startRoomRecording
\*   creating    startRecording, creating the row
\*   naming      startRecording, writing the session's metadata
\*   stopping    stopRecording, in LiveKit's stopEgress
\*   ending      stopRecording, setting the row to ENDING
\*   fetching    stopRecording, in getEgressInfo
\*   syncing     stopRecording, writing what LiveKit said to the row
\*   linking     stopRecording, setting recording_url
\*   closing     stopRecording, writing the session's metadata back
\*   asking      a backfill, in getEgressInfo
\*   filling     a backfill, writing what LiveKit said to the row
\*   mirroring   a backfill or a webhook, setting recording_url
Steps == {"idle", "checking", "launching", "creating", "naming", "stopping", "ending",
          "fetching", "syncing", "linking", "closing", "asking", "filling", "mirroring"}

Idle == [at |-> "idle", session |-> NoOne, egress |-> NoOne, info |-> "UNKNOWN"]

Request == [at : Steps, session : Null(Sessions), egress : Null(Egresses),
            info : Status \cup {"UNKNOWN"}]

TypeOK ==
  /\ egresses \in [Egresses -> [session : Null(Sessions), status : Status \cup {"none"}]]
  /\ events \subseteq Egresses \X Status
  /\ recordings \in [Egresses -> Status \cup {"none", "UNKNOWN"}]
  /\ located \subseteq Egresses
  /\ recordingId \in [Sessions -> Null(Egresses)]
  /\ recordingUrl \in [Sessions -> Null(Egresses)]
  /\ requests \in [Requests -> Request]

Init ==
  /\ egresses = [e \in Egresses |-> [session |-> NoOne, status |-> "none"]]
  /\ events = {}
  /\ recordings = [e \in Egresses |-> "none"]
  /\ located = {}
  /\ recordingId = [s \in Sessions |-> NoOne]
  /\ recordingUrl = [s \in Sessions |-> NoOne]
  /\ requests = [r \in Requests |-> Idle]

Start(r, step, s, e) ==
  /\ requests[r] = Idle
  /\ requests' = [requests EXCEPT ![r] = [at |-> step, session |-> s, egress |-> e,
                                          info |-> "UNKNOWN"]]

At(r, step) == requests[r].at = step
\* What LiveKit said is used in one step only.
GoTo(r, step) == requests' = [requests EXCEPT ![r].at = step, ![r].info = "UNKNOWN"]
Finish(r) == requests' = [requests EXCEPT ![r] = Idle]

-----------------------------------------------------------------------------
(* LiveKit                                                                 *)

\* A status change, and the webhook that tells of it.
SetStatus(e, st) ==
  /\ egresses' = [egresses EXCEPT ![e] = [session |-> @.session, status |-> st]]
  /\ events' = events \cup {<<e, st>>}

\* What may follow a status, by itself or when everyone has left the room.
Successors(st) ==
  CASE st = "STARTING" -> {"ACTIVE", "FAILED"}
    [] st = "ACTIVE"   -> {"ENDING", "FAILED", "LIMIT_REACHED"}
    [] st = "ENDING"   -> {"COMPLETE", "FAILED"}
    [] OTHER           -> {}

EgressProgress(e) ==
  /\ \E st \in Successors(egresses[e].status) : SetStatus(e, st)
  /\ UNCHANGED <<rowVars, sessionVars, requests>>

-----------------------------------------------------------------------------
(* Mutated forms of handlers, each with the slip its name says.              *)

CheckActive_IgnoresEnding(r) ==
  /\ At(r, "checking")
  /\ ~\E e \in Egresses : /\ egresses[e].session = requests[r].session
                          /\ recordings[e] \in {"STARTING", "ACTIVE"}
  /\ GoTo(r, "launching")
  /\ UNCHANGED <<livekitVars, rowVars, sessionVars>>

FetchInfo_Unmapped(r) ==
  /\ requests[r].at \in {"fetching", "asking"}
  /\ \E info \in {egresses[requests[r].egress].status}
                   \cup (IF Failures THEN {NoOne} ELSE {}) :
       requests' = [requests EXCEPT
                      ![r].at = IF @ = "fetching" THEN "syncing" ELSE "filling",
                      ![r].info = info]
  /\ UNCHANGED <<livekitVars, rowVars, sessionVars>>

Webhook_AnyEnd(r, e, st) ==
  /\ <<e, st>> \in events
  /\ recordings' = [recordings EXCEPT ![e] = st]
  /\ located' = IF st \in WithFile THEN located \cup {e} ELSE located
  /\ IF st \in Ended
     THEN Start(r, "mirroring", egresses[e].session, e)
     ELSE UNCHANGED requests
  /\ UNCHANGED <<livekitVars, sessionVars>>

-----------------------------------------------------------------------------
(* startRecording                                                          *)

StartRecording(r, s) ==
  /\ Start(r, "checking", s, NoOne)
  /\ UNCHANGED <<livekitVars, rowVars, sessionVars>>

\* A row counts as active by its status alone.
ActiveRow(s) ==
  \E e \in Egresses : /\ egresses[e].session = s
                      /\ recordings[e] \in {"STARTING", "ACTIVE", "ENDING"}

CheckActive(r) ==
  /\ At(r, "checking")
  /\ ~ActiveRow(requests[r].session)
  /\ GoTo(r, "launching")
  /\ UNCHANGED <<livekitVars, rowVars, sessionVars>>

LaunchEgress(r) ==
  /\ At(r, "launching")
  /\ \E e \in Egresses :
       /\ egresses[e].status = "none"
       /\ egresses' = [egresses EXCEPT ![e] = [session |-> requests[r].session,
                                               status |-> "STARTING"]]
       /\ events' = events \cup {<<e, "STARTING">>}
       /\ requests' = [requests EXCEPT ![r].at = "creating", ![r].egress = e]
  /\ UNCHANGED <<rowVars, sessionVars>>

\* The row's egressId is unique: a webhook that was faster has made the row.
CreateRow(r) ==
  LET e == requests[r].egress
  IN /\ At(r, "creating")
     /\ recordings[e] = "none"
     /\ recordings' = [recordings EXCEPT ![e] = "STARTING"]
     /\ GoTo(r, "naming")
     /\ UNCHANGED <<livekitVars, located, sessionVars>>

NameRecording(r) ==
  /\ At(r, "naming")
  /\ recordingId' = [recordingId EXCEPT ![requests[r].session] = requests[r].egress]
  /\ Finish(r)
  /\ UNCHANGED <<livekitVars, rowVars, recordingUrl>>

\* start-recording-error: an active row, a duplicate one, or a failed call.
StartFail(r) ==
  /\ \/ Failures /\ requests[r].at \in {"checking", "launching", "creating", "naming"}
     \/ At(r, "checking") /\ ActiveRow(requests[r].session)
     \/ At(r, "creating") /\ recordings[requests[r].egress] # "none"
  /\ Finish(r)
  /\ UNCHANGED <<livekitVars, rowVars, sessionVars>>

-----------------------------------------------------------------------------
(* stopRecording                                                           *)

\* Which recording to stop is read from the session's metadata.
StopRecording(r, s) ==
  /\ recordingId[s] # NoOne
  /\ Start(r, "stopping", s, recordingId[s])
  /\ UNCHANGED <<livekitVars, rowVars, sessionVars>>

\* "cannot be stopped" counts as stopped.
StopEgress(r) ==
  LET e == requests[r].egress
  IN /\ At(r, "stopping")
     /\ IF egresses[e].status \in {"STARTING", "ACTIVE"}
        THEN SetStatus(e, "ENDING")
        ELSE UNCHANGED livekitVars
     /\ GoTo(r, "ending")
     /\ UNCHANGED <<rowVars, sessionVars>>

\* updateMany: the row is set to ENDING whatever it has come to be.
MarkEnding(r) ==
  LET e == requests[r].egress
  IN /\ At(r, "ending")
     /\ recordings' = [recordings EXCEPT ![e] = IF @ = "none" THEN @ ELSE "ENDING"]
     /\ GoTo(r, "fetching")
     /\ UNCHANGED <<livekitVars, located, sessionVars>>

\* getEgressInfo returns null for an error, and its null status maps to UNKNOWN.
FetchInfo(r) ==
  /\ requests[r].at \in {"fetching", "asking"}
  /\ \E info \in {egresses[requests[r].egress].status}
                   \cup (IF Failures THEN {"UNKNOWN"} ELSE {}) :
       requests' = [requests EXCEPT
                      ![r].at = IF @ = "fetching" THEN "syncing" ELSE "filling",
                      ![r].info = info]
  /\ UNCHANGED <<livekitVars, rowVars, sessionVars>>

\* The row takes what LiveKit said; a field it did not give keeps its value.
SyncRow(e, info) ==
  /\ recordings' = [recordings EXCEPT ![e] = IF @ = "none" THEN @ ELSE info]
  /\ located' = IF recordings[e] # "none" /\ info \in WithFile
                THEN located \cup {e} ELSE located

SyncStopped(r) ==
  /\ At(r, "syncing")
  /\ SyncRow(requests[r].egress, requests[r].info)
  /\ GoTo(r, IF requests[r].info = "COMPLETE" THEN "linking" ELSE "closing")
  /\ UNCHANGED <<livekitVars, sessionVars>>

LinkStopped(r) ==
  /\ At(r, "linking")
  /\ recordingUrl' = [recordingUrl EXCEPT ![requests[r].session] = requests[r].egress]
  /\ GoTo(r, "closing")
  /\ UNCHANGED <<livekitVars, rowVars, recordingId>>

\* A failed sync is only logged.
SyncFail(r) ==
  /\ Failures
  /\ requests[r].at \in {"syncing", "linking"}
  /\ GoTo(r, "closing")
  /\ UNCHANGED <<livekitVars, rowVars, sessionVars>>

\* The metadata is written back as it was read at the start, with a stop time.
CloseStopped(r) ==
  /\ At(r, "closing")
  /\ recordingId' = [recordingId EXCEPT ![requests[r].session] = requests[r].egress]
  /\ Finish(r)
  /\ UNCHANGED <<livekitVars, rowVars, recordingUrl>>

StopFail(r) ==
  /\ Failures
  /\ requests[r].at \in {"stopping", "ending", "closing"}
  /\ Finish(r)
  /\ UNCHANGED <<livekitVars, rowVars, sessionVars>>

-----------------------------------------------------------------------------
(* listRecordings, getRecordingUrl and the webhook                         *)

\* A row without a file or an end is brought up to date when it is looked at.
Backfill(r, e) ==
  /\ recordings[e] # "none"
  /\ e \notin located
  /\ Start(r, "asking", egresses[e].session, e)
  /\ UNCHANGED <<livekitVars, rowVars, sessionVars>>

FillRow(r) ==
  /\ At(r, "filling")
  /\ SyncRow(requests[r].egress, requests[r].info)
  /\ IF requests[r].info = "COMPLETE" THEN GoTo(r, "mirroring") ELSE Finish(r)
  /\ UNCHANGED <<livekitVars, sessionVars>>

MirrorUrl(r) ==
  /\ At(r, "mirroring")
  /\ recordingUrl' = [recordingUrl EXCEPT ![requests[r].session] = requests[r].egress]
  /\ Finish(r)
  /\ UNCHANGED <<livekitVars, rowVars, recordingId>>

\* A call fails; or listRecordings had found a recording_url already.
BackfillEnd(r) ==
  /\ \/ Failures /\ requests[r].at \in {"filling", "mirroring"}
     \/ At(r, "mirroring") /\ recordingUrl[requests[r].session] # NoOne
  /\ Finish(r)
  /\ UNCHANGED <<livekitVars, rowVars, sessionVars>>

\* handleWebhook, for any event LiveKit has raised, however late or repeated:
\* the row is made or overwritten.
Webhook(r, e, st) ==
  /\ <<e, st>> \in events
  /\ recordings' = [recordings EXCEPT ![e] = st]
  /\ located' = IF st \in WithFile THEN located \cup {e} ELSE located
  /\ IF st = "COMPLETE"
     THEN Start(r, "mirroring", egresses[e].session, e)
     ELSE UNCHANGED requests
  /\ UNCHANGED <<livekitVars, sessionVars>>

\* The handlers are lost; the database and LiveKit go on.
Crash ==
  /\ Crashes
  /\ requests' = [r \in Requests |-> Idle]
  /\ UNCHANGED <<livekitVars, rowVars, sessionVars>>

-----------------------------------------------------------------------------
Resume(r) ==
  \/ CheckActive(r) \/ LaunchEgress(r) \/ CreateRow(r) \/ NameRecording(r) \/ StartFail(r)
  \/ StopEgress(r) \/ MarkEnding(r) \/ FetchInfo(r) \/ SyncStopped(r) \/ LinkStopped(r)
  \/ SyncFail(r) \/ CloseStopped(r) \/ StopFail(r)
  \/ FillRow(r) \/ MirrorUrl(r) \/ BackfillEnd(r)

Receive(r) ==
  \/ \E s \in Sessions : StartRecording(r, s) \/ StopRecording(r, s)
  \/ \E e \in Egresses : Backfill(r, e) \/ \E st \in Status : Webhook(r, e, st)

Next ==
  \/ \E r \in Requests : Resume(r) \/ Receive(r)
  \/ \E e \in Egresses : EgressProgress(e)
  \/ Crash

Spec == Init /\ [][Next]_vars

-----------------------------------------------------------------------------
(* Safety                                                                  *)

Order == [none |-> 0, UNKNOWN |-> 0, STARTING |-> 1, ACTIVE |-> 2, ENDING |-> 3,
          COMPLETE |-> 4, LIMIT_REACHED |-> 4, FAILED |-> 4]

\* The row of a recording may be late, but it is never ahead of the egress: it
\* names no status LiveKit has not reached, and no other end than the real one.
\* So a recording that still runs is never shown, or counted, as over.
NeverAhead ==
  \A e \in Egresses :
    /\ Order[recordings[e]] <= Order[egresses[e].status]
    /\ recordings[e] \in Ended => recordings[e] = egresses[e].status

\* Session.recording_url, and a row with a file and an end, are of an egress of
\* that session that has really left a file.
FileIsThere ==
  /\ \A s \in Sessions : recordingUrl[s] # NoOne =>
       egresses[recordingUrl[s]] = [session |-> s, status |-> "COMPLETE"]
  /\ \A e \in located : recordings[e] # "none" /\ egresses[e].status \in WithFile

\* The egress that stop-recording would stop is one of the session, with a row
\* for the stop to update.
NamedHasRow ==
  \A s \in Sessions : recordingId[s] # NoOne =>
    /\ egresses[recordingId[s]].session = s
    /\ recordings[recordingId[s]] # "none"

\* startRecording's check lets a handler through while another egress of the
\* session is not over only if that one's row is not written yet, or was
\* overwritten with UNKNOWN by a failed query; late, repeated and reordered
\* webhooks, stops and backfills never hide it.
CheckSeesUnfinished ==
  [][\A r \in Requests, e \in Egresses :
       /\ At(r, "checking") /\ requests'[r].at = "launching"
       /\ egresses[e].session = requests[r].session
       /\ egresses[e].status \notin Ended
       => recordings[e] = "none" \/ (Failures /\ recordings[e] = "UNKNOWN")
    ]_vars

\* All that rows and sessions come to say of recordings is what an archive would
\* that trails after LiveKit: whatever handlers, webhooks and crashes overlap, no
\* row is lost, nothing that is filed is taken back, and a row or a session's
\* pointer is only ever written with what is true of the egress, if late.
Books == INSTANCE Archive WITH entries <- recordings, filed <- located,
                               current <- recordingId, shown <- recordingUrl
TrailsLiveKit == Books!Spec
=============================================================================

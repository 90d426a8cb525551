-------------------------------- MODULE Boards --------------------------------
(***************************************************************************)
(* What the participants of one meeting see of what they share: the        *)
(* Excalidraw whiteboard, the teacher's canvas, and the chat.              *)
(*                                                                         *)
(* The whiteboard lives in the gateway's memory: whoever draws sends all   *)
(* elements, the last sender wins, and the others are sent the same.  The  *)
(* canvas has a holder, who alone draws; strokes go to everybody and to no *)
(* store, and the database gets what the holder's client sends when it     *)
(* closes the canvas.  A chat message is saved, then sent.                 *)
(*                                                                         *)
(* Each client has a socket with the gateway, which keeps the order in     *)
(* both directions.  What a handler does between two awaits is one action; *)
(* a handler that awaits is a slot of requests.  Who may enter, and the    *)
(* canvas and the shared screen in each other's way, are in MeetGateway;   *)
(* every event is sent over LiveKit too, which clients are free to ignore. *)
(***************************************************************************)
EXTENDS Naturals, Sequences

CONSTANTS
  Users,      \* participants, all of whom may hold the canvas
  Edits,      \* the elements drawn on the whiteboard
  Strokes,    \* the operations drawn on the canvas
  Msgs,       \* chat messages
  Requests,   \* slots for handlers that await: how many may overlap
  NoOne,      \* null
  Failures    \* whether a query may fail, or the server restart

ASSUME BoardsAssumption ==
  /\ NoOne \notin Users
  /\ Failures \in BOOLEAN

VARIABLES
  inside,     \* who is in the room and on the roster
  down,       \* events on their way to each client
  up,         \* whiteboard messages on their way from each client
  board,      \* the elements in whiteboardStates
  elements,   \* the elements each client shows
  crossed,    \* whose client shows something else than board
  holder,     \* activeCanvasSessions
  saved,      \* the operations in Session.whiteboard_data
  canvas,     \* the operations each client shows
  behind,     \* whose client may come not to show what is saved; a ghost
  following,  \* who has been sent all canvas events since the last that made the
              \* clients show the same; a ghost
  stored,     \* the chat messages in the database
  chat,       \* the chat messages each client shows
  unread,     \* for whom the chat history could not be read; a ghost
  requests    \* running handlers

whiteboardVars == <<up, board, elements, crossed>>
canvasVars == <<holder, saved, canvas, behind, following>>
chatVars == <<stored, chat, unread>>
vars == <<inside, down, whiteboardVars, canvasVars, chatVars, requests>>

Null(S) == S \cup {NoOne}

Kinds == {"update", "state", "opened", "canvas", "draw", "cleared", "closed", "chat", "history"}

Event == [kind : Kinds, items : SUBSET (Edits \cup Strokes \cup Msgs)]

\* A whiteboard-update with all elements, or get-whiteboard-state.  blind: there was,
\* or has been since, an update the client had not seen; a ghost, as is crossed.
Upward == [kind : {"update", "get"}, items : SUBSET Edits, blind : BOOLEAN]

\* Where a handler is:
\*   opening    open-canvas, at getCanvasState; showing: sending what it read
\*   closing    close-canvas, at saveCanvasState; freeing: clearing the holder
\*   clearing   clear-canvas, at saveCanvasState; wiping: sending
\*   fetching   get-canvas-state, at getCanvasState; answering: sending
\*   saving     chat-message, at saveMeetingMessage; posting: sending
\*   recalling  join-room, in the room, at getMeetingMessages; reciting: sending
Steps == {"idle", "opening", "showing", "closing", "freeing", "clearing", "wiping",
          "fetching", "answering", "saving", "posting", "recalling", "reciting"}

Idle == [at |-> "idle", user |-> NoOne, items |-> {}, stale |-> FALSE]

\* items: what was read, what is to be saved, or the chat message.  stale: what was
\* saved has changed since the items were read, or the client that sent them did
\* not show it; the code has no such thing.
Request == [at : Steps, user : Null(Users), items : SUBSET (Strokes \cup Msgs),
            stale : BOOLEAN]

TypeOK ==
  /\ inside \in SUBSET Users
  /\ down \in [Users -> Seq(Event)]
  /\ up \in [Users -> Seq(Upward)]
  /\ board \in SUBSET Edits
  /\ elements \in [Users -> SUBSET Edits]
  /\ crossed \in SUBSET Users
  /\ holder \in Null(Users)
  /\ saved \in SUBSET Strokes
  /\ canvas \in [Users -> SUBSET Strokes]
  /\ behind \in SUBSET Users
  /\ following \in SUBSET Users
  /\ stored \in SUBSET Msgs
  /\ chat \in [Users -> SUBSET Msgs]
  /\ unread \in SUBSET Users
  /\ requests \in [Requests -> Request]

Init ==
  /\ inside = {}
  /\ down = [u \in Users |-> <<>>]
  /\ up = [u \in Users |-> <<>>]
  /\ board = {}
  /\ elements = [u \in Users |-> {}]
  /\ crossed = {}
  /\ holder = NoOne
  /\ saved = {}
  /\ canvas = [u \in Users |-> {}]
  /\ behind = {}
  /\ following = {}
  /\ stored = {}
  /\ chat = [u \in Users |-> {}]
  /\ unread = {}
  /\ requests = [r \in Requests |-> Idle]

-----------------------------------------------------------------------------
(* Sending, and handlers                                                   *)

At(r, step) == requests[r].at = step

Start(r, request) ==
  /\ requests[r] = Idle
  /\ requests' = [requests EXCEPT ![r] = request]

GoTo(r, step) == requests' = [requests EXCEPT ![r].at = step]
Finish(r) == requests' = [requests EXCEPT ![r] = Idle]

Message(kind, items) == [kind |-> kind, items |-> items]

\* server.to(sessionId).emit, or a part of the room; who is outside hears nothing.
Emit(U, kind, items) ==
  down' = [u \in Users |->
    IF u \in U \cap inside THEN Append(down[u], Message(kind, items)) ELSE down[u]]

OnTheWay(u, kinds) == \E i \in DOMAIN down[u] : down[u][i].kind \in kinds

OfWhiteboard == {"update", "state"}
Anew == {"opened", "canvas", "cleared", "closed"}
OfCanvas == Anew \cup {"draw"}
OfChat == {"chat", "history"}

\* What a client shows after an event: the events of kinds add to it, those of anew
\* make it forget the rest.
Shows(shown, event, kinds, anew) ==
  (IF event.kind \in anew THEN {} ELSE shown)
    \cup (IF event.kind \in kinds THEN event.items ELSE {})

\* ... and after all that is in its queue: what is added by some event, or shown by
\* now, and forgotten with none that follows.
Ahead(queue, shown, kinds, anew) ==
  {x \in Edits \cup Strokes :
     \/ x \in shown /\ \A i \in DOMAIN queue : queue[i].kind \notin anew
     \/ \E i \in DOMAIN queue :
          /\ queue[i].kind \in kinds /\ x \in queue[i].items
          /\ \A j \in DOMAIN queue : j > i => queue[j].kind \notin anew}

BoardAhead(u) == Ahead(down[u], elements[u], OfWhiteboard, OfWhiteboard)
CanvasAhead(u) == Ahead(down[u], canvas[u], OfCanvas, Anew)

-----------------------------------------------------------------------------
(* Mutated forms of operations, each with the slip its name says.           *)

HandleDraw_Others(u, s) ==
  /\ u \in inside /\ holder = u
  /\ s \notin saved /\ \A v \in Users : s \notin CanvasAhead(v)
  /\ Emit(Users \ {u}, "draw", {s})
  /\ UNCHANGED <<inside, whiteboardVars, canvasVars, chatVars, requests>>

PostMessage_Others(r) ==
  /\ At(r, "posting")
  /\ Emit(Users \ {requests[r].user}, "chat", requests[r].items)
  /\ Finish(r)
  /\ UNCHANGED <<inside, whiteboardVars, canvasVars, chatVars>>

ShowCanvas_Holder(r) ==
  /\ At(r, "showing")
  /\ Emit({holder}, "opened", requests[r].items)
  /\ following' = inside
  /\ behind' = IF requests[r].stale THEN inside ELSE {}
  /\ Finish(r)
  /\ UNCHANGED <<inside, whiteboardVars, holder, saved, canvas, chatVars>>

HandleOpenCanvas_Handler(r, u) ==
  /\ u \in inside /\ holder \in {NoOne, u}
  /\ holder' = r
  /\ Start(r, [Idle EXCEPT !.at = "opening"])
  /\ UNCHANGED <<inside, down, whiteboardVars, saved, canvas, behind, following, chatVars>>

\* The updates of the others that are on their way were made without this one.
Blinded(u) ==
  [v \in Users |-> IF v = u THEN Tail(up[u])
                   ELSE [i \in DOMAIN up[v] |-> [up[v][i] EXCEPT !.blind = TRUE]]]

HandleWhiteboardUpdate_Merge(u) ==
  /\ up[u] # <<>> /\ Head(up[u]).kind = "update"
  /\ board' = board \cup Head(up[u]).items
  /\ Emit(Users \ {u}, "update", Head(up[u]).items)
  /\ up' = Blinded(u)
  /\ crossed' = IF Head(up[u]).blind THEN {u} ELSE {}
  /\ UNCHANGED <<inside, elements, canvasVars, chatVars, requests>>

HandleWhiteboardUpdate_Back(u) ==
  /\ up[u] # <<>> /\ Head(up[u]).kind = "update"
  /\ board' = Head(up[u]).items
  /\ Emit({u}, "update", Head(up[u]).items)
  /\ up' = Blinded(u)
  /\ crossed' = IF Head(up[u]).blind THEN {u} ELSE {}
  /\ UNCHANGED <<inside, elements, canvasVars, chatVars, requests>>

-----------------------------------------------------------------------------
(* The whiteboard                                                          *)

\* A client adds an element and sends all it shows.
DrawElement(u, e) ==
  /\ u \in inside
  /\ e \notin board
  /\ \A v \in Users :
       e \notin BoardAhead(v) /\ \A i \in DOMAIN up[v] : e \notin up[v][i].items
  /\ elements' = [elements EXCEPT ![u] = @ \cup {e}]
  /\ up' = [up EXCEPT ![u] = Append(@,
       [kind |-> "update", items |-> elements[u] \cup {e},
        blind |-> \/ u \in crossed \/ OnTheWay(u, OfWhiteboard)
                  \/ \E i \in DOMAIN up[u] : up[u][i].kind = "get" \/ up[u][i].blind])]
  /\ UNCHANGED <<inside, down, board, crossed, canvasVars, chatVars, requests>>

\* whiteboard-update: stored as it is, and sent to all but the sender.
HandleWhiteboardUpdate(u) ==
  /\ up[u] # <<>> /\ Head(up[u]).kind = "update"
  /\ board' = Head(up[u]).items
  /\ Emit(Users \ {u}, "update", Head(up[u]).items)
  /\ up' = Blinded(u)
  /\ crossed' = IF Head(up[u]).blind THEN {u} ELSE {}
  /\ UNCHANGED <<inside, elements, canvasVars, chatVars, requests>>

\* A client that has joined asks for the elements; so may any client.
AskForWhiteboard(u) ==
  /\ u \in inside
  /\ up' = [up EXCEPT ![u] = Append(@, [kind |-> "get", items |-> {}, blind |-> FALSE])]
  /\ UNCHANGED <<inside, down, board, elements, crossed, canvasVars, chatVars, requests>>

\* get-whiteboard-state: no answer while there is no state.
HandleGetWhiteboardState(u) ==
  /\ up[u] # <<>> /\ Head(up[u]).kind = "get"
  /\ IF board = {} THEN UNCHANGED down ELSE Emit({u}, "state", board)
  /\ up' = [up EXCEPT ![u] = Tail(@)]
  /\ crossed' = crossed \ {u}
  /\ UNCHANGED <<inside, board, elements, canvasVars, chatVars, requests>>

-----------------------------------------------------------------------------
(* The canvas                                                              *)

\* Another handler's items, read before saved was written or sent by a client that
\* knew nothing of it, are stale.
SaveCanvas(r, step, items) ==
  /\ saved' = items
  /\ requests' = [q \in Requests |->
       CASE q = r -> [requests[r] EXCEPT !.at = step, !.items = {}, !.stale = FALSE]
         [] q # r /\ requests[q].at \in {"showing", "closing", "answering"}
              -> [requests[q] EXCEPT !.stale = TRUE]
         [] OTHER -> requests[q]]

\* openCanvas, once the teacher is known to be one and the screen is free: the
\* canvas is taken before its state is read.
HandleOpenCanvas(r, u) ==
  /\ u \in inside
  /\ holder \in {NoOne, u}
  /\ holder' = u
  /\ Start(r, [Idle EXCEPT !.at = "opening"])
  /\ UNCHANGED <<inside, down, whiteboardVars, saved, canvas, behind, following, chatVars>>

\* getCanvasState, for one who opens the canvas or for a late joiner.
GetCanvasState(r) ==
  /\ requests[r].at \in {"opening", "fetching"}
  /\ requests' = [requests EXCEPT
       ![r].at = IF At(r, "opening") THEN "showing" ELSE "answering", ![r].items = saved]
  /\ UNCHANGED <<inside, down, whiteboardVars, canvasVars, chatVars>>

ShowCanvas(r) ==
  /\ At(r, "showing")
  /\ Emit(Users, "opened", requests[r].items)
  /\ following' = inside
  /\ behind' = IF requests[r].stale THEN inside ELSE {}
  /\ Finish(r)
  /\ UNCHANGED <<inside, whiteboardVars, holder, saved, canvas, chatVars>>

\* canvas-draw: to everybody, the sender included, and to no store.
HandleDraw(u, s) ==
  /\ u \in inside /\ holder = u
  /\ s \notin saved /\ \A v \in Users : s \notin CanvasAhead(v)
  /\ Emit(Users, "draw", {s})
  /\ UNCHANGED <<inside, whiteboardVars, canvasVars, chatVars, requests>>

\* canvas-closed: whoever has the canvas by then is not asked.
FreeCanvas ==
  /\ holder' = NoOne
  /\ Emit(Users, "closed", {})
  /\ following' = inside
  /\ behind' = inside

\* close-canvas, with what the client shows.
HandleCloseCanvas(r, u) ==
  /\ u \in inside /\ holder = u
  /\ Start(r, [Idle EXCEPT !.at = "closing", !.items = canvas[u],
                              !.stale = u \in behind \/ OnTheWay(u, OfCanvas)])
  /\ UNCHANGED <<inside, down, whiteboardVars, canvasVars, chatVars>>

SaveClosing(r) ==
  /\ At(r, "closing")
  /\ SaveCanvas(r, "freeing", requests[r].items)
  /\ behind' = inside
  /\ UNCHANGED <<inside, down, whiteboardVars, holder, canvas, following, chatVars>>

CloseCanvas(r) ==
  /\ At(r, "freeing")
  /\ FreeCanvas
  /\ Finish(r)
  /\ UNCHANGED <<inside, whiteboardVars, saved, canvas, chatVars>>

\* close-canvas without a state awaits nothing; nor does closeCanvasForScreenShare,
\* for whoever starts to share the screen.
DropCanvas(u) ==
  /\ u \in inside /\ holder # NoOne
  /\ FreeCanvas
  /\ UNCHANGED <<inside, whiteboardVars, saved, canvas, chatVars, requests>>

HandleClearCanvas(r, u) ==
  /\ u \in inside /\ holder = u
  /\ Start(r, [Idle EXCEPT !.at = "clearing"])
  /\ UNCHANGED <<inside, down, whiteboardVars, canvasVars, chatVars>>

SaveClearing(r) ==
  /\ At(r, "clearing")
  /\ SaveCanvas(r, "wiping", {})
  /\ behind' = {}
  /\ UNCHANGED <<inside, down, whiteboardVars, holder, canvas, following, chatVars>>

ClearCanvas(r) ==
  /\ At(r, "wiping")
  /\ Emit(Users, "cleared", {})
  /\ following' = inside
  /\ behind' = IF saved = {} THEN {} ELSE inside
  /\ Finish(r)
  /\ UNCHANGED <<inside, whiteboardVars, holder, saved, canvas, chatVars>>

\* get-canvas-state: nothing, or what is saved.
HandleGetCanvasState(r, u) ==
  /\ u \in inside
  /\ IF holder = NoOne
     THEN /\ Emit({u}, "canvas", {})
          /\ behind' = IF saved = {} THEN behind ELSE behind \cup {u}
          /\ following' = following \ {u}
          /\ UNCHANGED requests
     ELSE /\ Start(r, [Idle EXCEPT !.at = "fetching", !.user = u])
          /\ UNCHANGED <<down, behind, following>>
  /\ UNCHANGED <<inside, whiteboardVars, holder, saved, canvas, chatVars>>

AnswerCanvasState(r) ==
  LET u == requests[r].user
  IN /\ At(r, "answering")
     /\ Emit({u}, "canvas", requests[r].items)
     /\ behind' = IF requests[r].stale THEN behind \cup ({u} \cap inside) ELSE behind \ {u}
     /\ following' = following \ {u}
     /\ Finish(r)
     /\ UNCHANGED <<inside, whiteboardVars, holder, saved, canvas, chatVars>>

-----------------------------------------------------------------------------
(* The chat                                                                *)

HandleChatMessage(r, u, m) ==
  /\ u \in inside
  /\ m \notin stored
  /\ \A v \in Users : m \notin chat[v] /\ \A i \in DOMAIN down[v] : m \notin down[v][i].items
  /\ \A q \in Requests : m \notin requests[q].items
  /\ Start(r, [Idle EXCEPT !.at = "saving", !.user = u, !.items = {m}])
  /\ UNCHANGED <<inside, down, whiteboardVars, canvasVars, chatVars>>

\* saveMeetingMessage swallows its failure: the message is sent all the same.
SaveMeetingMessage(r) ==
  /\ At(r, "saving")
  /\ \/ stored' = stored \cup requests[r].items
     \/ Failures /\ UNCHANGED stored
  /\ GoTo(r, "posting")
  /\ UNCHANGED <<inside, down, whiteboardVars, canvasVars, chat, unread>>

PostMessage(r) ==
  /\ At(r, "posting")
  /\ Emit(Users, "chat", requests[r].items)
  /\ Finish(r)
  /\ UNCHANGED <<inside, whiteboardVars, canvasVars, chatVars>>

\* getMeetingMessages, for who joins or for get-message-history.
HandleGetMessageHistory(r, u) ==
  /\ u \in inside
  /\ Start(r, [Idle EXCEPT !.at = "recalling", !.user = u])
  /\ UNCHANGED <<inside, down, whiteboardVars, canvasVars, chatVars>>

GetMeetingMessages(r) ==
  /\ At(r, "recalling")
  /\ requests' = [requests EXCEPT ![r].at = "reciting", ![r].items = stored]
  /\ UNCHANGED <<inside, down, whiteboardVars, canvasVars, chatVars>>

SendHistory(r) ==
  /\ At(r, "reciting")
  /\ Emit({requests[r].user}, "history", requests[r].items)
  /\ Finish(r)
  /\ UNCHANGED <<inside, whiteboardVars, canvasVars, chatVars>>

-----------------------------------------------------------------------------
(* Coming and going                                                        *)

Fresh(f, u) == [f EXCEPT ![u] = {}]

\* The gateway sends the chat; for the whiteboard and the canvas the client must ask.
JoinRoom(r, u) ==
  /\ u \notin inside
  /\ inside' = inside \cup {u}
  /\ crossed' = IF board = {} THEN crossed ELSE crossed \cup {u}
  /\ behind' = IF saved = {} THEN behind ELSE behind \cup {u}
  /\ Start(r, [Idle EXCEPT !.at = "recalling", !.user = u])
  /\ UNCHANGED <<down, up, board, elements, holder, saved, canvas, following, chatVars>>

\* What the client showed goes with it.
Gone(u) ==
  /\ inside' = inside \ {u}
  /\ down' = [down EXCEPT ![u] = <<>>]
  /\ up' = [up EXCEPT ![u] = <<>>]
  /\ elements' = Fresh(elements, u)
  /\ canvas' = Fresh(canvas, u)
  /\ chat' = Fresh(chat, u)
  /\ crossed' = crossed \ {u}
  /\ following' = following \ {u}
  /\ behind' = behind \ {u}
  /\ unread' = unread \ {u}

\* leave-room keeps the canvas; a disconnect frees it and tells nobody.
LeaveRoom(u) ==
  /\ u \in inside
  /\ Gone(u)
  /\ UNCHANGED <<board, holder, saved, stored, requests>>

Disconnect(u) ==
  /\ u \in inside
  /\ Gone(u)
  /\ holder' = IF holder = u THEN NoOne ELSE holder
  /\ UNCHANGED <<board, saved, stored, requests>>

\* The database stays.
Restart ==
  /\ Failures
  /\ inside # {}
  /\ inside' = {}
  /\ down' = [u \in Users |-> <<>>]
  /\ up' = [u \in Users |-> <<>>]
  /\ elements' = [u \in Users |-> {}]
  /\ canvas' = [u \in Users |-> {}]
  /\ chat' = [u \in Users |-> {}]
  /\ requests' = [r \in Requests |-> Idle]
  /\ board' = {} /\ crossed' = {} /\ following' = {} /\ behind' = {}
  /\ holder' = NoOne /\ unread' = {}
  /\ UNCHANGED <<saved, stored>>

\* A query of a handler fails; saveMeetingMessage has its own way of failing.
Fail(r) ==
  /\ Failures
  /\ requests[r].at \in {"opening", "closing", "clearing", "fetching", "recalling"}
  /\ unread' = IF At(r, "recalling") THEN unread \cup ({requests[r].user} \cap inside)
                                      ELSE unread
  /\ Finish(r)
  /\ UNCHANGED <<inside, down, whiteboardVars, canvasVars, stored, chat>>

\* A client gets the next event.
Deliver(u) ==
  /\ down[u] # <<>>
  /\ LET event == Head(down[u]) IN
       /\ down' = [down EXCEPT ![u] = Tail(@)]
       /\ elements' = [elements EXCEPT ![u] = Shows(@, event, OfWhiteboard, OfWhiteboard)]
       /\ canvas' = [canvas EXCEPT ![u] = Shows(@, event, OfCanvas, Anew)]
       /\ chat' = [chat EXCEPT ![u] = Shows(@, event, OfChat, {})]
  /\ UNCHANGED <<inside, up, board, crossed, holder, saved, behind, following, stored,
                 unread, requests>>

-----------------------------------------------------------------------------
Resume(r) ==
  \/ GetCanvasState(r) \/ ShowCanvas(r) \/ AnswerCanvasState(r)
  \/ SaveClosing(r) \/ CloseCanvas(r) \/ SaveClearing(r) \/ ClearCanvas(r)
  \/ SaveMeetingMessage(r) \/ PostMessage(r) \/ GetMeetingMessages(r) \/ SendHistory(r)
  \/ Fail(r)

Receive(r, u) ==
  \/ JoinRoom(r, u)
  \/ HandleOpenCanvas(r, u) \/ HandleCloseCanvas(r, u) \/ HandleClearCanvas(r, u)
  \/ HandleGetCanvasState(r, u) \/ HandleGetMessageHistory(r, u)
  \/ \E m \in Msgs : HandleChatMessage(r, u, m)

Next ==
  \/ \E r \in Requests : Resume(r)
  \/ \E r \in Requests, u \in Users : Receive(r, u)
  \/ \E u \in Users :
       \/ AskForWhiteboard(u) \/ HandleWhiteboardUpdate(u) \/ HandleGetWhiteboardState(u)
       \/ DropCanvas(u) \/ LeaveRoom(u) \/ Disconnect(u) \/ Deliver(u)
       \/ \E e \in Edits : DrawElement(u, e)
       \/ \E s \in Strokes : HandleDraw(u, s)
  \/ Restart

Spec == Init /\ [][Next]_vars

-----------------------------------------------------------------------------
(* Safety                                                                  *)

\* The sender of an update is not sent its own: whoever draws while another's update
\* is on its way shows that one, and the others the newer.  All others come to show
\* what is stored.
InStep ==
  \A u \in inside \ crossed : up[u] = <<>> => BoardAhead(u) = board

\* The last sender wins, and wipes out an element only when its update was made
\* without having seen all others; or with a restart, that forgets everything.
ElementLostNeedsCrossing ==
  [][\A e \in board :
       e \notin board' =>
         \/ inside' = {}
         \/ \E u \in Users : /\ up[u] # <<>> /\ up'[u] = Tail(up[u])
                             /\ Head(up[u]).kind = "update" /\ Head(up[u]).blind
    ]_vars

\* Whoever was there when the canvas was last opened, wiped or closed, and has not
\* asked for its state since, comes to show the same.
FollowersAgree ==
  \A u, v \in following : CanvasAhead(u) = CanvasAhead(v)

\* A saved operation is given up by clear-canvas only, or by a close-canvas whose
\* client did not show all that was saved.
SavedDrawingKept ==
  [][\A s \in saved :
       s \notin saved' =>
         \E r \in Requests :
           /\ requests'[r].at # requests[r].at
           /\ At(r, "clearing") \/ (At(r, "closing") /\ requests[r].stale)
    ]_vars

\* A message in the database that a participant does not show is being sent, or read
\* for it, unless the read has failed.
Recalled(u, m) ==
  \E r \in Requests :
    /\ requests[r].user = u
    /\ At(r, "recalling") \/ (At(r, "reciting") /\ m \in requests[r].items)

ChatNotMissed ==
  \A u \in inside \ unread : \A m \in stored \ chat[u] :
    \/ \E i \in DOMAIN down[u] : m \in down[u][i].items
    \/ Recalled(u, m)
    \/ \E r \in Requests : At(r, "posting") /\ m \in requests[r].items
=============================================================================

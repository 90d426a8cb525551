---------------------------- MODULE Conversations ----------------------------
(***************************************************************************)
(* ConversationService and ConversationGateway: who sits in a conversation,*)
(* who may write in it, and what the clients that have it open get to see. *)
(*                                                                         *)
(* Every handler checks in some queries and writes in a later one, with no *)
(* transaction; after the write it pushes an event to sockets, which it    *)
(* does not wait for: the service goes on while the push still reads who   *)
(* is to get it.  A handler, with its push, is a slot of requests.         *)
(***************************************************************************)
EXTENDS Naturals

CONSTANTS
  Users,
  Creator,    \* who created the class
  Pupils,     \* users who join and leave the class
  Watchers,   \* users who open conversations in a client
  Ids,        \* ids of Conversation rows: how many there may be
  Msgs,       \* ids of Message rows
  Requests,   \* slots for running handlers: how many may overlap
  NoOne,      \* null
  Calls,      \* what createConversation is asked for
  Failures    \* whether a query may fail after a handler has written

\* owner: dto.ownerId, or the user.
Call == [user : Users, others : SUBSET Users, group : BOOLEAN, class : BOOLEAN, owner : Users]

Conversation == [group : BOOLEAN, class : BOOLEAN, owners : SUBSET Users,
                 live : BOOLEAN, renamed : BOOLEAN]

ASSUME ConversationAssumption ==
  /\ Creator \in Users
  /\ Pupils \subseteq Users
  /\ Watchers \subseteq Users
  /\ Calls \subseteq Call
  /\ NoOne \notin Users \cup Ids \cup Msgs \cup Conversation \cup Call
  /\ \A M \in SUBSET Msgs : NoOne # M
  /\ Failures \in BOOLEAN

VARIABLES
  conversations,  \* the Conversation rows, by id
  seats,          \* who has a ConversationParticipant row in each
  messages,       \* the conversation of each Message row
  members,        \* students of the class (ClassMember rows that are active)
  rooms,          \* whose socket is in the socket.io room of a conversation
  views,          \* the messages a client shows of a conversation it has open
  requests,       \* running handlers
  lost            \* conversations some handler failed on when it had written;
                  \* the code has no such thing, the properties do

vars == <<conversations, seats, messages, members, rooms, views, requests, lost>>

Null(S) == S \cup {NoOne}

\* Where a handler is, and what it does next:
\*   admitting  createConversation, at checkClassAccess; searching: at the query for
\*              the class's conversation; creating: inserting the row; listing: at
\*              getClassConversationParticipants; seating: inserting the participants
\*   checking   sendMessage, at the query for the conversation; storing: inserting
\*              the message; pushing: emitNewMessage, at its query; emitting: sending
\*   adding     addParticipant, inserting the row
\*   looking    removeParticipant, at the query for the row; removing: deleting it;
\*              counting: at the query for who is left; closing: marking the
\*              conversation deleted; telling: emitParticipantRemoved
\*   disposing  deleteConversation, at the query for the requester's row; deleting:
\*              marking it; announcing: emitConversationDeleted
\*   revising   updateConversation, at the query for the requester's row; renaming
\*   reading    getConversationById, at the query for the messages; showing: at
\*              checkClassAccess
\*   paging     getConversationMessages, at the query for the messages; loading: done
\*   entering   join-conversation, at checkClassAccess; joining: joining the room
Steps == {"idle", "admitting", "searching", "creating", "listing", "seating",
          "checking", "storing", "pushing", "emitting", "adding",
          "looking", "removing", "counting", "closing", "telling",
          "disposing", "deleting", "announcing", "revising", "renaming",
          "reading", "showing", "paging", "loading", "entering", "joining"}

\* The steps at which a handler that has checked something is about to write.
Checked == {"admitting", "searching", "creating", "listing", "seating", "checking",
            "storing", "adding", "looking", "removing", "closing", "disposing",
            "deleting", "revising", "renaming", "entering", "joining"}

\* The steps at which a handler that has written has not done all of its work.
Halfway == {"listing", "seating", "pushing", "emitting", "counting", "closing",
            "telling", "announcing"}

Idle == [at |-> "idle", user |-> NoOne, id |-> NoOne, target |-> NoOne, call |-> NoOne,
         users |-> {}, msgs |-> {}, overtaken |-> FALSE]

\* target: who is added or removed.  users: who is to be seated, or sent to.  msgs:
\* the message to push, or those that were read.  overtaken: a row that the handler
\* looks at was written by another one since it began; the code has no such thing.
Request == [at : Steps, user : Null(Users), id : Null(Ids), target : Null(Users),
            call : Null(Calls), users : SUBSET Users, msgs : SUBSET Msgs,
            overtaken : BOOLEAN]

TypeOK ==
  /\ conversations \in [Ids -> Null(Conversation)]
  /\ seats \in [Ids -> SUBSET Users]
  /\ messages \in [Msgs -> Null(Ids)]
  /\ members \in SUBSET Users
  /\ rooms \in [Ids -> SUBSET Users]
  /\ views \in [Users -> [Ids -> Null(SUBSET Msgs)]]
  /\ requests \in [Requests -> Request]
  /\ lost \in SUBSET Ids

Init ==
  /\ conversations = [c \in Ids |-> NoOne]
  /\ seats = [c \in Ids |-> {}]
  /\ messages = [m \in Msgs |-> NoOne]
  /\ members = {}
  /\ rooms = [c \in Ids |-> {}]
  /\ views = [u \in Users |-> [c \in Ids |-> NoOne]]
  /\ requests = [r \in Requests |-> Idle]
  /\ lost = {}

-----------------------------------------------------------------------------
(* Rows and handlers                                                       *)

rowVars == <<conversations, seats, messages, members>>
clientVars == <<rooms, views>>

Live(c) == conversations[c] # NoOne /\ conversations[c].live
Group(c) == conversations[c].group
Seated(u, c) == u \in seats[c]
Owns(u, c) == u \in conversations[c].owners

\* The creator, a teacher (none here) or an active student.
HasClassAccess(u) == u = Creator \/ u \in members

\* The slip to check the search with: only those the user created are looked at.
DirectOf_Own(u, v) ==
  {c \in Ids : Live(c) /\ ~Group(c) /\ seats[c] = {u, v} /\ Owns(u, c)}

\* findExistingDirectConversation: all of its participants are the two, and both are.
DirectOf(u, v) == {c \in Ids : Live(c) /\ ~Group(c) /\ seats[c] = {u, v}}

MessagesOf(c) == {m \in Msgs : messages[m] = c}

At(r, step) == requests[r].at = step

Start(r, request) ==
  /\ requests[r] = Idle
  /\ requests' = [requests EXCEPT ![r] = request]

GoTo(r, step) == requests' = [requests EXCEPT ![r].at = step]
Finish(r) == requests' = [requests EXCEPT ![r] = Idle]

\* The rows of the conversations in C, their participants, or who is in their class,
\* have been written: the handlers that look at one of them, and those that looked
\* for one to use, are overtaken.
Overtaken(q, C) ==
  IF requests[q].at \in Checked /\ (requests[q].id \in C \/ requests[q].call # NoOne)
  THEN [requests[q] EXCEPT !.overtaken = TRUE] ELSE requests[q]

\* Handler r writes conversation c and goes on as request.
WriteAs(r, c, request) ==
  requests' = [q \in Requests |-> IF q = r THEN request ELSE Overtaken(q, {c})]

Push(step, c, t) == [Idle EXCEPT !.at = step, !.id = c, !.target = t]

-----------------------------------------------------------------------------
(* Mutated forms of operations, each with the slip its name says.          *)

InsertConversation_NoOwner(r) ==
  LET call == requests[r].call
  IN /\ At(r, "creating")
     /\ \E c \in Ids :
          /\ conversations[c] = NoOne
          /\ conversations' = [conversations EXCEPT ![c] =
               [group |-> call.group, class |-> call.class, live |-> TRUE,
                owners |-> {call.user, NoOne}, renamed |-> FALSE]]
          /\ requests' = [requests EXCEPT ![r].at = "seating", ![r].id = c,
                                          ![r].users = {call.user} \cup call.others]
     /\ UNCHANGED <<seats, messages, members, clientVars, lost>>

EmitMessage_Room(r) ==
  LET c == requests[r].id
  IN /\ At(r, "emitting")
     /\ views' = [u \in Users |-> [views[u] EXCEPT ![c] =
          IF u \in rooms[c] /\ @ # NoOne THEN @ \cup requests[r].msgs ELSE @]]
     /\ Finish(r)
     /\ UNCHANGED <<rowVars, rooms, lost>>

CountSeats_Keeps(r) ==
  /\ At(r, "counting")
  /\ GoTo(r, "telling")
  /\ UNCHANGED <<rowVars, clientVars, lost>>

TellRemoved_Remaining(r) ==
  LET c == requests[r].id
  IN /\ At(r, "telling")
     /\ views' = [u \in Users |-> [views[u] EXCEPT ![c] = IF u \in seats[c] THEN NoOne ELSE @]]
     /\ Finish(r)
     /\ UNCHANGED <<rowVars, rooms, lost>>

AdmitDelete_Anyone(r) ==
  /\ At(r, "disposing")
  /\ Seated(requests[r].user, requests[r].id)
  /\ GoTo(r, "deleting")
  /\ UNCHANGED <<rowVars, clientVars, lost>>

-----------------------------------------------------------------------------
(* createConversation                                                      *)

\* getOrCreateDirectConversation asks for the direct conversation once more before.
CreateConversation(r, call) ==
  /\ \A v \in Users : ~call.group /\ call.others = {v} => DirectOf(call.user, v) = {}
  /\ Start(r, [Idle EXCEPT !.at = IF call.class THEN "admitting" ELSE "creating",
                           !.call = call])
  /\ UNCHANGED <<rowVars, clientVars, lost>>

AdmitCreator(r) ==
  /\ At(r, "admitting")
  /\ HasClassAccess(requests[r].call.user)
  /\ GoTo(r, "searching")
  /\ UNCHANGED <<rowVars, clientVars, lost>>

ClassConversations == {c \in Ids : conversations[c] # NoOne /\ conversations[c].class}

SearchClassConversation(r) ==
  /\ At(r, "searching")
  /\ \A c \in ClassConversations : ~Live(c)
  /\ GoTo(r, "creating")
  /\ UNCHANGED <<rowVars, clientVars, lost>>

\* classId is unique, among the deleted rows as well.
InsertConversation(r) ==
  LET call == requests[r].call
  IN /\ At(r, "creating")
     /\ call.class => ClassConversations = {}
     /\ \E c \in Ids :
          /\ conversations[c] = NoOne
          /\ conversations' = [conversations EXCEPT ![c] =
               [group |-> call.group, class |-> call.class, live |-> TRUE,
                owners |-> {call.user, call.owner}, renamed |-> FALSE]]
          /\ requests' = [requests EXCEPT
               ![r].at = IF call.class THEN "listing" ELSE "seating",
               ![r].id = c,
               ![r].users = IF call.class THEN {} ELSE {call.user} \cup call.others]
     /\ UNCHANGED <<seats, messages, members, clientVars, lost>>

\* getClassConversationParticipants
ListParticipants(r) ==
  /\ At(r, "listing")
  /\ requests' = [requests EXCEPT ![r].at = "seating", ![r].users = {Creator} \cup members]
  /\ UNCHANGED <<rowVars, clientVars, lost>>

\* The event that follows changes nothing a client shows.
SeatParticipants(r) ==
  LET c == requests[r].id
  IN /\ At(r, "seating")
     /\ seats' = [seats EXCEPT ![c] = @ \cup requests[r].users]
     /\ WriteAs(r, c, Idle)
     /\ UNCHANGED <<conversations, messages, members, clientVars, lost>>

-----------------------------------------------------------------------------
(* sendMessage and emitNewMessage                                          *)

SendMessage(r, u, c) ==
  /\ Seated(u, c)
  /\ Start(r, [Idle EXCEPT !.at = "checking", !.user = u, !.id = c])
  /\ UNCHANGED <<rowVars, clientVars, lost>>

CheckConversation(r) ==
  /\ At(r, "checking")
  /\ Live(requests[r].id)
  /\ GoTo(r, "storing")
  /\ UNCHANGED <<rowVars, clientVars, lost>>

\* The conversation's updatedAt, written next, orders lists and nothing else.
StoreMessage(r) ==
  LET c == requests[r].id
  IN /\ At(r, "storing")
     /\ \E m \in Msgs :
          /\ messages[m] = NoOne
          /\ messages' = [messages EXCEPT ![m] = c]
          /\ requests' = [requests EXCEPT
               ![r] = [Push("pushing", c, NoOne) EXCEPT !.msgs = {m}]]
     /\ UNCHANGED <<conversations, seats, members, clientVars, lost>>

ReadAudience(r) ==
  /\ At(r, "pushing")
  /\ requests' = [requests EXCEPT ![r] =
       IF seats[requests[r].id] = {} THEN Idle
       ELSE [requests[r] EXCEPT !.at = "emitting", !.users = seats[requests[r].id]]]
  /\ UNCHANGED <<rowVars, clientVars, lost>>

\* The clients of the users in U show the messages M too, if they have c open.
Show(U, c, M) ==
  views' = [u \in Users |->
    [views[u] EXCEPT ![c] = IF u \in U /\ @ # NoOne THEN @ \cup M ELSE @]]

EmitMessage(r) ==
  LET c == requests[r].id
  IN /\ At(r, "emitting")
     /\ Show(requests[r].users \cup rooms[c], c, requests[r].msgs)
     /\ Finish(r)
     /\ UNCHANGED <<rowVars, rooms, lost>>

-----------------------------------------------------------------------------
(* addParticipant and removeParticipant                                    *)

AddParticipant(r, u, t, c) ==
  /\ Live(c) /\ Group(c)
  /\ Seated(u, c) /\ ~Seated(t, c)
  /\ Start(r, [Idle EXCEPT !.at = "adding", !.user = u, !.target = t, !.id = c])
  /\ UNCHANGED <<rowVars, clientVars, lost>>

\* <<userId, conversationId>> is unique.
InsertSeat(r) ==
  LET c == requests[r].id
  IN /\ At(r, "adding")
     /\ ~Seated(requests[r].target, c)
     /\ seats' = [seats EXCEPT ![c] = @ \cup {requests[r].target}]
     /\ WriteAs(r, c, Idle)
     /\ UNCHANGED <<conversations, messages, members, clientVars, lost>>

\* Whoever comes first in conversation.participants may remove others: the query
\* asks for no order, so that this may be any participant.
RemoveParticipant(r, u, t, c) ==
  /\ Live(c)
  /\ u = t \/ Seated(u, c)
  /\ Start(r, [Idle EXCEPT !.at = "looking", !.user = u, !.target = t, !.id = c])
  /\ UNCHANGED <<rowVars, clientVars, lost>>

FindSeat(r) ==
  /\ At(r, "looking")
  /\ Seated(requests[r].target, requests[r].id)
  /\ GoTo(r, "removing")
  /\ UNCHANGED <<rowVars, clientVars, lost>>

\* Another handler that means to delete this row will find that it is gone.
RemoveSeat(r) ==
  LET c == requests[r].id
      t == requests[r].target
  IN /\ At(r, "removing")
     /\ Seated(t, c)
     /\ seats' = [seats EXCEPT ![c] = @ \ {t}]
     /\ requests' = [q \in Requests |->
          CASE q = r -> Push("counting", c, t)
            [] q # r /\ At(q, "removing") /\ requests[q].id = c /\ requests[q].target = t
                 -> Idle
            [] OTHER -> Overtaken(q, {c})]
     /\ UNCHANGED <<conversations, messages, members, clientVars, lost>>

CountSeats(r) ==
  /\ At(r, "counting")
  /\ GoTo(r, IF seats[requests[r].id] = {} THEN "closing" ELSE "telling")
  /\ UNCHANGED <<rowVars, clientVars, lost>>

\* Marks the conversation deleted; the push comes next.
MarkDeleted(r, step) ==
  LET c == requests[r].id
  IN /\ At(r, step)
     /\ conversations' = [conversations EXCEPT ![c].live = FALSE]
     /\ WriteAs(r, c, Push("announcing", c, NoOne))
     /\ UNCHANGED <<seats, messages, members, clientVars, lost>>

CloseConversation(r) == MarkDeleted(r, "closing")

\* The event names the user and not the conversation: the client of who was removed
\* cannot but close all it has open.
TellRemoved(r) ==
  /\ At(r, "telling")
  /\ views' = [views EXCEPT ![requests[r].target] = [c \in Ids |-> NoOne]]
  /\ Finish(r)
  /\ UNCHANGED <<rowVars, rooms, lost>>

-----------------------------------------------------------------------------
(* deleteConversation and updateConversation                               *)

DeleteConversation(r, u, c) ==
  /\ Live(c)
  /\ Start(r, [Idle EXCEPT !.at = "disposing", !.user = u, !.id = c])
  /\ UNCHANGED <<rowVars, clientVars, lost>>

AdmitDelete(r) ==
  LET c == requests[r].id
  IN /\ At(r, "disposing")
     /\ Seated(requests[r].user, c)
     /\ ~Group(c) \/ Owns(requests[r].user, c)
     /\ GoTo(r, "deleting")
     /\ UNCHANGED <<rowVars, clientVars, lost>>

SaveDeleted(r) == MarkDeleted(r, "deleting")

\* emitConversationDeleted: who takes part by now hears of it.
AnnounceDeleted(r) ==
  LET c == requests[r].id
  IN /\ At(r, "announcing")
     /\ views' = [u \in Users |-> [views[u] EXCEPT ![c] = IF u \in seats[c] THEN NoOne ELSE @]]
     /\ Finish(r)
     /\ UNCHANGED <<rowVars, rooms, lost>>

UpdateConversation(r, u, c) ==
  /\ Live(c) /\ Group(c)
  /\ Start(r, [Idle EXCEPT !.at = "revising", !.user = u, !.id = c])
  /\ UNCHANGED <<rowVars, clientVars, lost>>

AdmitUpdate(r) ==
  LET c == requests[r].id
  IN /\ At(r, "revising")
     /\ Seated(requests[r].user, c)
     /\ Owns(requests[r].user, c)
     /\ GoTo(r, "renaming")
     /\ UNCHANGED <<rowVars, clientVars, lost>>

SaveUpdate(r) ==
  /\ At(r, "renaming")
  /\ conversations' = [conversations EXCEPT ![requests[r].id].renamed = TRUE]
  /\ Finish(r)
  /\ UNCHANGED <<seats, messages, members, clientVars, lost>>

-----------------------------------------------------------------------------
(* Clients: getConversationById, getConversationMessages, the socket's rooms *)

\* A client that opens a conversation gathers what is pushed to it from then on,
\* and adds the answer unless it has closed the conversation by then.
Open(r, u, c, step) ==
  /\ u \in Watchers
  /\ Seated(u, c)
  /\ views' = [views EXCEPT ![u][c] = IF @ = NoOne THEN {} ELSE @]
  /\ Start(r, [Idle EXCEPT !.at = step, !.user = u, !.id = c])
  /\ UNCHANGED <<rowVars, rooms, lost>>

GetConversationById(r, u, c) == Open(r, u, c, "reading")
GetConversationMessages(r, u, c) == Open(r, u, c, "paging")

\* The latter looks neither at the conversation nor at the class.
ReadMessages(r) ==
  /\ \/ At(r, "reading") /\ Live(requests[r].id)
     \/ At(r, "paging")
  /\ requests' = [requests EXCEPT
       ![r].at = IF At(r, "reading") THEN "showing" ELSE "loading",
       ![r].msgs = MessagesOf(requests[r].id)]
  /\ UNCHANGED <<rowVars, clientVars, lost>>

Answer(r) ==
  LET u == requests[r].user
      c == requests[r].id
  IN /\ \/ At(r, "showing") /\ (conversations[c].class => HasClassAccess(u))
        \/ At(r, "loading")
     /\ Show({u}, c, requests[r].msgs)
     /\ Finish(r)
     /\ UNCHANGED <<rowVars, rooms, lost>>

\* handleJoinConversation: whoever takes part, or else has access to the class.
JoinConversation(r, u, c) ==
  /\ u \in Watchers
  /\ Live(c)
  /\ Seated(u, c) \/ conversations[c].class
  /\ Start(r, [Idle EXCEPT !.at = IF Seated(u, c) THEN "joining" ELSE "entering",
                           !.user = u, !.id = c])
  /\ UNCHANGED <<rowVars, clientVars, lost>>

AdmitJoin(r) ==
  /\ At(r, "entering")
  /\ HasClassAccess(requests[r].user)
  /\ GoTo(r, "joining")
  /\ UNCHANGED <<rowVars, clientVars, lost>>

JoinRoom(r) ==
  /\ At(r, "joining")
  /\ rooms' = [rooms EXCEPT ![requests[r].id] = @ \cup {requests[r].user}]
  /\ Finish(r)
  /\ UNCHANGED <<rowVars, views, lost>>

LeaveConversation(u, c) ==
  /\ u \in rooms[c]
  /\ rooms' = [rooms EXCEPT ![c] = @ \ {u}]
  /\ UNCHANGED <<rowVars, views, requests, lost>>

\* The socket goes, its rooms with it; a join that is under way joins nothing.
Disconnect(u) ==
  /\ \E c \in Ids : u \in rooms[c] \/ views[u][c] # NoOne
  /\ rooms' = [c \in Ids |-> rooms[c] \ {u}]
  /\ views' = [views EXCEPT ![u] = [c \in Ids |-> NoOne]]
  /\ requests' = [r \in Requests |->
       IF requests[r].user = u /\ requests[r].at \in {"entering", "joining"}
       THEN Idle ELSE requests[r]]
  /\ UNCHANGED <<rowVars, lost>>

-----------------------------------------------------------------------------
(* The class (see Enrollment), and failures                                *)

OvertakeClass == requests' = [q \in Requests |-> Overtaken(q, ClassConversations)]

JoinClass(u) ==
  /\ u \in Pupils \ members
  /\ members' = members \cup {u}
  /\ OvertakeClass
  /\ UNCHANGED <<conversations, seats, messages, clientVars, lost>>

\* joinClass gives the seat later, by when the user may have left the class.
SeatPupil(u, c) ==
  /\ u \in Pupils
  /\ c \in ClassConversations /\ Live(c)
  /\ ~Seated(u, c)
  /\ seats' = [seats EXCEPT ![c] = @ \cup {u}]
  /\ OvertakeClass
  /\ UNCHANGED <<conversations, messages, members, clientVars, lost>>

\* The seat in the class's conversation stays.
LeaveClass(u) ==
  /\ u \in members
  /\ members' = members \ {u}
  /\ OvertakeClass
  /\ UNCHANGED <<conversations, seats, messages, clientVars, lost>>

\* A check that does not hold, or a query that fails before anything is written.
Refuse(r) ==
  LET c == requests[r].id
  IN /\ requests[r].at \notin {"idle"} \cup Halfway
     /\ Finish(r)
     /\ views' = IF requests[r].at \in {"reading", "paging", "showing", "loading"}
                 THEN [views EXCEPT ![requests[r].user][c] = NoOne] ELSE views
     /\ UNCHANGED <<rowVars, rooms, lost>>

\* A query that fails later: nobody carries on from there.
Fail(r) ==
  /\ Failures
  /\ requests[r].at \in Halfway
  /\ Finish(r)
  /\ lost' = lost \cup {requests[r].id}
  /\ UNCHANGED <<rowVars, clientVars>>

-----------------------------------------------------------------------------
Resume(r) ==
  \/ AdmitCreator(r) \/ SearchClassConversation(r) \/ InsertConversation(r)
  \/ ListParticipants(r) \/ SeatParticipants(r)
  \/ CheckConversation(r) \/ StoreMessage(r) \/ ReadAudience(r) \/ EmitMessage(r)
  \/ InsertSeat(r) \/ FindSeat(r) \/ RemoveSeat(r) \/ CountSeats(r)
  \/ CloseConversation(r) \/ TellRemoved(r)
  \/ AdmitDelete(r) \/ SaveDeleted(r) \/ AnnounceDeleted(r)
  \/ AdmitUpdate(r) \/ SaveUpdate(r)
  \/ ReadMessages(r) \/ Answer(r) \/ AdmitJoin(r) \/ JoinRoom(r)
  \/ Refuse(r) \/ Fail(r)

Receive(r) ==
  \/ \E call \in Calls : CreateConversation(r, call)
  \/ \E u \in Users, c \in Ids :
       \/ SendMessage(r, u, c)
       \/ \E t \in Users : AddParticipant(r, u, t, c) \/ RemoveParticipant(r, u, t, c)
       \/ DeleteConversation(r, u, c) \/ UpdateConversation(r, u, c)
       \/ GetConversationById(r, u, c) \/ GetConversationMessages(r, u, c)
       \/ JoinConversation(r, u, c)

Next ==
  \/ \E r \in Requests : Resume(r) \/ Receive(r)
  \/ \E u \in Users : JoinClass(u) \/ LeaveClass(u) \/ Disconnect(u)
  \/ \E u \in Users, c \in Ids : SeatPupil(u, c) \/ LeaveConversation(u, c)

Spec == Init /\ [][Next]_vars

-----------------------------------------------------------------------------
(* Safety                                                                  *)

\* What the handler of a request may do, by its rules, to the rows as they are.
Allowed(request) ==
  LET u == request.user
      c == request.id
  IN CASE request.at = "creating" -> request.call.class => HasClassAccess(request.call.user)
       [] request.at = "storing"  -> Live(c) /\ Seated(u, c)
       [] request.at = "adding"   -> Live(c) /\ Group(c) /\ Seated(u, c)
       [] request.at = "removing" -> Live(c) /\ (u = request.target \/ Seated(u, c))
       [] request.at = "closing"  -> seats[c] = {}
       [] request.at = "deleting" -> Live(c) /\ Seated(u, c) /\ (~Group(c) \/ Owns(u, c))
       [] request.at = "renaming" -> Live(c) /\ Group(c) /\ Seated(u, c) /\ Owns(u, c)
       [] request.at = "joining"  ->
            Live(c) /\ (Seated(u, c) \/ (conversations[c].class /\ HasClassAccess(u)))
       [] OTHER -> TRUE

\* Whatever is written, and whoever is let into a room, was allowed at that moment,
\* or another handler, or a change of the class, came between check and write.
StaleWriteNeedsOverlap ==
  [][\A r \in Requests :
       /\ requests'[r].at # requests[r].at
       /\ <<conversations, seats, messages, rooms>>' # <<conversations, seats, messages, rooms>>
       => Allowed(requests[r]) \/ requests[r].overtaken
    ]_vars

\* Two direct conversations of the same users.
Twins(c, d) ==
  /\ Live(c) /\ Live(d)
  /\ ~Group(c) /\ ~Group(d) /\ ~conversations[c].class /\ ~conversations[d].class
  /\ seats[c] = seats[d] /\ seats[c] # {}

\* "Gets an existing direct conversation or creates one if it does not exist": two
\* users come to have two only when one was created while the other was, when it was
\* meant for more than two, or when somebody left one.
TwinsNeedOverlap ==
  [][\A c, d \in Ids :
       c # d /\ ~Twins(c, d) /\ Twins(c, d)' =>
         \E r \in Requests :
           /\ requests[r].id \in {c, d} /\ requests'[r].at # requests[r].at
           /\ \/ At(r, "removing")
              \/ /\ At(r, "seating")
                 /\ \/ requests[r].overtaken
                    \/ \A v \in Users : requests[r].call.others # {v}
    ]_vars

\* A conversation nobody takes part in is deleted, unless a handler is at it or
\* gave up half way.
NobodysIsDeleted ==
  \A c \in Ids \ lost :
    Live(c) /\ seats[c] = {} =>
      \E r \in Requests :
        requests[r].id = c /\ requests[r].at \in {"listing", "seating", "counting", "closing"}

\* A removal of u that has not been made known yet.
Leaving(u, c) ==
  \E r \in Requests :
    /\ requests[r].at \in {"counting", "closing", "telling"}
    /\ requests[r].id = c /\ requests[r].target = u

\* The client of somebody who does not take part any more will close the
\* conversation, unless it has gone or the push was lost.
RemovedIsTold ==
  \A u \in Users, c \in Ids \ lost :
    views[u][c] # NoOne /\ ~Seated(u, c) => Leaving(u, c) \/ ~Live(c)

\* A message that the client of a participant does not show is being pushed or read.
NothingMissed ==
  \A u \in Users, c \in Ids \ lost :
    Live(c) /\ Seated(u, c) /\ views[u][c] # NoOne =>
      \A m \in MessagesOf(c) \ views[u][c] :
        \/ Leaving(u, c)
        \/ \E r \in Requests :
             /\ requests[r].id = c
             /\ \/ At(r, "pushing") /\ m \in requests[r].msgs
                \/ At(r, "emitting") /\ m \in requests[r].msgs /\ u \in requests[r].users
                \/ requests[r].user = u /\ requests[r].at \in {"reading", "paging"}
                \/ /\ requests[r].user = u /\ requests[r].at \in {"showing", "loading"}
                   /\ m \in requests[r].msgs
=============================================================================

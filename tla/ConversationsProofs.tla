-------------------------- MODULE ConversationsProofs --------------------------
(***************************************************************************)
(* Theorems about Conversations, for every set of users, conversations,    *)
(* messages and overlapping handlers, and whatever is asked of             *)
(* createConversation.                                                     *)
(*                                                                         *)
(* What a handler has found stays true of rows that nobody has written     *)
(* since (Known); what a client has yet to be told is carried by a handler *)
(* until the client is told (Leaving, Bears).                             *)
(***************************************************************************)
EXTENDS Conversations, TLAPS

Opening == {"admitting", "searching", "creating"}
Making == Opening \cup {"listing", "seating"}

\* What a handler remembers; the kind of a conversation never changes.
RequestOK(q, cs) ==
  /\ q.at \in Making => q.call \in Calls
  /\ q.at \notin Opening \cup {"idle"} => q.id \in Ids /\ cs[q.id] # NoOne
  /\ q.at \in {"checking", "storing", "adding", "looking", "removing", "disposing",
               "deleting", "revising", "renaming", "reading", "showing", "paging",
               "loading", "entering", "joining"} => q.user \in Users
  /\ q.at \in {"adding", "looking", "removing", "counting", "closing", "telling"} =>
       q.target \in Users
  /\ q.at = "adding" => cs[q.id].group
  /\ q.at = "listing" => q.call.class
  /\ q.at \in {"listing", "seating"} =>
       cs[q.id].group = q.call.group /\ cs[q.id].class = q.call.class
  /\ q.at = "seating" =>
       q.users # {} /\ (~q.call.class => q.users = {q.call.user} \cup q.call.others)

LiveIn(c, cs) == cs[c] # NoOne /\ cs[c].live

NoDirect(u, v, cs, ss) == \A c \in Ids : ~(LiveIn(c, cs) /\ ~cs[c].group /\ ss[c] = {u, v})

MayCreate(u, ms) == u = Creator \/ u \in ms

\* What a handler that has not been overtaken has found, of conversations, seats and
\* members as they are in cs, ss and ms.
Entitled(q, cs, ss, ms) ==
  /\ q.at \in {"searching", "creating"} /\ q.call.class => MayCreate(q.call.user, ms)
  /\ q.at \in Making /\ ~q.call.group =>
       \A v \in Users : q.call.others = {v} => NoDirect(q.call.user, v, cs, ss)
  /\ q.at \in {"listing", "seating", "closing"} => ss[q.id] = {}
  /\ q.at \in {"checking", "storing", "adding", "deleting", "renaming"} => q.user \in ss[q.id]
  /\ q.at \in {"storing", "adding", "looking", "removing", "disposing", "deleting",
               "revising", "renaming", "entering", "joining"} => LiveIn(q.id, cs)
  /\ q.at \in {"looking", "removing"} => q.user = q.target \/ q.user \in ss[q.id]
  /\ q.at = "deleting" => ~cs[q.id].group \/ q.user \in cs[q.id].owners
  /\ q.at \in {"revising", "renaming"} => cs[q.id].group
  /\ q.at = "renaming" => q.user \in cs[q.id].owners
  /\ q.at = "entering" => cs[q.id].class
  /\ q.at = "joining" => q.user \in ss[q.id] \/ (cs[q.id].class /\ MayCreate(q.user, ms))

Known(q, cs, ss, ms) == q.at \in Checked => q.overtaken \/ Entitled(q, cs, ss, ms)

RequestsInv ==
  \A r \in Requests :
    /\ RequestOK(requests[r], conversations)
    /\ Known(requests[r], conversations, seats, members)

\* Nobody sits in, or shows, a conversation that has not been created.
NothingYet ==
  \A c \in Ids : conversations[c] = NoOne =>
    seats[c] = {} /\ \A u \in Users : views[u][c] = NoOne

Inv ==
  /\ TypeOK
  /\ RequestsInv
  /\ NothingYet

-----------------------------------------------------------------------------
(* What steps leave alone                                                  *)

\* No conversation goes away or changes its kind; those outside C keep the rest too.
Kept(C) ==
  \A d \in Ids :
    /\ conversations[d] = NoOne => seats'[d] = seats[d]
    /\ conversations[d] # NoOne =>
         /\ conversations'[d] # NoOne
         /\ conversations'[d].group = conversations[d].group
         /\ conversations'[d].class = conversations[d].class
         /\ conversations'[d].owners = conversations[d].owners
         /\ d \notin C => conversations'[d].live = conversations[d].live /\ seats'[d] = seats[d]

LEMMA NullFacts ==
  /\ NoOne \notin Conversation /\ NoOne \notin Ids /\ NoOne \notin Users
  /\ NoOne \notin Call /\ NoOne \notin Msgs /\ NoOne \notin Calls /\ NoOne \notin SUBSET Msgs
  /\ Calls \subseteq Call
BY ConversationAssumption

LEMMA IdleKnown ==
  ASSUME NEW cs, NEW ss, NEW ms
  PROVE  Idle \in Request /\ RequestOK(Idle, cs) /\ Known(Idle, cs, ss, ms)
BY DEF Idle, Request, Steps, Null, RequestOK, Known, Checked, Opening, Making

\* What is remembered is true for ever.
LEMMA Remembers ==
  ASSUME Inv, NEW C, Kept(C), NEW q, RequestOK(q, conversations)
  PROVE  RequestOK(q, conversations')
BY DEF RequestOK, Kept, Opening, Making

LEMMA NoDirectStays ==
  ASSUME Inv, Kept({}), NEW u, NEW v, NoDirect(u, v, conversations, seats)
  PROVE  NoDirect(u, v, conversations', seats')
<1> SUFFICES ASSUME NEW c \in Ids, LiveIn(c, conversations'), ~conversations'[c].group,
                    seats'[c] = {u, v}
             PROVE  FALSE
  BY DEF NoDirect
<1>1. CASE conversations[c] = NoOne
  BY <1>1 DEF Kept, Inv, NothingYet
<1>2. CASE conversations[c] # NoOne
  BY <1>2 DEF Kept, NoDirect, LiveIn
<1> QED BY <1>1, <1>2

\* A handler that does nothing while no row it goes by is written.
LEMMA Still ==
  ASSUME Inv, Kept({}), members' = members, NEW r \in Requests, requests'[r] = requests[r]
  PROVE  /\ requests'[r] \in Request
         /\ RequestOK(requests'[r], conversations')
         /\ Known(requests'[r], conversations', seats', members')
<1>1. /\ requests[r] \in Request /\ RequestOK(requests[r], conversations)
      /\ Known(requests[r], conversations, seats, members)
  BY DEF Inv, TypeOK, RequestsInv
<1>2. RequestOK(requests[r], conversations')
  BY <1>1, Remembers
<1>3. \A u, v \in Users : NoDirect(u, v, conversations, seats) =>
                          NoDirect(u, v, conversations', seats')
  BY NoDirectStays
<1>4. requests[r].at \in Making => requests[r].call.user \in Users
  BY <1>1, NullFacts DEF RequestOK, Call
<1>5. requests[r].at \in Checked /\ ~requests[r].overtaken =>
        Entitled(requests[r], conversations', seats', members')
  <2> SUFFICES ASSUME requests[r].at \in Checked, ~requests[r].overtaken
               PROVE  Entitled(requests[r], conversations', seats', members')
    OBVIOUS
  <2>1. Entitled(requests[r], conversations, seats, members)
    BY <1>1 DEF Known
  <2>2. CASE requests[r].at \in Opening
    BY <1>3, <1>4, <2>1, <2>2 DEF Entitled, Opening, Making
  <2>3. CASE requests[r].at \notin Opening
    <3>1. requests[r].id \in Ids /\ conversations[requests[r].id] # NoOne
      BY <1>1, <2>3 DEF RequestOK, Checked
    <3>2. LiveIn(requests[r].id, conversations) => LiveIn(requests[r].id, conversations')
      BY <3>1 DEF Kept, LiveIn
    <3> QED BY <1>3, <1>4, <2>1, <2>3, <3>1, <3>2 DEF Entitled, Kept, Opening, Making
  <2> QED BY <2>2, <2>3
<1> QED BY <1>1, <1>2, <1>5 DEF Known

\* A handler that is overtaken, if it goes by a row that is written.
LEMMA Marked ==
  ASSUME Inv, NEW C, Kept(C), members' = members \/ ClassConversations \subseteq C,
         NEW r \in Requests, requests'[r] = Overtaken(r, C)
  PROVE  /\ requests'[r] \in Request
         /\ RequestOK(requests'[r], conversations')
         /\ Known(requests'[r], conversations', seats', members')
<1>1. /\ requests[r] \in Request /\ RequestOK(requests[r], conversations)
      /\ Known(requests[r], conversations, seats, members)
  BY DEF Inv, TypeOK, RequestsInv
<1>2. RequestOK(requests[r], conversations')
  BY <1>1, Remembers
<1>3. CASE requests[r].at \in Checked /\ (requests[r].id \in C \/ requests[r].call # NoOne)
  <2>1. requests'[r] = [requests[r] EXCEPT !.overtaken = TRUE]
    BY <1>3 DEF Overtaken
  <2>2. /\ requests'[r] \in Request /\ requests'[r].overtaken
        /\ requests'[r].at = requests[r].at /\ requests'[r].user = requests[r].user
        /\ requests'[r].id = requests[r].id /\ requests'[r].target = requests[r].target
        /\ requests'[r].call = requests[r].call /\ requests'[r].users = requests[r].users
    BY <1>1, <2>1 DEF Request
  <2>3. RequestOK(requests'[r], conversations')
    BY <1>2, <2>2 DEF RequestOK
  <2> QED BY <2>2, <2>3 DEF Known
<1>4. CASE requests[r].at \notin Checked
  BY <1>1, <1>2, <1>4 DEF Overtaken, Known
<1>5. CASE requests[r].at \in Checked /\ requests[r].id \notin C /\ requests[r].call = NoOne
  <2>1. requests'[r] = requests[r]
    BY <1>5 DEF Overtaken
  <2>2. requests[r].at \notin Making
    BY <1>1, <1>5, NullFacts DEF RequestOK
  <2>3. requests[r].id \in Ids /\ conversations[requests[r].id] # NoOne
    BY <1>1, <1>5, <2>2 DEF RequestOK, Checked, Making, Opening
  <2>4. LiveIn(requests[r].id, conversations) => LiveIn(requests[r].id, conversations')
    BY <1>5, <2>3 DEF Kept, LiveIn
  <2>5. conversations[requests[r].id].class => members' = members
    BY <1>5, <2>3 DEF ClassConversations
  <2>6. Entitled(requests[r], conversations, seats, members) =>
          Entitled(requests[r], conversations', seats', members')
    BY <1>5, <2>2, <2>3, <2>4, <2>5 DEF Entitled, Kept, Opening, Making
  <2> QED BY <1>1, <1>2, <2>1, <2>6 DEF Known
<1> QED BY <1>3, <1>4, <1>5

\* Handler r goes on as q, and no row that handlers go by is written.
LEMMA GoesOn ==
  ASSUME Inv, Kept({}), members' = members, NEW r \in Requests, NEW q \in Request,
         RequestOK(q, conversations'), Known(q, conversations', seats', members'),
         requests' = [requests EXCEPT ![r] = q]
  PROVE  requests' \in [Requests -> Request] /\ RequestsInv'
<1>1. requests' \in [Requests -> Request] /\ requests'[r] = q
      /\ \A p \in Requests \ {r} : requests'[p] = requests[p]
  BY DEF Inv, TypeOK
<1>2. ASSUME NEW p \in Requests
      PROVE  /\ RequestOK(requests'[p], conversations')
             /\ Known(requests'[p], conversations', seats', members')
  BY <1>1, Still
<1> QED BY <1>1, <1>2 DEF RequestsInv

\* Handler r goes on as q after it has written conversation c.
LEMMA Writes ==
  ASSUME Inv, NEW c \in Ids, Kept({c}), members' = members,
         NEW r \in Requests, NEW q \in Request,
         RequestOK(q, conversations'), Known(q, conversations', seats', members'),
         WriteAs(r, c, q)
  PROVE  requests' \in [Requests -> Request] /\ RequestsInv'
<1>1. ASSUME NEW p \in Requests
      PROVE  /\ requests'[p] \in Request
             /\ RequestOK(requests'[p], conversations')
             /\ Known(requests'[p], conversations', seats', members')
  <2>1. CASE p = r
    BY <2>1 DEF WriteAs
  <2>2. CASE p # r
    <3>1. requests'[p] = Overtaken(p, {c})
      BY <2>2 DEF WriteAs
    <3> QED BY <3>1, Marked
  <2> QED BY <2>1, <2>2
<1>2. requests' \in [Requests -> Request]
  BY <1>1 DEF WriteAs
<1> QED BY <1>1, <1>2 DEF RequestsInv

\* A change of the class overtakes those who go by it.
LEMMA ClassWritten ==
  ASSUME Inv, Kept(ClassConversations), OvertakeClass
  PROVE  requests' \in [Requests -> Request] /\ RequestsInv'
<1>1. ASSUME NEW p \in Requests
      PROVE  /\ requests'[p] \in Request
             /\ RequestOK(requests'[p], conversations')
             /\ Known(requests'[p], conversations', seats', members')
  <2>1. requests'[p] = Overtaken(p, ClassConversations)
    BY DEF OvertakeClass
  <2> QED BY <2>1, Marked
<1>2. requests' \in [Requests -> Request]
  BY <1>1 DEF OvertakeClass
<1> QED BY <1>1, <1>2 DEF RequestsInv

LEMMA UnchangedKept ==
  ASSUME UNCHANGED <<conversations, seats>>, NEW C
  PROVE  Kept(C)
BY DEF Kept

-----------------------------------------------------------------------------
(* Clients, messages and rooms                                             *)

\* The conversations that are open in clients: opened now, by who takes part.
ViewsOK ==
  /\ views' \in [Users -> [Ids -> Null(SUBSET Msgs)]]
  /\ \A u \in Users, c \in Ids : views'[u][c] # NoOne => views[u][c] # NoOne \/ Seated(u, c)

\* A message to show in c, if it is open.
LEMMA ShowViews ==
  ASSUME Inv, NEW U, NEW c \in Ids, NEW M \in SUBSET Msgs, Show(U, c, M)
  PROVE  /\ ViewsOK
         /\ \A u \in Users, d \in Ids :
              views'[u][d] = IF d = c /\ u \in U /\ views[u][d] # NoOne
                             THEN views[u][d] \cup M ELSE views[u][d]
<1>1. \A u \in Users : views[u] \in [Ids -> Null(SUBSET Msgs)]
  BY DEF Inv, TypeOK
<1>2. \A u \in Users, d \in Ids :
        views'[u][d] = IF d = c /\ u \in U /\ views[u][d] # NoOne
                       THEN views[u][d] \cup M ELSE views[u][d]
  BY <1>1 DEF Show
<1>3. ASSUME NEW u \in Users PROVE views'[u] \in [Ids -> Null(SUBSET Msgs)]
  <2>1. views'[u] = [views[u] EXCEPT ![c] = IF u \in U /\ @ # NoOne THEN @ \cup M ELSE @]
    BY DEF Show
  <2>2. (IF u \in U /\ views[u][c] # NoOne THEN views[u][c] \cup M ELSE views[u][c])
          \in Null(SUBSET Msgs)
    BY <1>1 DEF Null
  <2> QED BY <1>1, <2>1, <2>2
<1>4. views' \in [Users -> [Ids -> Null(SUBSET Msgs)]]
  BY <1>3 DEF Show
<1> QED BY <1>2, <1>4 DEF ViewsOK

LEMMA RequestFacts ==
  ASSUME Inv, NEW r \in Requests
  PROVE  /\ requests[r] \in Request /\ requests[r].msgs \in SUBSET Msgs
         /\ RequestOK(requests[r], conversations)
         /\ Known(requests[r], conversations, seats, members)
BY DEF Inv, TypeOK, RequestsInv, Request

-----------------------------------------------------------------------------
(* The kinds of steps, by what they leave alone                            *)

\* Only the handler itself goes on.
Asks(r) ==
  \/ AdmitCreator(r) \/ SearchClassConversation(r) \/ ListParticipants(r)
  \/ CheckConversation(r) \/ ReadAudience(r) \/ FindSeat(r) \/ CountSeats(r)
  \/ AdmitDelete(r) \/ AdmitUpdate(r) \/ ReadMessages(r) \/ AdmitJoin(r)

Begins(r) ==
  \/ \E call \in Calls : CreateConversation(r, call)
  \/ \E u \in Users, c \in Ids :
       \/ SendMessage(r, u, c)
       \/ \E t \in Users : AddParticipant(r, u, t, c) \/ RemoveParticipant(r, u, t, c)
       \/ DeleteConversation(r, u, c) \/ UpdateConversation(r, u, c)
       \/ JoinConversation(r, u, c)

\* Rows are written.
Stores(r) ==
  \/ InsertConversation(r) \/ SeatParticipants(r) \/ StoreMessage(r) \/ InsertSeat(r)
  \/ RemoveSeat(r) \/ CloseConversation(r) \/ SaveDeleted(r) \/ SaveUpdate(r)

\* A client learns something.
Shows(r) ==
  \/ EmitMessage(r) \/ TellRemoved(r) \/ AnnounceDeleted(r) \/ Answer(r) \/ JoinRoom(r)
  \/ Refuse(r)

LEMMA Kinds ==
  ASSUME [Next]_vars
  PROVE  \/ \E r \in Requests :
              \/ Asks(r) \/ Begins(r) \/ Stores(r) \/ Shows(r) \/ Fail(r)
              \/ \E u \in Users, c \in Ids, step \in {"reading", "paging"} : Open(r, u, c, step)
         \/ \E u \in Users : JoinClass(u) \/ LeaveClass(u) \/ Disconnect(u)
         \/ \E u \in Users, c \in Ids : SeatPupil(u, c) \/ LeaveConversation(u, c)
         \/ UNCHANGED vars
<1>1. ASSUME NEW r \in Requests, Resume(r)
      PROVE  Asks(r) \/ Stores(r) \/ Shows(r) \/ Fail(r)
  BY <1>1 DEF Resume, Asks, Stores, Shows
<1>2. ASSUME NEW r \in Requests, Receive(r)
      PROVE  \/ Begins(r)
             \/ \E u \in Users, c \in Ids, step \in {"reading", "paging"} : Open(r, u, c, step)
  BY <1>2 DEF Receive, Begins, GetConversationById, GetConversationMessages
<1> QED BY <1>1, <1>2 DEF Next

LEMMA AsksKeep ==
  ASSUME NEW r \in Requests, Asks(r) \/ Begins(r)
  PROVE  UNCHANGED <<conversations, seats, messages, members, rooms, views, lost>>
<1>1. Asks(r) => UNCHANGED <<rowVars, clientVars, lost>>
  BY DEF Asks, AdmitCreator, SearchClassConversation, ListParticipants, CheckConversation,
         ReadAudience, FindSeat, CountSeats, AdmitDelete, AdmitUpdate, ReadMessages, AdmitJoin
<1>2. Begins(r) => UNCHANGED <<rowVars, clientVars, lost>>
  BY DEF Begins, CreateConversation, SendMessage, AddParticipant, RemoveParticipant,
         DeleteConversation, UpdateConversation, JoinConversation
<1> QED BY <1>1, <1>2 DEF rowVars, clientVars

LEMMA StoresKeep ==
  ASSUME NEW r \in Requests, Stores(r)
  PROVE  /\ UNCHANGED <<members, rooms, views, lost>>
         /\ ~StoreMessage(r) => UNCHANGED messages
BY DEF Stores, InsertConversation, SeatParticipants, StoreMessage, InsertSeat, RemoveSeat,
       CloseConversation, MarkDeleted, SaveDeleted, SaveUpdate, clientVars

LEMMA ShowsKeep ==
  ASSUME NEW r \in Requests, Shows(r)
  PROVE  /\ UNCHANGED <<conversations, seats, messages, members, lost>>
         /\ JoinRoom(r) => UNCHANGED views
         /\ ~JoinRoom(r) => UNCHANGED rooms
BY DEF Shows, EmitMessage, TellRemoved, AnnounceDeleted, Answer, JoinRoom, Refuse, rowVars

LEMMA OpenKeeps ==
  ASSUME NEW r \in Requests, NEW u, NEW c, NEW step, Open(r, u, c, step)
  PROVE  UNCHANGED <<conversations, seats, messages, members, rooms, lost>>
BY DEF Open, rowVars

LEMMA FailKeeps ==
  ASSUME NEW r \in Requests, Fail(r)
  PROVE  UNCHANGED <<conversations, seats, messages, members, rooms, views>>
BY DEF Fail, rowVars, clientVars

LEMMA ClassKeeps ==
  ASSUME NEW u, JoinClass(u) \/ LeaveClass(u) \/ \E c \in Ids : SeatPupil(u, c)
  PROVE  /\ UNCHANGED <<conversations, messages, rooms, views, lost>>
         /\ OvertakeClass
BY DEF JoinClass, LeaveClass, SeatPupil, clientVars

LEMMA SocketKeeps ==
  ASSUME NEW u, Disconnect(u) \/ \E c \in Ids : LeaveConversation(u, c)
  PROVE  UNCHANGED <<conversations, seats, messages, members, lost>>
BY DEF Disconnect, LeaveConversation, rowVars

-----------------------------------------------------------------------------
LEMMA ViewsStep ==
  ASSUME Inv, [Next]_vars
  PROVE  ViewsOK
<1>1. ASSUME NEW r \in Requests, EmitMessage(r) PROVE ViewsOK
  <2>1. requests[r].id \in Ids
    BY <1>1, RequestFacts DEF EmitMessage, At, RequestOK, Opening
  <2> QED BY <1>1, <2>1, RequestFacts, ShowViews DEF EmitMessage
<1>2. ASSUME NEW r \in Requests, Answer(r) PROVE ViewsOK
  <2>1. requests[r].id \in Ids
    BY <1>2, RequestFacts DEF Answer, At, RequestOK, Opening
  <2> QED BY <1>2, <2>1, RequestFacts, ShowViews DEF Answer
<1>3. ASSUME NEW r \in Requests, TellRemoved(r) PROVE ViewsOK
  <2>1. views' = [views EXCEPT ![requests[r].target] = [c \in Ids |-> NoOne]]
    BY <1>3 DEF TellRemoved
  <2> QED BY <2>1 DEF Inv, TypeOK, ViewsOK, Null
<1>4. ASSUME NEW r \in Requests, AnnounceDeleted(r) PROVE ViewsOK
  <2>1. views' = [u \in Users |-> [views[u] EXCEPT ![requests[r].id] =
                    IF u \in seats[requests[r].id] THEN NoOne ELSE @]]
    BY <1>4 DEF AnnounceDeleted
  <2> QED BY <2>1 DEF Inv, TypeOK, ViewsOK, Null
<1>5. ASSUME NEW r \in Requests, Refuse(r) PROVE ViewsOK
  <2>1. views' = [views EXCEPT ![requests[r].user][requests[r].id] = NoOne]
        \/ views' = views
    BY <1>5 DEF Refuse
  <2>2. views \in [Users -> [Ids -> Null(SUBSET Msgs)]] /\ NoOne \in Null(SUBSET Msgs)
    BY DEF Inv, TypeOK, Null
  <2>3. ASSUME NEW w, NEW d, views' = [views EXCEPT ![w][d] = NoOne]
        PROVE  ViewsOK
    BY <2>2, <2>3 DEF ViewsOK
  <2>4. views' = views => ViewsOK
    BY <2>2 DEF ViewsOK
  <2> QED BY <2>1, <2>3, <2>4
<1>6. ASSUME NEW u \in Users, Disconnect(u) PROVE ViewsOK
  <2>1. views' = [views EXCEPT ![u] = [c \in Ids |-> NoOne]]
    BY <1>6 DEF Disconnect
  <2> QED BY <2>1 DEF Inv, TypeOK, ViewsOK, Null
<1>7. ASSUME NEW r \in Requests, NEW u \in Users, NEW c \in Ids, NEW step, Open(r, u, c, step)
      PROVE  ViewsOK
  <2>1. views' = [views EXCEPT ![u][c] = IF @ = NoOne THEN {} ELSE @] /\ Seated(u, c)
    BY <1>7 DEF Open
  <2>2. views \in [Users -> [Ids -> Null(SUBSET Msgs)]] /\ {} \in SUBSET Msgs
    BY DEF Inv, TypeOK
  <2> QED BY <2>1, <2>2 DEF ViewsOK, Null
<1>8. CASE views' = views
  BY <1>8 DEF Inv, TypeOK, ViewsOK
<1>9. ASSUME NEW r \in Requests, Shows(r) PROVE ViewsOK
  BY <1>1, <1>2, <1>3, <1>4, <1>5, <1>8, <1>9, ShowsKeep DEF Shows
<1> QED BY <1>6, <1>7, <1>8, <1>9, Kinds, AsksKeep, StoresKeep, FailKeeps, ClassKeeps
        DEF vars, LeaveConversation

LEMMA OtherTypes ==
  ASSUME Inv, [Next]_vars
  PROVE  /\ messages' \in [Msgs -> Null(Ids)]
         /\ members' \in SUBSET Users
         /\ rooms' \in [Ids -> SUBSET Users]
         /\ lost' \in SUBSET Ids
<1> DEFINE Good == /\ messages' \in [Msgs -> Null(Ids)]
                   /\ members' \in SUBSET Users
                   /\ rooms' \in [Ids -> SUBSET Users]
                   /\ lost' \in SUBSET Ids
<1>0. /\ messages \in [Msgs -> Null(Ids)] /\ members \in SUBSET Users
      /\ rooms \in [Ids -> SUBSET Users] /\ lost \in SUBSET Ids
  BY DEF Inv, TypeOK
<1>1. CASE UNCHANGED <<messages, members, rooms, lost>>
  BY <1>0, <1>1
<1>2. ASSUME NEW r \in Requests, StoreMessage(r) PROVE Good
  <2>1. requests[r].id \in Ids
    BY <1>2, RequestFacts DEF StoreMessage, At, RequestOK, Opening
  <2>2. messages' \in [Msgs -> Null(Ids)]
    BY <1>0, <1>2, <2>1 DEF StoreMessage, Null
  <2> QED BY <1>0, <1>2, <2>2 DEF StoreMessage, clientVars
<1>3. ASSUME NEW r \in Requests, JoinRoom(r) PROVE Good
  <2>1. requests[r].user \in Users
    BY <1>3, RequestFacts DEF JoinRoom, At, RequestOK
  <2>2. rooms' \in [Ids -> SUBSET Users]
    BY <1>0, <1>3, <2>1 DEF JoinRoom
  <2> QED BY <1>0, <1>3, <2>2 DEF JoinRoom, rowVars
<1>4. ASSUME NEW r \in Requests, Fail(r) PROVE Good
  <2>1. requests[r].id \in Ids
    BY <1>4, RequestFacts DEF Fail, Halfway, RequestOK, Opening
  <2>2. lost' \in SUBSET Ids
    BY <1>0, <1>4, <2>1 DEF Fail
  <2> QED BY <1>0, <1>4, <2>2, FailKeeps
<1>5. ASSUME NEW u \in Users, JoinClass(u) \/ LeaveClass(u) \/ \E c \in Ids : SeatPupil(u, c)
      PROVE  Good
  <2>1. members' \in SUBSET Users
    BY <1>0, <1>5 DEF JoinClass, LeaveClass, SeatPupil
  <2> QED BY <1>0, <1>5, <2>1, ClassKeeps
<1>6. ASSUME NEW u \in Users, Disconnect(u) \/ \E c \in Ids : LeaveConversation(u, c)
      PROVE  Good
  <2>1. rooms' \in [Ids -> SUBSET Users]
    BY <1>0, <1>6 DEF Disconnect, LeaveConversation
  <2> QED BY <1>0, <1>6, <2>1, SocketKeeps
<1>7. ASSUME NEW r \in Requests, Asks(r) \/ Begins(r) \/ Stores(r) \/ Shows(r) PROVE Good
  BY <1>1, <1>2, <1>3, <1>7, AsksKeep, StoresKeep, ShowsKeep
<1> QED BY <1>1, <1>4, <1>5, <1>6, <1>7, Kinds, OpenKeeps DEF vars

-----------------------------------------------------------------------------
(* What handlers know                                                      *)

LEMMA InvInit == Init => Inv
BY IdleKnown DEF Init, Inv, TypeOK, RequestsInv, NothingYet, Null

LEMMA InvFrom ==
  ASSUME Inv, [Next]_vars, NEW C, Kept(C),
         conversations' \in [Ids -> Null(Conversation)], seats' \in [Ids -> SUBSET Users],
         requests' \in [Requests -> Request], RequestsInv'
  PROVE  Inv'
<1>1. ViewsOK
  BY ViewsStep
<1>2. TypeOK'
  BY <1>1, OtherTypes DEF TypeOK, ViewsOK
<1>3. NothingYet'
  BY <1>1 DEF NothingYet, ViewsOK, Kept, Inv, Seated
<1> QED BY <1>2, <1>3 DEF Inv

\* No row is written, and handler r goes on as q.
LEMMA AskStep ==
  ASSUME Inv, [Next]_vars, UNCHANGED <<conversations, seats, members>>,
         NEW r \in Requests, NEW q \in Request,
         RequestOK(q, conversations), Known(q, conversations, seats, members),
         requests' = [requests EXCEPT ![r] = q]
  PROVE  Inv'
<1>1. Kept({})
  BY UnchangedKept
<1>2. requests' \in [Requests -> Request] /\ RequestsInv'
  BY <1>1, GoesOn
<1> QED BY <1>1, <1>2, InvFrom DEF Inv, TypeOK

LEMMA Moved ==
  ASSUME Inv, NEW r \in Requests, NEW step \in Steps, GoTo(r, step)
  PROVE  \E q \in Request :
           /\ requests' = [requests EXCEPT ![r] = q]
           /\ q.at = step /\ q.user = requests[r].user /\ q.id = requests[r].id
           /\ q.target = requests[r].target /\ q.call = requests[r].call
           /\ q.users = requests[r].users /\ q.msgs = requests[r].msgs
           /\ q.overtaken = requests[r].overtaken
<1>1. PICK q : q = [requests[r] EXCEPT !.at = step]
  OBVIOUS
<1>2. /\ q \in Request
      /\ q.at = step /\ q.user = requests[r].user /\ q.id = requests[r].id
      /\ q.target = requests[r].target /\ q.call = requests[r].call
      /\ q.users = requests[r].users /\ q.msgs = requests[r].msgs
      /\ q.overtaken = requests[r].overtaken
  BY <1>1, RequestFacts DEF Request
<1>3. requests' = [requests EXCEPT ![r] = q]
  BY <1>1 DEF GoTo, Inv, TypeOK
<1> QED BY <1>2, <1>3

\* The handler may go on to step: it has found what it needs for that.
Ready(r, step) ==
  \A q \in Request :
    /\ q.at = step /\ q.user = requests[r].user /\ q.id = requests[r].id
    /\ q.target = requests[r].target /\ q.call = requests[r].call
    /\ q.users = requests[r].users /\ q.overtaken = requests[r].overtaken
    => RequestOK(q, conversations) /\ Known(q, conversations, seats, members)

LEMMA GoToStep ==
  ASSUME Inv, [Next]_vars, UNCHANGED <<conversations, seats, members>>,
         NEW r \in Requests, NEW step \in Steps, GoTo(r, step), Ready(r, step)
  PROVE  Inv'
<1>1. PICK q \in Request :
        /\ requests' = [requests EXCEPT ![r] = q]
        /\ q.at = step /\ q.user = requests[r].user /\ q.id = requests[r].id
        /\ q.target = requests[r].target /\ q.call = requests[r].call
        /\ q.users = requests[r].users /\ q.overtaken = requests[r].overtaken
  BY Moved
<1>2. RequestOK(q, conversations) /\ Known(q, conversations, seats, members)
  BY <1>1 DEF Ready
<1> QED BY <1>1, <1>2, AskStep

LEMMA AsksInv ==
  ASSUME Inv, [Next]_vars, NEW r \in Requests, Asks(r)
  PROVE  Inv'
<1>0. /\ UNCHANGED <<conversations, seats, members>>
      /\ requests[r] \in Request
      /\ RequestOK(requests[r], conversations)
      /\ Known(requests[r], conversations, seats, members)
  BY AsksKeep, RequestFacts
<1> USE DEF RequestOK, Known, Entitled, Checked, Opening, Making, At
<1>1. CASE AdmitCreator(r)
  <2>1. GoTo(r, "searching") /\ Ready(r, "searching")
    BY <1>0, <1>1 DEF AdmitCreator, Ready, HasClassAccess, MayCreate
  <2> QED BY <1>0, <2>1, GoToStep DEF Steps
<1>2. CASE SearchClassConversation(r)
  <2>1. GoTo(r, "creating") /\ Ready(r, "creating")
    BY <1>0, <1>2 DEF SearchClassConversation, Ready
  <2> QED BY <1>0, <2>1, GoToStep DEF Steps
<1>3. CASE ListParticipants(r)
  <2>1. PICK q : q = [requests[r] EXCEPT !.at = "seating", !.users = {Creator} \cup members]
    OBVIOUS
  <2>2. {Creator} \cup members \in SUBSET Users
    BY ConversationAssumption DEF Inv, TypeOK
  <2>3. /\ q \in Request
        /\ q.at = "seating" /\ q.id = requests[r].id /\ q.call = requests[r].call
        /\ q.users = {Creator} \cup members /\ q.overtaken = requests[r].overtaken
    BY <1>0, <2>1, <2>2 DEF Request, Steps
  <2>4. requests' = [requests EXCEPT ![r] = q]
    BY <1>3, <2>1 DEF ListParticipants, Inv, TypeOK
  <2>5. requests[r].call.class /\ requests[r].at = "listing"
    BY <1>0, <1>3 DEF ListParticipants
  <2>6. RequestOK(q, conversations) /\ Known(q, conversations, seats, members)
    BY <1>0, <2>3, <2>5
  <2> QED BY <1>0, <2>3, <2>4, <2>6, AskStep
<1>4. CASE CheckConversation(r)
  <2>1. GoTo(r, "storing") /\ Ready(r, "storing")
    BY <1>0, <1>4 DEF CheckConversation, Ready, Live, LiveIn
  <2> QED BY <1>0, <2>1, GoToStep DEF Steps
<1>5. CASE ReadAudience(r)
  <2>1. PICK q : q = IF seats[requests[r].id] = {} THEN Idle
                     ELSE [requests[r] EXCEPT !.at = "emitting", !.users = seats[requests[r].id]]
    OBVIOUS
  <2>2. requests' = [requests EXCEPT ![r] = q]
    BY <1>5, <2>1 DEF ReadAudience, Inv, TypeOK
  <2>3. CASE q = Idle
    BY <1>0, <2>2, <2>3, IdleKnown, AskStep
  <2>4. CASE q # Idle
    <3>1. requests[r].id \in Ids /\ seats[requests[r].id] \in SUBSET Users
      BY <1>0, <1>5 DEF ReadAudience, Inv, TypeOK
    <3>2. q \in Request /\ q.at = "emitting" /\ q.id = requests[r].id
      BY <1>0, <2>1, <2>4, <3>1 DEF Request, Steps
    <3> QED BY <1>0, <1>5, <2>2, <3>2, AskStep DEF ReadAudience
  <2> QED BY <2>3, <2>4
<1>6. CASE FindSeat(r)
  <2>1. GoTo(r, "removing") /\ Ready(r, "removing")
    BY <1>0, <1>6 DEF FindSeat, Ready
  <2> QED BY <1>0, <2>1, GoToStep DEF Steps
<1>7. CASE CountSeats(r)
  <2>1. CASE seats[requests[r].id] = {}
    <3>1. GoTo(r, "closing") /\ Ready(r, "closing")
      BY <1>0, <1>7, <2>1 DEF CountSeats, Ready
    <3> QED BY <1>0, <3>1, GoToStep DEF Steps
  <2>2. CASE seats[requests[r].id] # {}
    <3>1. GoTo(r, "telling") /\ Ready(r, "telling")
      BY <1>0, <1>7, <2>2 DEF CountSeats, Ready
    <3> QED BY <1>0, <3>1, GoToStep DEF Steps
  <2> QED BY <2>1, <2>2
<1>8. CASE AdmitDelete(r)
  <2>1. GoTo(r, "deleting") /\ Ready(r, "deleting")
    BY <1>0, <1>8 DEF AdmitDelete, Ready, Seated, Group, Owns
  <2> QED BY <1>0, <2>1, GoToStep DEF Steps
<1>9. CASE AdmitUpdate(r)
  <2>1. GoTo(r, "renaming") /\ Ready(r, "renaming")
    BY <1>0, <1>9 DEF AdmitUpdate, Ready, Seated, Owns
  <2> QED BY <1>0, <2>1, GoToStep DEF Steps
<1>10. CASE ReadMessages(r)
  <2>1. PICK q : q = [requests[r] EXCEPT
          !.at = IF At(r, "reading") THEN "showing" ELSE "loading",
          !.msgs = MessagesOf(requests[r].id)]
    OBVIOUS
  <2>2. MessagesOf(requests[r].id) \in SUBSET Msgs
    BY DEF MessagesOf
  <2>3. q \in Request /\ q.at \in {"showing", "loading"} /\ q.user = requests[r].user
        /\ q.id = requests[r].id
    BY <1>0, <2>1, <2>2 DEF Request, Steps
  <2>4. requests' = [requests EXCEPT ![r] = q]
    BY <1>10, <2>1 DEF ReadMessages, Inv, TypeOK
  <2>5. RequestOK(q, conversations) /\ Known(q, conversations, seats, members)
    BY <1>0, <1>10, <2>3 DEF ReadMessages
  <2> QED BY <1>0, <2>3, <2>4, <2>5, AskStep
<1>11. CASE AdmitJoin(r)
  <2>1. GoTo(r, "joining") /\ Ready(r, "joining")
    BY <1>0, <1>11 DEF AdmitJoin, Ready, HasClassAccess, MayCreate
  <2> QED BY <1>0, <2>1, GoToStep DEF Steps
<1> QED BY <1>1, <1>2, <1>3, <1>4, <1>5, <1>6, <1>7, <1>8, <1>9, <1>10, <1>11 DEF Asks

\* A handler begins as q.
LEMMA BeginStep ==
  ASSUME Inv, [Next]_vars, UNCHANGED <<conversations, seats, members>>,
         NEW r \in Requests, NEW q \in Request, Start(r, q),
         RequestOK(q, conversations), Known(q, conversations, seats, members)
  PROVE  Inv'
BY AskStep DEF Start

\* As the handlers put their requests together.
Asker(step, u, c) == [Idle EXCEPT !.at = step, !.user = u, !.id = c]

AskerFor(step, u, t, c) == [Idle EXCEPT !.at = step, !.user = u, !.target = t, !.id = c]

LEMMA AskerOK ==
  ASSUME NEW step \in Steps, NEW u \in Users, NEW c \in Ids
  PROVE  /\ Asker(step, u, c) \in Request
         /\ Asker(step, u, c).at = step /\ Asker(step, u, c).user = u
         /\ Asker(step, u, c).id = c
BY DEF Asker, Idle, Request, Null

LEMMA AskerForOK ==
  ASSUME NEW step \in Steps, NEW u \in Users, NEW t \in Users, NEW c \in Ids
  PROVE  /\ AskerFor(step, u, t, c) \in Request
         /\ AskerFor(step, u, t, c).at = step /\ AskerFor(step, u, t, c).user = u
         /\ AskerFor(step, u, t, c).target = t /\ AskerFor(step, u, t, c).id = c
BY DEF AskerFor, Idle, Request, Null

LEMMA BeginsInv ==
  ASSUME Inv, [Next]_vars, NEW r \in Requests, Begins(r)
  PROVE  Inv'
<1>0. UNCHANGED <<conversations, seats, members>>
  BY AsksKeep
<1>1. ASSUME NEW call \in Calls, CreateConversation(r, call) PROVE Inv'
  <2>1. PICK q : q = [Idle EXCEPT !.at = IF call.class THEN "admitting" ELSE "creating",
                                  !.call = call]
    OBVIOUS
  <2>2. /\ q \in Request /\ q.at = IF call.class THEN "admitting" ELSE "creating"
        /\ q.call = call
    BY <2>1 DEF Idle, Request, Steps, Null
  <2>3. ASSUME ~call.group, NEW v \in Users, call.others = {v}
        PROVE  NoDirect(call.user, v, conversations, seats)
    BY <1>1, <2>3 DEF CreateConversation, DirectOf, NoDirect, LiveIn, Live, Group
  <2>4. RequestOK(q, conversations) /\ Known(q, conversations, seats, members)
    BY <2>2, <2>3 DEF RequestOK, Known, Entitled, Making, Opening
  <2> QED BY <1>0, <1>1, <2>1, <2>2, <2>4, BeginStep DEF CreateConversation
<1>2. ASSUME NEW u \in Users, NEW c \in Ids, NEW q \in Request,
             q.at \in {"checking", "adding", "looking", "disposing", "revising", "joining",
                       "entering"},
             q.user = u, q.id = c,
             q.at # "checking" => Live(c),
             q.at \in {"adding", "looking"} => q.target \in Users,
             q.at \in {"checking", "adding"} => Seated(u, c),
             q.at \in {"adding", "revising"} => Group(c),
             q.at = "looking" => u = q.target \/ Seated(u, c),
             q.at = "entering" => conversations[c].class,
             q.at = "joining" => Seated(u, c),
             Start(r, q)
      PROVE  Inv'
  <2>1. conversations[c] # NoOne
    BY <1>2 DEF Live, Seated, Inv, NothingYet
  <2>2. RequestOK(q, conversations)
    BY <1>2, <2>1 DEF RequestOK, Opening, Making, Group
  <2>3. Entitled(q, conversations, seats, members)
    BY <1>2 DEF Entitled, Making, Opening, LiveIn, Live, Group, Seated
  <2> QED BY <1>0, <1>2, <2>2, <2>3, BeginStep DEF Known
<1>3. ASSUME NEW u \in Users, NEW c \in Ids, SendMessage(r, u, c)
      PROVE  Inv'
  <2>1. PICK q \in Request : q = Asker("checking", u, c)
    BY AskerOK DEF Steps
  <2>2. q.at = "checking" /\ q.user = u /\ q.id = c
    BY <2>1, AskerOK DEF Steps
  <2>3. Start(r, q)
    BY <1>3, <2>1 DEF SendMessage, Asker
  <2> QED BY <1>2, <1>3, <2>2, <2>3 DEF SendMessage
<1>4. ASSUME NEW u \in Users, NEW c \in Ids, NEW t \in Users, AddParticipant(r, u, t, c)
      PROVE  Inv'
  <2>1. PICK q \in Request : q = AskerFor("adding", u, t, c)
    BY AskerForOK DEF Steps
  <2>2. q.at = "adding" /\ q.user = u /\ q.id = c /\ q.target = t
    BY <2>1, AskerForOK DEF Steps
  <2>3. Start(r, q)
    BY <1>4, <2>1 DEF AddParticipant, AskerFor
  <2> QED BY <1>2, <1>4, <2>2, <2>3 DEF AddParticipant
<1>5. ASSUME NEW u \in Users, NEW c \in Ids, NEW t \in Users, RemoveParticipant(r, u, t, c)
      PROVE  Inv'
  <2>1. PICK q \in Request : q = AskerFor("looking", u, t, c)
    BY AskerForOK DEF Steps
  <2>2. q.at = "looking" /\ q.user = u /\ q.id = c /\ q.target = t
    BY <2>1, AskerForOK DEF Steps
  <2>3. Start(r, q)
    BY <1>5, <2>1 DEF RemoveParticipant, AskerFor
  <2> QED BY <1>2, <1>5, <2>2, <2>3 DEF RemoveParticipant
<1>6. ASSUME NEW u \in Users, NEW c \in Ids, DeleteConversation(r, u, c)
      PROVE  Inv'
  <2>1. PICK q \in Request : q = Asker("disposing", u, c)
    BY AskerOK DEF Steps
  <2>2. q.at = "disposing" /\ q.user = u /\ q.id = c
    BY <2>1, AskerOK DEF Steps
  <2>3. Start(r, q)
    BY <1>6, <2>1 DEF DeleteConversation, Asker
  <2> QED BY <1>2, <1>6, <2>2, <2>3 DEF DeleteConversation
<1>7. ASSUME NEW u \in Users, NEW c \in Ids, UpdateConversation(r, u, c)
      PROVE  Inv'
  <2>1. PICK q \in Request : q = Asker("revising", u, c)
    BY AskerOK DEF Steps
  <2>2. q.at = "revising" /\ q.user = u /\ q.id = c
    BY <2>1, AskerOK DEF Steps
  <2>3. Start(r, q)
    BY <1>7, <2>1 DEF UpdateConversation, Asker
  <2> QED BY <1>2, <1>7, <2>2, <2>3 DEF UpdateConversation
<1>8. ASSUME NEW u \in Users, NEW c \in Ids, JoinConversation(r, u, c) PROVE Inv'
  <2>1. PICK step \in {"joining", "entering"} : step = IF Seated(u, c) THEN "joining" ELSE "entering"
    OBVIOUS
  <2>2. PICK q \in Request : q = Asker(step, u, c)
    BY AskerOK DEF Steps
  <2>3. q.at = step /\ q.user = u /\ q.id = c
    BY <2>2, AskerOK DEF Steps
  <2>4. Start(r, q)
    BY <1>8, <2>1, <2>2 DEF JoinConversation, Asker
  <2> QED BY <1>2, <1>8, <2>1, <2>3, <2>4 DEF JoinConversation
<1> QED BY <1>1, <1>3, <1>4, <1>5, <1>6, <1>7, <1>8 DEF Begins

\* The handlers that end, or begin to read.
LEMMA EndsInv ==
  ASSUME Inv, [Next]_vars, NEW r \in Requests, Shows(r) \/ Fail(r)
  PROVE  Inv'
<1>1. UNCHANGED <<conversations, seats, members>>
  BY ShowsKeep, FailKeeps
<1>2. Finish(r)
  BY DEF Shows, EmitMessage, TellRemoved, AnnounceDeleted, Answer, JoinRoom, Refuse, Fail
<1> QED BY <1>1, <1>2, IdleKnown, AskStep DEF Finish

LEMMA OpenInv ==
  ASSUME Inv, [Next]_vars, NEW r \in Requests, NEW u \in Users, NEW c \in Ids,
         NEW step \in {"reading", "paging"}, Open(r, u, c, step)
  PROVE  Inv'
<1>1. PICK q : q = [Idle EXCEPT !.at = step, !.user = u, !.id = c]
  OBVIOUS
<1>2. q \in Request /\ q.at = step /\ q.user = u /\ q.id = c
  BY <1>1 DEF Idle, Request, Steps, Null
<1>3. conversations[c] # NoOne
  BY DEF Open, Seated, Inv, NothingYet
<1>4. RequestOK(q, conversations) /\ Known(q, conversations, seats, members)
  BY <1>2, <1>3 DEF RequestOK, Known, Checked, Opening, Making
<1>5. UNCHANGED <<conversations, seats, members>>
  BY OpenKeeps
<1> QED BY <1>1, <1>2, <1>4, <1>5, BeginStep DEF Open

LEMMA PushOK ==
  ASSUME NEW step \in {"counting", "announcing", "pushing"}, NEW c \in Ids,
         NEW t \in Null(Users)
  PROVE  /\ Push(step, c, t) \in Request
         /\ Push(step, c, t).at = step /\ Push(step, c, t).id = c
         /\ Push(step, c, t).target = t
BY DEF Push, Idle, Request, Steps, Null

\* Conversation c is written, of whose kind nothing changes.
LEMMA RowWritten ==
  ASSUME Inv, NEW c \in Ids, conversations[c] # NoOne, NEW row \in Conversation,
         conversations' = [conversations EXCEPT ![c] = row], seats' = seats,
         row.group = conversations[c].group, row.class = conversations[c].class,
         row.owners = conversations[c].owners
  PROVE  /\ conversations' \in [Ids -> Null(Conversation)]
         /\ Kept({c})
         /\ row.live = conversations[c].live => Kept({})
BY NullFacts DEF Inv, TypeOK, Kept, Null

\* Somebody takes or leaves a seat in conversation c.
LEMMA SeatWritten ==
  ASSUME Inv, NEW c \in Ids, conversations[c] # NoOne, NEW S \in SUBSET Users,
         seats' = [seats EXCEPT ![c] = S], conversations' = conversations
  PROVE  seats' \in [Ids -> SUBSET Users] /\ \A C : c \in C => Kept(C)
BY DEF Inv, TypeOK, Kept

LEMMA InsertConversationInv ==
  ASSUME Inv, [Next]_vars, NEW r \in Requests, InsertConversation(r)
  PROVE  Inv'
<1>1. /\ requests[r] \in Request /\ requests[r].at = "creating"
      /\ requests[r].call \in Calls /\ requests[r].call \in Call
      /\ Known(requests[r], conversations, seats, members)
  BY RequestFacts, NullFacts DEF InsertConversation, At, RequestOK, Making, Opening
<1>2. PICK call : call = requests[r].call
  OBVIOUS
<1>3. /\ call.user \in Users /\ call.owner \in Users /\ call.others \in SUBSET Users
      /\ call.group \in BOOLEAN /\ call.class \in BOOLEAN
  BY <1>1, <1>2 DEF Call
<1>4. PICK c \in Ids :
        /\ conversations[c] = NoOne
        /\ conversations' = [conversations EXCEPT ![c] =
             [group |-> call.group, class |-> call.class, live |-> TRUE,
              owners |-> {call.user, call.owner}, renamed |-> FALSE]]
        /\ requests' = [requests EXCEPT
             ![r].at = IF call.class THEN "listing" ELSE "seating",
             ![r].id = c,
             ![r].users = IF call.class THEN {} ELSE {call.user} \cup call.others]
  BY <1>2 DEF InsertConversation
<1>5. PICK row : row = [group |-> call.group, class |-> call.class, live |-> TRUE,
                        owners |-> {call.user, call.owner}, renamed |-> FALSE]
  OBVIOUS
<1>6. row \in Conversation /\ row.group = call.group /\ row.class = call.class
  BY <1>3, <1>5 DEF Conversation
<1>7. /\ conversations' \in [Ids -> Null(Conversation)]
      /\ conversations'[c] = row /\ row # NoOne
      /\ \A d \in Ids \ {c} : conversations'[d] = conversations[d]
  BY <1>4, <1>5, <1>6, NullFacts DEF Inv, TypeOK, Null
<1>8. seats' = seats /\ members' = members /\ seats[c] = {}
  BY <1>4 DEF InsertConversation, Inv, NothingYet
<1>9. Kept({})
  BY <1>4, <1>7, <1>8 DEF Kept
<1>10. PICK q : q = [requests[r] EXCEPT
         !.at = IF call.class THEN "listing" ELSE "seating",
         !.id = c,
         !.users = IF call.class THEN {} ELSE {call.user} \cup call.others]
  OBVIOUS
<1>11. /\ q \in Request
       /\ q.at = IF call.class THEN "listing" ELSE "seating"
       /\ q.id = c /\ q.call = call /\ q.overtaken = requests[r].overtaken
       /\ ~call.class => q.users = {call.user} \cup call.others
  BY <1>1, <1>2, <1>3, <1>10 DEF Request, Steps, Null
<1>12. requests' = [requests EXCEPT ![r] = q]
  BY <1>4, <1>10 DEF Inv, TypeOK
<1>13. RequestOK(q, conversations')
  BY <1>1, <1>2, <1>6, <1>7, <1>11 DEF RequestOK, Opening, Making
<1>14. \A v \in Users : NoDirect(call.user, v, conversations, seats) =>
                        NoDirect(call.user, v, conversations', seats')
  BY <1>9, NoDirectStays
<1>15. Known(q, conversations', seats', members')
  BY <1>1, <1>2, <1>8, <1>11, <1>14 DEF Known, Entitled, Making, Opening, Checked
<1>16. requests' \in [Requests -> Request] /\ RequestsInv'
  BY <1>8, <1>9, <1>11, <1>12, <1>13, <1>15, GoesOn
<1> QED BY <1>7, <1>8, <1>9, <1>16, InvFrom DEF Inv, TypeOK

LEMMA MarkDeletedInv ==
  ASSUME Inv, [Next]_vars, NEW r \in Requests, NEW step \in {"closing", "deleting"},
         MarkDeleted(r, step)
  PROVE  Inv'
<1>1. PICK c \in Ids : c = requests[r].id /\ conversations[c] # NoOne
  BY RequestFacts DEF MarkDeleted, At, RequestOK, Opening
<1>2. conversations[c] \in Conversation
  BY <1>1 DEF Inv, TypeOK, Null
<1>3. PICK row : row = [conversations[c] EXCEPT !.live = FALSE]
  OBVIOUS
<1>4. row \in Conversation /\ row.group = conversations[c].group
      /\ row.class = conversations[c].class /\ row.owners = conversations[c].owners
  BY <1>2, <1>3 DEF Conversation
<1>5. conversations' = [conversations EXCEPT ![c] = row] /\ UNCHANGED <<seats, members>>
      /\ WriteAs(r, c, Push("announcing", c, NoOne))
  BY <1>1, <1>3 DEF MarkDeleted
<1>6. conversations' \in [Ids -> Null(Conversation)] /\ Kept({c})
  BY <1>1, <1>4, <1>5, RowWritten
<1>7. PICK q \in Request : q = Push("announcing", c, NoOne)
  BY PushOK DEF Null
<1>a. q.at = "announcing" /\ q.id = c
  BY <1>7, PushOK DEF Null
<1>8. RequestOK(q, conversations') /\ Known(q, conversations', seats', members')
  BY <1>1, <1>6, <1>a DEF RequestOK, Known, Checked, Opening, Making, Kept
<1>9. requests' \in [Requests -> Request] /\ RequestsInv'
  BY <1>5, <1>6, <1>7, <1>8, Writes
<1> QED BY <1>5, <1>6, <1>9, InvFrom DEF Inv, TypeOK

LEMMA SaveUpdateInv ==
  ASSUME Inv, [Next]_vars, NEW r \in Requests, SaveUpdate(r)
  PROVE  Inv'
<1>1. PICK c \in Ids : c = requests[r].id /\ conversations[c] # NoOne
  BY RequestFacts DEF SaveUpdate, At, RequestOK, Opening
<1>2. conversations[c] \in Conversation
  BY <1>1 DEF Inv, TypeOK, Null
<1>3. PICK row : row = [conversations[c] EXCEPT !.renamed = TRUE]
  OBVIOUS
<1>4. row \in Conversation /\ row.group = conversations[c].group
      /\ row.class = conversations[c].class /\ row.owners = conversations[c].owners
      /\ row.live = conversations[c].live
  BY <1>2, <1>3 DEF Conversation
<1>5. conversations' = [conversations EXCEPT ![c] = row] /\ UNCHANGED <<seats, members>>
      /\ Finish(r)
  BY <1>1, <1>3 DEF SaveUpdate
<1>6. conversations' \in [Ids -> Null(Conversation)] /\ Kept({})
  BY <1>1, <1>4, <1>5, RowWritten
<1>7. requests' \in [Requests -> Request] /\ RequestsInv'
  BY <1>5, <1>6, IdleKnown, GoesOn DEF Finish
<1> QED BY <1>5, <1>6, <1>7, InvFrom DEF Inv, TypeOK

LEMMA SeatInv ==
  ASSUME Inv, [Next]_vars, NEW r \in Requests, SeatParticipants(r) \/ InsertSeat(r)
  PROVE  Inv'
<1>1. PICK c \in Ids : c = requests[r].id /\ conversations[c] # NoOne
  BY RequestFacts DEF SeatParticipants, InsertSeat, At, RequestOK, Opening
<1>2. PICK S \in SUBSET Users : seats' = [seats EXCEPT ![c] = S]
  <2>1. seats[c] \in SUBSET Users
    BY DEF Inv, TypeOK
  <2>2. CASE SeatParticipants(r)
    <3>1. requests[r].users \in SUBSET Users
      BY RequestFacts DEF Request
    <3>2. seats' = [seats EXCEPT ![c] = seats[c] \cup requests[r].users]
      BY <1>1, <2>2 DEF SeatParticipants
    <3> QED BY <2>1, <3>1, <3>2
  <2>3. CASE InsertSeat(r)
    <3>1. requests[r].target \in Users
      BY <2>3, RequestFacts DEF InsertSeat, At, RequestOK
    <3>2. seats' = [seats EXCEPT ![c] = seats[c] \cup {requests[r].target}]
      BY <1>1, <2>3 DEF InsertSeat
    <3> QED BY <2>1, <3>1, <3>2
  <2> QED BY <2>2, <2>3
<1>3. UNCHANGED <<conversations, members>> /\ WriteAs(r, c, Idle)
  BY <1>1 DEF SeatParticipants, InsertSeat
<1>4. seats' \in [Ids -> SUBSET Users] /\ Kept({c})
  BY <1>1, <1>2, <1>3, SeatWritten
<1>5. requests' \in [Requests -> Request] /\ RequestsInv'
  BY <1>3, <1>4, IdleKnown, Writes
<1> QED BY <1>3, <1>4, <1>5, InvFrom DEF Inv, TypeOK

LEMMA RemoveSeatInv ==
  ASSUME Inv, [Next]_vars, NEW r \in Requests, RemoveSeat(r)
  PROVE  Inv'
<1>1. PICK c \in Ids, t \in Users :
        c = requests[r].id /\ t = requests[r].target /\ conversations[c] # NoOne
  BY RequestFacts DEF RemoveSeat, At, RequestOK, Opening
<1>2. UNCHANGED <<conversations, members>> /\ seats' = [seats EXCEPT ![c] = seats[c] \ {t}]
  BY <1>1 DEF RemoveSeat
<1>b. seats[c] \ {t} \in SUBSET Users
  BY DEF Inv, TypeOK
<1>3. seats' \in [Ids -> SUBSET Users] /\ Kept({c})
  BY <1>1, <1>2, <1>b, SeatWritten
<1>4. PICK q \in Request : q = Push("counting", c, t)
  BY PushOK DEF Null
<1>a. q.at = "counting" /\ q.id = c /\ q.target = t
  BY <1>4, PushOK DEF Null
<1>5. RequestOK(q, conversations') /\ Known(q, conversations', seats', members')
  BY <1>1, <1>2, <1>a DEF RequestOK, Known, Checked, Opening, Making
<1>6. ASSUME NEW p \in Requests
      PROVE  /\ requests'[p] \in Request
             /\ RequestOK(requests'[p], conversations')
             /\ Known(requests'[p], conversations', seats', members')
  <2>1. requests'[p] = q \/ requests'[p] = Idle \/ requests'[p] = Overtaken(p, {c})
    BY <1>1, <1>4 DEF RemoveSeat
  <2>2. CASE requests'[p] = q
    BY <1>5, <2>2
  <2>3. CASE requests'[p] = Idle
    BY <2>3, IdleKnown
  <2>4. CASE requests'[p] = Overtaken(p, {c})
    BY <1>2, <1>3, <2>4, Marked
  <2> QED BY <2>1, <2>2, <2>3, <2>4
<1>7. requests' \in [Requests -> Request] /\ RequestsInv'
  BY <1>6 DEF RemoveSeat, RequestsInv
<1> QED BY <1>2, <1>3, <1>7, InvFrom DEF Inv, TypeOK

LEMMA StoreMessageInv ==
  ASSUME Inv, [Next]_vars, NEW r \in Requests, StoreMessage(r)
  PROVE  Inv'
<1>1. PICK c \in Ids : c = requests[r].id /\ conversations[c] # NoOne
  BY RequestFacts DEF StoreMessage, At, RequestOK, Opening
<1>2. PICK m \in Msgs : requests' = [requests EXCEPT
        ![r] = [Push("pushing", c, NoOne) EXCEPT !.msgs = {m}]]
  BY <1>1 DEF StoreMessage
<1>a. PICK q : q = [Push("pushing", c, NoOne) EXCEPT !.msgs = {m}]
  OBVIOUS
<1>3. q \in Request /\ q.at = "pushing" /\ q.id = c
  BY <1>a DEF Push, Idle, Request, Steps, Null
<1>4. RequestOK(q, conversations) /\ Known(q, conversations, seats, members)
  BY <1>1, <1>3 DEF RequestOK, Known, Checked, Opening, Making
<1>5. UNCHANGED <<conversations, seats, members>>
  BY DEF StoreMessage
<1> QED BY <1>2, <1>a, <1>3, <1>4, <1>5, AskStep

LEMMA InvStep == Inv /\ [Next]_vars => Inv'
<1> SUFFICES ASSUME Inv, [Next]_vars PROVE Inv'
  OBVIOUS
<1>1. ASSUME NEW r \in Requests, Stores(r) PROVE Inv'
  BY <1>1, InsertConversationInv, MarkDeletedInv, SaveUpdateInv, SeatInv, RemoveSeatInv,
     StoreMessageInv
     DEF Stores, CloseConversation, SaveDeleted
<1>2. ASSUME NEW u \in Users, Disconnect(u) PROVE Inv'
  <2>1. UNCHANGED <<conversations, seats, members>> /\ Kept({})
    BY <1>2, SocketKeeps, UnchangedKept
  <2>2. ASSUME NEW p \in Requests
        PROVE  /\ requests'[p] \in Request
               /\ RequestOK(requests'[p], conversations')
               /\ Known(requests'[p], conversations', seats', members')
    <3>1. requests'[p] = Idle \/ requests'[p] = requests[p]
      BY <1>2 DEF Disconnect
    <3> QED BY <2>1, <3>1, IdleKnown, Still
  <2>3. requests' \in [Requests -> Request] /\ RequestsInv'
    BY <1>2, <2>2 DEF Disconnect, RequestsInv
  <2> QED BY <2>1, <2>3, InvFrom DEF Inv, TypeOK
<1>3. ASSUME NEW u \in Users, JoinClass(u) \/ LeaveClass(u) PROVE Inv'
  <2>1. UNCHANGED <<conversations, seats>> /\ Kept(ClassConversations) /\ OvertakeClass
    BY <1>3, ClassKeeps, UnchangedKept DEF JoinClass, LeaveClass
  <2> QED BY <2>1, ClassWritten, InvFrom DEF Inv, TypeOK
<1>4. ASSUME NEW u \in Users, NEW c \in Ids, SeatPupil(u, c) PROVE Inv'
  <2>1. /\ seats' = [seats EXCEPT ![c] = seats[c] \cup {u}] /\ conversations' = conversations
        /\ c \in ClassConversations /\ OvertakeClass
    BY <1>4 DEF SeatPupil
  <2>2. conversations[c] # NoOne /\ seats[c] \cup {u} \in SUBSET Users
    BY <2>1 DEF ClassConversations, Inv, TypeOK
  <2>3. seats' \in [Ids -> SUBSET Users] /\ Kept(ClassConversations)
    BY <2>1, <2>2, SeatWritten
  <2> QED BY <2>1, <2>3, ClassWritten, InvFrom DEF Inv, TypeOK
<1>5. CASE UNCHANGED <<conversations, seats, members, requests>>
  <2>1. Kept({}) /\ requests' \in [Requests -> Request]
    BY <1>5, UnchangedKept DEF Inv, TypeOK
  <2>2. RequestsInv'
    BY <1>5, <2>1, Still DEF RequestsInv
  <2> QED BY <1>5, <2>1, <2>2, InvFrom DEF Inv, TypeOK
<1>6. ASSUME NEW u \in Users, NEW c \in Ids, LeaveConversation(u, c) PROVE Inv'
  BY <1>5, <1>6 DEF LeaveConversation, rowVars
<1> QED BY <1>1, <1>2, <1>3, <1>4, <1>5, <1>6, Kinds, AsksInv, BeginsInv, EndsInv, OpenInv
        DEF vars

LEMMA Invariant == Spec => []Inv
BY InvInit, InvStep, PTL DEF Spec

\* Type correctness of conversations, seats, rooms, clients and requests.
THEOREM ConversationsType == Spec => []TypeOK
<1>1. Inv => TypeOK
  BY DEF Inv
<1> QED BY <1>1, Invariant, PTL

\* What a handler has found makes what it writes allowed, as long as nobody else writes.
LEMMA KnownAllowed ==
  ASSUME Inv, NEW r \in Requests
  PROVE  Allowed(requests[r]) \/ requests[r].overtaken
<1>1. RequestOK(requests[r], conversations) /\ Known(requests[r], conversations, seats, members)
  BY RequestFacts
<1> QED BY <1>1 DEF RequestOK, Known, Entitled, Allowed, Checked, Live, LiveIn, Seated, Group,
                    Owns, HasClassAccess, MayCreate, Opening, Making

\* Sending, adding, removing, deleting, renaming and joining a room go by checks that
\* still hold, unless overtaken.
THEOREM StaleWritesNeedOverlap == Spec => StaleWriteNeedsOverlap
<1>1. Inv /\ [Next]_vars =>
        [\A r \in Requests :
           /\ requests'[r].at # requests[r].at
           /\ <<conversations, seats, messages, rooms>>'
                # <<conversations, seats, messages, rooms>>
           => Allowed(requests[r]) \/ requests[r].overtaken
        ]_vars
  BY KnownAllowed
<1> QED BY <1>1, Invariant, PTL DEF Spec, StaleWriteNeedsOverlap

-----------------------------------------------------------------------------
(* What a step does to a conversation, its seats and messages, a client and *)
(* a handler                                                                *)

LEMMA LostGrows ==
  ASSUME [Next]_vars
  PROVE  lost \subseteq lost'
<1>1. \A r \in Requests : Fail(r) => lost \subseteq lost'
  BY DEF Fail
<1> QED BY <1>1, Kinds, AsksKeep, StoresKeep, ShowsKeep, OpenKeeps, ClassKeeps, SocketKeeps
        DEF vars

LEMMA ConversationsWritten ==
  ASSUME [Next]_vars, conversations' # conversations
  PROVE  \E r \in Requests :
           InsertConversation(r) \/ CloseConversation(r) \/ SaveDeleted(r) \/ SaveUpdate(r)
<1>1. ASSUME NEW r \in Requests, Stores(r)
      PROVE  InsertConversation(r) \/ CloseConversation(r) \/ SaveDeleted(r) \/ SaveUpdate(r)
  BY <1>1 DEF Stores, SeatParticipants, StoreMessage, InsertSeat, RemoveSeat
<1> QED BY <1>1, Kinds, AsksKeep, ShowsKeep, OpenKeeps, FailKeeps, ClassKeeps, SocketKeeps
        DEF vars

LEMMA ConversationStays ==
  ASSUME Inv, [Next]_vars, NEW c \in Ids, conversations[c] # NoOne
  PROVE  /\ conversations'[c].group = conversations[c].group
         /\ conversations'[c].class = conversations[c].class
         /\ Live(c)' => Live(c)
<1>1. conversations[c] \in Conversation
  BY DEF Inv, TypeOK, Null
<1>2. CASE conversations' = conversations
  BY <1>2 DEF Live
<1>3. ASSUME NEW r \in Requests, InsertConversation(r)
      PROVE  conversations'[c] = conversations[c]
  BY <1>3 DEF InsertConversation, Inv, TypeOK
<1>4. ASSUME NEW r \in Requests, CloseConversation(r) \/ SaveDeleted(r) \/ SaveUpdate(r)
      PROVE  /\ conversations'[c].group = conversations[c].group
             /\ conversations'[c].class = conversations[c].class
             /\ Live(c)' => Live(c)
  <2>1. PICK d : \/ conversations' = [conversations EXCEPT ![d].live = FALSE]
                 \/ conversations' = [conversations EXCEPT ![d].renamed = TRUE]
    BY <1>4 DEF CloseConversation, SaveDeleted, MarkDeleted, SaveUpdate
  <2>2. \/ conversations'[c] = conversations[c]
        \/ conversations'[c] = [conversations[c] EXCEPT !.live = FALSE]
        \/ conversations'[c] = [conversations[c] EXCEPT !.renamed = TRUE]
    BY <2>1 DEF Inv, TypeOK
  <2> QED BY <1>1, <2>2 DEF Conversation, Live
<1> QED BY <1>2, <1>3, <1>4, ConversationsWritten DEF Live

\* A conversation is live from its creation, when nobody sits in it yet.
LEMMA LiveMade ==
  ASSUME Inv, [Next]_vars, NEW c \in Ids, ~Live(c), Live(c)'
  PROVE  /\ conversations[c] = NoOne
         /\ seats' = seats /\ seats[c] = {}
         /\ \E r \in Requests : requests'[r].id = c /\ requests'[r].at \in {"listing", "seating"}
<1>1. conversations[c] = NoOne
  BY ConversationStays
<1>2. PICK r \in Requests :
        InsertConversation(r) \/ CloseConversation(r) \/ SaveDeleted(r) \/ SaveUpdate(r)
  BY ConversationsWritten DEF Live
<1>3. ASSUME CloseConversation(r) \/ SaveDeleted(r) \/ SaveUpdate(r) PROVE FALSE
  <2>1. requests[r].id \in Ids /\ conversations[requests[r].id] # NoOne
    BY <1>3, RequestFacts
       DEF CloseConversation, SaveDeleted, MarkDeleted, SaveUpdate, At, RequestOK, Opening
  <2>2. conversations'[c] = conversations[c]
    BY <1>1, <1>3, <2>1
       DEF CloseConversation, SaveDeleted, MarkDeleted, SaveUpdate, Inv, TypeOK
  <2> QED BY <1>1, <2>2 DEF Live
<1>4. InsertConversation(r)
  BY <1>2, <1>3
<1>5. PICK d \in Ids :
        /\ \A e \in Ids \ {d} : conversations'[e] = conversations[e]
        /\ requests' = [requests EXCEPT
             ![r].at = IF requests[r].call.class THEN "listing" ELSE "seating",
             ![r].id = d,
             ![r].users = IF requests[r].call.class THEN {}
                          ELSE {requests[r].call.user} \cup requests[r].call.others]
  BY <1>4 DEF InsertConversation, Inv, TypeOK
<1>6. c = d
  BY <1>1, <1>5 DEF Live
<1>7. requests'[r].id = c /\ requests'[r].at \in {"listing", "seating"}
  BY <1>5, <1>6, RequestFacts DEF Request, Inv, TypeOK
<1> QED BY <1>1, <1>4, <1>7 DEF InsertConversation, Inv, NothingYet

LEMMA SeatsWritten ==
  ASSUME Inv, [Next]_vars, NEW c \in Ids, seats'[c] # seats[c]
  PROVE  \/ \E r \in Requests :
              /\ SeatParticipants(r) \/ InsertSeat(r) \/ RemoveSeat(r)
              /\ requests[r].id = c
         \/ \E u \in Users : SeatPupil(u, c)
<1>1. ASSUME NEW r \in Requests, Stores(r)
      PROVE  /\ SeatParticipants(r) \/ InsertSeat(r) \/ RemoveSeat(r)
             /\ requests[r].id = c
  <2>1. SeatParticipants(r) \/ InsertSeat(r) \/ RemoveSeat(r)
    BY <1>1 DEF Stores, InsertConversation, StoreMessage, CloseConversation, SaveDeleted,
                MarkDeleted, SaveUpdate
  <2> QED BY <2>1 DEF SeatParticipants, InsertSeat, RemoveSeat, Inv, TypeOK
<1>2. ASSUME NEW u \in Users, NEW d \in Ids, SeatPupil(u, d) PROVE SeatPupil(u, c)
  <2>1. c = d
    BY <1>2 DEF SeatPupil, Inv, TypeOK
  <2> QED BY <1>2, <2>1
<1>3. ASSUME NEW u \in Users, JoinClass(u) \/ LeaveClass(u) PROVE FALSE
  BY <1>3 DEF JoinClass, LeaveClass
<1> QED BY <1>1, <1>2, <1>3, Kinds, AsksKeep, ShowsKeep, OpenKeeps, FailKeeps, SocketKeeps
        DEF vars

LEMMA MessageMade ==
  ASSUME Inv, [Next]_vars, NEW c \in Ids, NEW m \in Msgs, messages[m] # c, messages'[m] = c
  PROVE  \E r \in Requests :
           requests'[r].at = "pushing" /\ requests'[r].id = c /\ m \in requests'[r].msgs
<1>1. PICK r \in Requests : StoreMessage(r)
  BY Kinds, AsksKeep, StoresKeep, ShowsKeep, OpenKeeps, FailKeeps, ClassKeeps, SocketKeeps
     DEF vars
<1>2. PICK n \in Msgs :
        /\ messages' = [messages EXCEPT ![n] = requests[r].id]
        /\ requests' = [requests EXCEPT
             ![r] = [Push("pushing", requests[r].id, NoOne) EXCEPT !.msgs = {n}]]
  BY <1>1 DEF StoreMessage
<1>3. n = m /\ requests[r].id = c
  BY <1>2 DEF Inv, TypeOK
<1>4. requests'[r] = [Push("pushing", requests[r].id, NoOne) EXCEPT !.msgs = {n}]
  BY <1>2 DEF Inv, TypeOK
<1> QED BY <1>3, <1>4 DEF Push, Idle

\* What is shown stays, until the conversation is closed.
LEMMA ViewsGrow ==
  ASSUME Inv, [Next]_vars, NEW u \in Users, NEW c \in Ids, views'[u][c] # NoOne
  PROVE  /\ views[u][c] # NoOne => views[u][c] \subseteq views'[u][c]
         /\ views[u][c] = NoOne =>
              \E r \in Requests : /\ requests'[r].user = u /\ requests'[r].id = c
                                  /\ requests'[r].at \in {"reading", "paging"}
<1> DEFINE Good ==
      /\ views[u][c] # NoOne => views[u][c] \subseteq views'[u][c]
      /\ views[u][c] = NoOne =>
           \E r \in Requests : /\ requests'[r].user = u /\ requests'[r].id = c
                               /\ requests'[r].at \in {"reading", "paging"}
<1>0. views \in [Users -> [Ids -> Null(SUBSET Msgs)]]
  BY DEF Inv, TypeOK
<1>1. ASSUME views'[u][c] = views[u][c] PROVE Good
  BY <1>1
<1>2. ASSUME NEW r \in Requests, EmitMessage(r) \/ Answer(r) PROVE Good
  <2>1. requests[r].id \in Ids
    BY <1>2, RequestFacts DEF EmitMessage, Answer, At, RequestOK, Opening
  <2>2. CASE EmitMessage(r)
    <3>1. views'[u][c] = IF /\ c = requests[r].id
                            /\ u \in requests[r].users \cup rooms[requests[r].id]
                            /\ views[u][c] # NoOne
                         THEN views[u][c] \cup requests[r].msgs ELSE views[u][c]
      BY <1>0, <2>1, <2>2 DEF EmitMessage, Show
    <3> QED BY <3>1
  <2>3. CASE Answer(r)
    <3>1. views'[u][c] = IF /\ c = requests[r].id /\ u \in {requests[r].user}
                            /\ views[u][c] # NoOne
                         THEN views[u][c] \cup requests[r].msgs ELSE views[u][c]
      BY <1>0, <2>1, <2>3 DEF Answer, Show
    <3> QED BY <3>1
  <2> QED BY <1>2, <2>2, <2>3
<1>3. ASSUME NEW r \in Requests, TellRemoved(r) PROVE Good
  <2>1. views' = [views EXCEPT ![requests[r].target] = [d \in Ids |-> NoOne]]
    BY <1>3 DEF TellRemoved
  <2>2. views'[u][c] = views[u][c]
    BY <1>0, <2>1
  <2> QED BY <1>1, <2>2
<1>4. ASSUME NEW r \in Requests, AnnounceDeleted(r) PROVE Good
  <2>1. views' = [w \in Users |-> [views[w] EXCEPT ![requests[r].id] =
                    IF w \in seats[requests[r].id] THEN NoOne ELSE @]]
    BY <1>4 DEF AnnounceDeleted
  <2>2. views'[u][c] = views[u][c]
    BY <1>0, <2>1
  <2> QED BY <1>1, <2>2
<1>5. ASSUME NEW r \in Requests, Refuse(r) PROVE Good
  <2>1. PICK w, d : views' = [views EXCEPT ![w][d] = NoOne] \/ views' = views
    BY <1>5 DEF Refuse
  <2>2. views'[u][c] = views[u][c]
    BY <1>0, <2>1
  <2> QED BY <1>1, <2>2
<1>6. ASSUME NEW w \in Users, Disconnect(w) PROVE Good
  <2>1. views' = [views EXCEPT ![w] = [d \in Ids |-> NoOne]]
    BY <1>6 DEF Disconnect
  <2>2. views'[u][c] = views[u][c]
    BY <1>0, <2>1
  <2> QED BY <1>1, <2>2
<1>7. ASSUME NEW r \in Requests, NEW w \in Users, NEW d \in Ids,
             NEW step \in {"reading", "paging"}, Open(r, w, d, step)
      PROVE  Good
  <2>1. views' = [views EXCEPT ![w][d] = IF @ = NoOne THEN {} ELSE @]
    BY <1>7 DEF Open
  <2>2. CASE w = u /\ d = c
    <3>1. requests'[r] = [Idle EXCEPT !.at = step, !.user = u, !.id = c]
      BY <1>7, <2>2 DEF Open, Start, Inv, TypeOK
    <3>2. requests'[r].user = u /\ requests'[r].id = c
          /\ requests'[r].at \in {"reading", "paging"}
      BY <3>1 DEF Idle
    <3>3. views[u][c] # NoOne => views'[u][c] = views[u][c]
      BY <1>0, <2>1, <2>2
    <3> QED BY <3>2, <3>3
  <2>3. CASE w # u \/ d # c
    <3>1. views'[u][c] = views[u][c]
      BY <1>0, <2>1, <2>3
    <3> QED BY <1>1, <3>1
  <2> QED BY <2>2, <2>3
<1>8. ASSUME NEW r \in Requests, Shows(r) PROVE Good
  <2>1. JoinRoom(r) => views' = views
    BY <1>8, ShowsKeep
  <2> QED BY <1>1, <1>2, <1>3, <1>4, <1>5, <1>8, <2>1 DEF Shows
<1> HIDE DEF Good
<1>9. ASSUME views' = views PROVE Good
  BY <1>1, <1>9
<1>10. Good
  BY <1>6, <1>7, <1>8, <1>9, Kinds, AsksKeep, StoresKeep, FailKeeps, ClassKeeps
     DEF vars, LeaveConversation
<1> QED BY <1>10 DEF Good

Same(r) ==
  /\ requests'[r].at = requests[r].at /\ requests'[r].user = requests[r].user
  /\ requests'[r].id = requests[r].id /\ requests'[r].target = requests[r].target
  /\ requests'[r].call = requests[r].call /\ requests'[r].users = requests[r].users
  /\ requests'[r].msgs = requests[r].msgs

LEMMA OvertakenSame ==
  ASSUME Inv, NEW r \in Requests, NEW C,
         requests'[r] = requests[r] \/ requests'[r] = Overtaken(r, C)
  PROVE  Same(r)
BY RequestFacts DEF Overtaken, Same, Request

\* Handler r takes a step of its own.
Acts(r) ==
  \/ Asks(r) \/ Begins(r) \/ Stores(r) \/ Shows(r) \/ Fail(r)
  \/ \E u \in Users, c \in Ids, step \in {"reading", "paging"} : Open(r, u, c, step)

\* A handler that does not act itself stays where it is, or is about to remove a seat
\* that is gone, or to join a socket that is.
LEMMA ActsOrSame ==
  ASSUME Inv, [Next]_vars, NEW p \in Requests
  PROVE  Acts(p) \/ Same(p) \/ requests[p].at \in {"removing", "entering", "joining"}
<1> DEFINE Good == Same(p) \/ requests[p].at \in {"removing", "entering", "joining"}
<1>1. ASSUME requests'[p] = requests[p] PROVE Good
  BY <1>1, OvertakenSame
<1>2. ASSUME NEW r \in Requests, r # p,
             \/ Asks(r) \/ Begins(r) \/ Shows(r) \/ Fail(r)
             \/ \E u \in Users, c \in Ids, step \in {"reading", "paging"} : Open(r, u, c, step)
      PROVE  Good
  <2>1. Asks(r) => requests'[p] = requests[p]
    BY <1>2 DEF Asks, AdmitCreator, SearchClassConversation, ListParticipants,
           CheckConversation, ReadAudience, FindSeat, CountSeats, AdmitDelete, AdmitUpdate,
           ReadMessages, AdmitJoin, GoTo, Inv, TypeOK
  <2>2. Begins(r) => requests'[p] = requests[p]
    BY <1>2 DEF Begins, CreateConversation, SendMessage, AddParticipant, RemoveParticipant,
           DeleteConversation, UpdateConversation, JoinConversation, Start, Inv, TypeOK
  <2>3. Shows(r) \/ Fail(r) => requests'[p] = requests[p]
    BY <1>2 DEF Shows, EmitMessage, TellRemoved, AnnounceDeleted, Answer, JoinRoom, Refuse,
           Fail, Finish, Inv, TypeOK
  <2>4. \A u \in Users, c \in Ids, step \in {"reading", "paging"} :
          Open(r, u, c, step) => requests'[p] = requests[p]
    BY <1>2 DEF Open, Start, Inv, TypeOK
  <2> QED BY <1>1, <1>2, <2>1, <2>2, <2>3, <2>4
<1>3. ASSUME NEW r \in Requests, r # p, Stores(r) PROVE Good
  <2>1. InsertConversation(r) \/ StoreMessage(r) \/ SaveUpdate(r) =>
          requests'[p] = requests[p]
    BY <1>3 DEF InsertConversation, StoreMessage, SaveUpdate, Finish, Inv, TypeOK
  <2>2. SeatParticipants(r) \/ InsertSeat(r) \/ CloseConversation(r) \/ SaveDeleted(r) =>
          \E C : requests'[p] = Overtaken(p, C)
    BY <1>3 DEF SeatParticipants, InsertSeat, CloseConversation, SaveDeleted, MarkDeleted,
                WriteAs
  <2>3. RemoveSeat(r) =>
          requests[p].at = "removing" \/ \E C : requests'[p] = Overtaken(p, C)
    BY <1>3 DEF RemoveSeat, At
  <2> QED BY <1>1, <1>3, <2>1, <2>2, <2>3, OvertakenSame DEF Stores
<1>4. ASSUME NEW u \in Users, Disconnect(u) PROVE Good
  <2>1. requests'[p] = requests[p] \/ requests[p].at \in {"entering", "joining"}
    BY <1>4 DEF Disconnect
  <2> QED BY <1>1, <2>1
<1>5. ASSUME OvertakeClass PROVE Good
  BY <1>5, OvertakenSame DEF OvertakeClass
<1>6. ASSUME UNCHANGED requests PROVE Good
  BY <1>1, <1>6
<1> HIDE DEF Good
<1>7. Acts(p) \/ Good
  BY <1>2, <1>3, <1>4, <1>5, <1>6, Kinds, ClassKeeps DEF Acts, vars, LeaveConversation
<1> QED BY <1>7 DEF Good

\* A handler that has written goes on with the step it is at, or fails.
LEMMA HalfwayActs ==
  ASSUME NEW r \in Requests, Acts(r), requests[r].at \in Halfway
  PROVE  \/ Fail(r)
         \/ requests[r].at = "listing" /\ ListParticipants(r)
         \/ requests[r].at = "seating" /\ SeatParticipants(r)
         \/ requests[r].at = "pushing" /\ ReadAudience(r)
         \/ requests[r].at = "emitting" /\ EmitMessage(r)
         \/ requests[r].at = "counting" /\ CountSeats(r)
         \/ requests[r].at = "closing" /\ CloseConversation(r)
         \/ requests[r].at = "telling" /\ TellRemoved(r)
         \/ requests[r].at = "announcing" /\ AnnounceDeleted(r)
<1>1. requests[r] # Idle
  BY DEF Idle, Halfway
<1>2. ~Begins(r) /\ \A u \in Users, c \in Ids, step \in {"reading", "paging"} : ~Open(r, u, c, step)
  BY <1>1 DEF Begins, CreateConversation, SendMessage, AddParticipant, RemoveParticipant,
         DeleteConversation, UpdateConversation, JoinConversation, Open, Start
<1>3. CASE Asks(r)
  BY <1>3 DEF Asks, AdmitCreator, SearchClassConversation, ListParticipants, CheckConversation,
       ReadAudience, FindSeat, CountSeats, AdmitDelete, AdmitUpdate, ReadMessages, AdmitJoin,
       At, Halfway
<1>4. CASE Stores(r)
  BY <1>4 DEF Stores, InsertConversation, SeatParticipants, StoreMessage, InsertSeat, RemoveSeat,
       CloseConversation, SaveDeleted, MarkDeleted, SaveUpdate, At, Halfway
<1>5. CASE Shows(r)
  BY <1>5 DEF Shows, EmitMessage, TellRemoved, AnnounceDeleted, Answer, JoinRoom, Refuse,
       At, Halfway
<1> QED BY <1>2, <1>3, <1>4, <1>5 DEF Acts

\* What the next step of a handler leaves it with.
LEMMA HalfwayGoesOn ==
  ASSUME Inv, NEW r \in Requests
  PROVE  /\ ListParticipants(r) =>
              requests'[r].at = "seating" /\ requests'[r].id = requests[r].id
         /\ CountSeats(r) =>
              /\ requests'[r].at =
                   IF seats[requests[r].id] = {} THEN "closing" ELSE "telling"
              /\ requests'[r].id = requests[r].id
              /\ requests'[r].target = requests[r].target
         /\ CloseConversation(r) => \A c \in Ids : c = requests[r].id => ~Live(c)'
         /\ Fail(r) => requests[r].id \in lost'
<1>1. requests[r] \in Request
  BY RequestFacts
<1>2. ASSUME ListParticipants(r)
      PROVE  requests'[r].at = "seating" /\ requests'[r].id = requests[r].id
  BY <1>1, <1>2 DEF ListParticipants, Inv, TypeOK, Request
<1>3. ASSUME CountSeats(r)
      PROVE  /\ requests'[r].at =
                   IF seats[requests[r].id] = {} THEN "closing" ELSE "telling"
             /\ requests'[r].id = requests[r].id
             /\ requests'[r].target = requests[r].target
  BY <1>1, <1>3 DEF CountSeats, GoTo, Inv, TypeOK, Request
<1>4. ASSUME CloseConversation(r), NEW c \in Ids, c = requests[r].id PROVE ~Live(c)'
  <2>1. conversations[c] # NoOne
    BY <1>4, RequestFacts DEF CloseConversation, MarkDeleted, At, RequestOK, Opening
  <2>2. conversations[c] \in Conversation
    BY <2>1 DEF Inv, TypeOK, Null
  <2>3. conversations'[c] = [conversations[c] EXCEPT !.live = FALSE]
    BY <1>4 DEF CloseConversation, MarkDeleted, Inv, TypeOK
  <2> QED BY <2>2, <2>3 DEF Live, Conversation
<1> QED BY <1>2, <1>3, <1>4 DEF Fail

LEMMA RemoveSeatGoesOn ==
  ASSUME Inv, NEW r \in Requests, RemoveSeat(r)
  PROVE  /\ requests'[r].at = "counting" /\ requests'[r].id = requests[r].id
         /\ requests'[r].target = requests[r].target
BY DEF RemoveSeat, Push, Idle

LEMMA NobodysStep ==
  ASSUME Inv, NobodysIsDeleted, [Next]_vars
  PROVE  NobodysIsDeleted'
<1> SUFFICES ASSUME NEW c \in Ids, c \notin lost', Live(c)', seats'[c] = {}
             PROVE  \E r \in Requests :
                      /\ requests'[r].id = c
                      /\ requests'[r].at \in {"listing", "seating", "counting", "closing"}
  BY DEF NobodysIsDeleted
<1>1. c \notin lost
  BY LostGrows
<1>2. CASE ~Live(c)
  BY <1>2, LiveMade
<1>3. CASE seats[c] # {}
  <2>1. ASSUME NEW u \in Users, SeatPupil(u, c) PROVE FALSE
    BY <2>1 DEF SeatPupil, Inv, TypeOK
  <2>2. ASSUME NEW r \in Requests, SeatParticipants(r) \/ InsertSeat(r), requests[r].id = c
        PROVE  FALSE
    BY <1>3, <2>2 DEF SeatParticipants, InsertSeat, Inv, TypeOK
  <2>3. PICK r \in Requests : RemoveSeat(r) /\ requests[r].id = c
    BY <1>3, <2>1, <2>2, SeatsWritten
  <2> QED BY <2>3, RemoveSeatGoesOn
<1>4. CASE Live(c) /\ seats[c] = {}
  <2>1. PICK r \in Requests :
          requests[r].id = c /\ requests[r].at \in {"listing", "seating", "counting", "closing"}
    BY <1>1, <1>4 DEF NobodysIsDeleted
  <2>2. CASE Same(r)
    BY <2>1, <2>2 DEF Same
  <2>3. CASE Acts(r)
    <3>1. ASSUME requests[r].at = "seating", SeatParticipants(r) PROVE FALSE
      <4>1. PICK u : u \in requests[r].users
        BY <3>1, RequestFacts DEF RequestOK
      <4>2. seats'[c] = seats[c] \cup requests[r].users
        BY <2>1, <3>1 DEF SeatParticipants, Inv, TypeOK
      <4> QED BY <4>1, <4>2
    <3>2. ~CloseConversation(r) /\ ~Fail(r)
      BY <2>1, HalfwayGoesOn
    <3>3. \/ requests[r].at = "listing" /\ ListParticipants(r)
          \/ requests[r].at = "counting" /\ CountSeats(r)
      BY <2>1, <2>3, <3>1, <3>2, HalfwayActs DEF Halfway
    <3>4. requests'[r].id = c /\ requests'[r].at \in {"seating", "closing"}
      BY <1>4, <2>1, <3>3, HalfwayGoesOn
    <3> QED BY <3>4
  <2> QED BY <2>1, <2>2, <2>3, ActsOrSame
<1> QED BY <1>2, <1>3, <1>4

\* A conversation that everybody has left is deleted, unless a handler that was to
\* seat somebody or to delete it failed.
THEOREM NobodysConversationGoes == Spec => []NobodysIsDeleted
<1>1. Init => NobodysIsDeleted
  BY DEF Init, NobodysIsDeleted, Live
<1> QED BY <1>1, NobodysStep, Invariant, PTL DEF Spec

LEMMA LeavingGoesOn ==
  ASSUME Inv, [Next]_vars, NEW u \in Users, NEW c \in Ids \ lost', Live(c)',
         views'[u][c] # NoOne, Leaving(u, c)
  PROVE  Leaving(u, c)'
<1>1. PICK r \in Requests :
        /\ requests[r].at \in {"counting", "closing", "telling"}
        /\ requests[r].id = c /\ requests[r].target = u
  BY DEF Leaving
<1>2. CASE Same(r)
  BY <1>1, <1>2 DEF Same, Leaving
<1>3. CASE Acts(r)
  <2>1. ~CloseConversation(r) /\ ~Fail(r)
    BY <1>1, HalfwayGoesOn
  <2>2. ASSUME TellRemoved(r) PROVE FALSE
    <3>1. views' = [views EXCEPT ![u] = [d \in Ids |-> NoOne]]
      BY <1>1, <2>2 DEF TellRemoved
    <3> QED BY <3>1 DEF Inv, TypeOK
  <2>3. CountSeats(r)
    BY <1>1, <1>3, <2>1, <2>2, HalfwayActs DEF Halfway
  <2> QED BY <1>1, <2>3, HalfwayGoesOn DEF Leaving
<1> QED BY <1>1, <1>2, <1>3, ActsOrSame

LEMMA ToldStep ==
  ASSUME Inv, RemovedIsTold, [Next]_vars
  PROVE  RemovedIsTold'
<1> SUFFICES ASSUME NEW u \in Users, NEW c \in Ids \ lost', Live(c)',
                    views'[u][c] # NoOne, u \notin seats'[c]
             PROVE  Leaving(u, c)'
  BY DEF RemovedIsTold, Seated
<1>1. c \notin lost
  BY LostGrows
<1>2. views[u][c] # NoOne \/ Seated(u, c)
  BY ViewsStep DEF ViewsOK
<1>3. CASE ~Live(c)
  <2>1. conversations[c] = NoOne
    BY <1>3, LiveMade
  <2> QED BY <1>2, <2>1 DEF Inv, NothingYet, Seated
<1>4. CASE u \in seats[c]
  <2>1. ASSUME NEW v \in Users, SeatPupil(v, c) PROVE FALSE
    BY <1>4, <2>1 DEF SeatPupil, Inv, TypeOK
  <2>2. ASSUME NEW r \in Requests, SeatParticipants(r) \/ InsertSeat(r), requests[r].id = c
        PROVE  FALSE
    BY <1>4, <2>2 DEF SeatParticipants, InsertSeat, Inv, TypeOK
  <2>3. PICK r \in Requests : RemoveSeat(r) /\ requests[r].id = c
    BY <1>4, <2>1, <2>2, SeatsWritten
  <2>4. seats'[c] = seats[c] \ {requests[r].target}
    BY <2>3 DEF RemoveSeat, Inv, TypeOK
  <2>5. requests[r].target = u
    BY <1>4, <2>4
  <2> QED BY <2>3, <2>5, RemoveSeatGoesOn DEF Leaving
<1>5. CASE Live(c) /\ u \notin seats[c]
  <2>1. Leaving(u, c)
    BY <1>1, <1>2, <1>5 DEF RemovedIsTold, Seated
  <2> QED BY <2>1, LeavingGoesOn
<1> QED BY <1>3, <1>4, <1>5

\* Whoever has been removed from a conversation its client shows is told so, unless
\* the conversation is gone or the handler failed.
THEOREM RemovedHearOfIt == Spec => []RemovedIsTold
<1>1. Init => RemovedIsTold
  BY DEF Init, RemovedIsTold
<1> QED BY <1>1, ToldStep, Invariant, PTL DEF Spec

\* A handler that will bring m to the client of u.
Bears(r, u, c, m) ==
  /\ requests[r].id = c
  /\ \/ At(r, "pushing") /\ m \in requests[r].msgs
     \/ At(r, "emitting") /\ m \in requests[r].msgs /\ u \in requests[r].users
     \/ requests[r].user = u /\ requests[r].at \in {"reading", "paging"}
     \/ /\ requests[r].user = u /\ requests[r].at \in {"showing", "loading"}
        /\ m \in requests[r].msgs

\* A handler that reads for a client goes on reading, answers or refuses.
LEMMA ReaderActs ==
  ASSUME NEW r \in Requests, Acts(r),
         requests[r].at \in {"reading", "paging", "showing", "loading"}
  PROVE  \/ requests[r].at \in {"reading", "paging"} /\ ReadMessages(r)
         \/ requests[r].at \in {"showing", "loading"} /\ Answer(r)
         \/ Refuse(r)
<1>1. requests[r] # Idle
  BY DEF Idle
<1>2. ~Begins(r) /\ \A u \in Users, c \in Ids, step \in {"reading", "paging"} : ~Open(r, u, c, step)
  BY <1>1 DEF Begins, CreateConversation, SendMessage, AddParticipant, RemoveParticipant,
         DeleteConversation, UpdateConversation, JoinConversation, Open, Start
<1>3. CASE Asks(r)
  BY <1>3 DEF Asks, AdmitCreator, SearchClassConversation, ListParticipants, CheckConversation,
       ReadAudience, FindSeat, CountSeats, AdmitDelete, AdmitUpdate, ReadMessages, AdmitJoin, At
<1>4. CASE Stores(r)
  BY <1>4 DEF Stores, InsertConversation, SeatParticipants, StoreMessage, InsertSeat, RemoveSeat,
       CloseConversation, SaveDeleted, MarkDeleted, SaveUpdate, At
<1>5. CASE Shows(r)
  BY <1>5 DEF Shows, EmitMessage, TellRemoved, AnnounceDeleted, Answer, JoinRoom, At
<1>6. CASE Fail(r)
  BY <1>6 DEF Fail, Halfway
<1> QED BY <1>2, <1>3, <1>4, <1>5, <1>6 DEF Acts

\* What is sent or answered gets to the clients it is for that have c open.
LEMMA Arrives ==
  ASSUME Inv, NEW r \in Requests, NEW u \in Users, NEW c \in Ids, c = requests[r].id,
         views[u][c] # NoOne
  PROVE  /\ EmitMessage(r) /\ u \in requests[r].users => requests[r].msgs \subseteq views'[u][c]
         /\ Answer(r) /\ u = requests[r].user => requests[r].msgs \subseteq views'[u][c]
         /\ Refuse(r) /\ u = requests[r].user
              /\ requests[r].at \in {"reading", "paging", "showing", "loading"} =>
              views'[u][c] = NoOne
<1>1. views \in [Users -> [Ids -> Null(SUBSET Msgs)]]
  BY DEF Inv, TypeOK
<1>2. ASSUME EmitMessage(r), u \in requests[r].users
      PROVE  views'[u][c] = views[u][c] \cup requests[r].msgs
  BY <1>1, <1>2 DEF EmitMessage, Show
<1>3. ASSUME Answer(r), u = requests[r].user
      PROVE  views'[u][c] = views[u][c] \cup requests[r].msgs
  BY <1>1, <1>3 DEF Answer, Show
<1>4. ASSUME Refuse(r), u = requests[r].user,
             requests[r].at \in {"reading", "paging", "showing", "loading"}
      PROVE  views'[u][c] = NoOne
  BY <1>1, <1>4 DEF Refuse
<1> QED BY <1>2, <1>3, <1>4

LEMMA BearsGoesOn ==
  ASSUME Inv, [Next]_vars, NEW r \in Requests, NEW u \in Users, NEW c \in Ids \ lost',
         NEW m \in Msgs, messages[m] = c, u \in seats[c], views[u][c] # NoOne,
         views'[u][c] # NoOne, m \notin views'[u][c], Bears(r, u, c, m)
  PROVE  Bears(r, u, c, m)'
<1>1. requests[r].id = c /\ requests[r] \in Request
  BY RequestFacts DEF Bears
<1>2. CASE Same(r)
  BY <1>2 DEF Same, Bears, At
<1>3. CASE Acts(r) /\ requests[r].at \in {"pushing", "emitting"}
  <2>1. ~Fail(r)
    BY <1>1, HalfwayGoesOn
  <2>2. ~(requests[r].at = "emitting" /\ EmitMessage(r))
    BY <1>1, Arrives DEF Bears, At
  <2>3. ReadAudience(r) /\ requests[r].at = "pushing"
    BY <1>3, <2>1, <2>2, HalfwayActs DEF Halfway
  <2>4. seats[c] # {}
    OBVIOUS
  <2>5. requests'[r] = [requests[r] EXCEPT !.at = "emitting", !.users = seats[c]]
    BY <1>1, <2>3, <2>4 DEF ReadAudience, Inv, TypeOK
  <2>6. requests'[r].at = "emitting" /\ requests'[r].id = c /\ requests'[r].users = seats[c]
        /\ requests'[r].msgs = requests[r].msgs
    BY <1>1, <2>5 DEF Request
  <2> QED BY <2>3, <2>6 DEF Bears, At
<1>4. CASE Acts(r) /\ requests[r].at \in {"reading", "paging", "showing", "loading"}
  <2>1. requests[r].user = u
    BY <1>4 DEF Bears, At
  <2>2. ~Refuse(r) /\ ~(requests[r].at \in {"showing", "loading"} /\ Answer(r))
    BY <1>1, <1>4, <2>1, Arrives DEF Bears, At
  <2>3. ReadMessages(r)
    BY <1>4, <2>2, ReaderActs
  <2>4. requests' = [requests EXCEPT
          ![r].at = IF At(r, "reading") THEN "showing" ELSE "loading",
          ![r].msgs = MessagesOf(c)]
    BY <1>1, <2>3 DEF ReadMessages
  <2>5. /\ requests'[r].at \in {"showing", "loading"} /\ requests'[r].id = c
        /\ requests'[r].user = u /\ requests'[r].msgs = MessagesOf(c)
    BY <1>1, <2>1, <2>4 DEF Request, Inv, TypeOK
  <2>6. m \in MessagesOf(c)
    BY DEF MessagesOf
  <2> QED BY <2>5, <2>6 DEF Bears
<1>5. requests[r].at \in {"pushing", "emitting", "reading", "paging", "showing", "loading"}
  BY DEF Bears, At
<1> QED BY <1>2, <1>3, <1>4, <1>5, ActsOrSame

LEMMA MissedStep ==
  ASSUME Inv, RemovedIsTold, NothingMissed, [Next]_vars
  PROVE  NothingMissed'
<1> SUFFICES ASSUME NEW u \in Users, NEW c \in Ids \ lost', Live(c)', u \in seats'[c],
                    views'[u][c] # NoOne,
                    NEW m \in Msgs, messages'[m] = c, m \notin views'[u][c]
             PROVE  Leaving(u, c)' \/ \E r \in Requests : Bears(r, u, c, m)'
  BY DEF NothingMissed, Bears, Seated, MessagesOf
<1>1. c \notin lost
  BY LostGrows
<1>2. CASE ~Live(c)
  BY <1>2, LiveMade
<1>3. CASE messages[m] # c
  BY <1>3, MessageMade DEF Bears, At
<1>4. CASE views[u][c] = NoOne
  BY <1>4, ViewsGrow DEF Bears
<1>5. CASE Live(c) /\ messages[m] = c /\ views[u][c] # NoOne
  <2>1. m \notin views[u][c]
    BY <1>5, ViewsGrow
  <2>2. CASE Leaving(u, c)
    BY <2>2, LeavingGoesOn
  <2>3. CASE u \notin seats[c]
    BY <1>1, <1>5, <2>2, <2>3 DEF RemovedIsTold, Seated
  <2>4. CASE u \in seats[c] /\ ~Leaving(u, c)
    <3>1. PICK r \in Requests : Bears(r, u, c, m)
      BY <1>1, <1>5, <2>1, <2>4 DEF NothingMissed, MessagesOf, Seated, Bears
    <3> QED BY <1>5, <2>4, <3>1, BearsGoesOn
  <2> QED BY <2>2, <2>3, <2>4
<1> QED BY <1>2, <1>3, <1>4, <1>5

\* Every message of a conversation gets to each client that has it open and takes part,
\* or is on its way there.
THEOREM MessagesArrive == Spec => []NothingMissed
<1>1. Init => NothingMissed
  BY DEF Init, NothingMissed, Live
<1> QED BY <1>1, MissedStep, RemovedHearOfIt, Invariant, PTL DEF Spec

-----------------------------------------------------------------------------
(* Direct conversations                                                    *)

\* Handler r makes c a twin of another one, not having been alone, or not by creating
\* a conversation of two.
TwinsBy(r, c) ==
  /\ requests[r].id = c /\ requests'[r].at # requests[r].at
  /\ \/ At(r, "removing")
     \/ /\ At(r, "seating")
        /\ \/ requests[r].overtaken
           \/ \A v \in Users : requests[r].call.others # {v}

LEMMA TwinMade ==
  ASSUME Inv, [Next]_vars, NEW c \in Ids, NEW d \in Ids, c # d,
         Live(c), Live(d), ~Group(c), ~Group(d), ~conversations[c].class,
         seats'[c] = seats'[d], seats'[c] # seats[c]
  PROVE  \E r \in Requests : TwinsBy(r, c)
<1>1. ASSUME NEW u \in Users, SeatPupil(u, c) PROVE FALSE
  BY <1>1 DEF SeatPupil, ClassConversations
<1>2. ASSUME NEW r \in Requests, InsertSeat(r), requests[r].id = c PROVE FALSE
  BY <1>2, RequestFacts DEF InsertSeat, At, RequestOK, Group
<1>3. ASSUME NEW r \in Requests, RemoveSeat(r), requests[r].id = c PROVE TwinsBy(r, c)
  BY <1>3, RemoveSeatGoesOn DEF RemoveSeat, At, TwinsBy
<1>4. ASSUME NEW r \in Requests, SeatParticipants(r), requests[r].id = c,
             ~requests[r].overtaken, NEW v \in Users, requests[r].call.others = {v}
      PROVE  FALSE
  <2>1. PICK call : call = requests[r].call
    OBVIOUS
  <2>2. /\ requests[r].at = "seating" /\ ~call.class /\ ~call.group
        /\ requests[r].users = {call.user} \cup call.others
    BY <1>4, <2>1, RequestFacts DEF SeatParticipants, At, RequestOK, Group
  <2>3. Entitled(requests[r], conversations, seats, members)
    BY <1>4, <2>2, RequestFacts DEF Known, Checked
  <2>4. NoDirect(call.user, v, conversations, seats) /\ seats[c] = {}
    BY <1>4, <2>1, <2>2, <2>3 DEF Entitled, Making, Opening
  <2>5. seats' = [seats EXCEPT ![c] = seats[c] \cup requests[r].users]
    BY <1>4 DEF SeatParticipants
  <2>6. seats'[c] = {call.user, v} /\ seats'[d] = seats[d]
    BY <1>4, <2>1, <2>2, <2>4, <2>5 DEF Inv, TypeOK
  <2> QED BY <2>4, <2>6 DEF NoDirect, LiveIn, Live, Group
<1>5. ASSUME NEW r \in Requests, SeatParticipants(r), requests[r].id = c
      PROVE  TwinsBy(r, c)
  <2>1. requests'[r].at = "idle" /\ At(r, "seating")
    BY <1>5 DEF SeatParticipants, WriteAs, Idle
  <2> QED BY <1>4, <1>5, <2>1 DEF TwinsBy, At
<1> QED BY <1>1, <1>2, <1>3, <1>5, SeatsWritten

\* Two users get a second direct conversation only when two creations overlap, when it
\* was for more than the two, or when somebody is removed from one.
THEOREM SecondDirectNeedsOverlap == Spec => TwinsNeedOverlap
<1> DEFINE Made ==
      \A c, d \in Ids :
        c # d /\ ~Twins(c, d) /\ Twins(c, d)' =>
          \E r \in Requests :
            /\ requests[r].id \in {c, d} /\ requests'[r].at # requests[r].at
            /\ \/ At(r, "removing")
               \/ /\ At(r, "seating")
                  /\ \/ requests[r].overtaken
                     \/ \A v \in Users : requests[r].call.others # {v}
<1>1. ASSUME Inv, [Next]_vars PROVE Made
  <2> SUFFICES ASSUME NEW c \in Ids, NEW d \in Ids, c # d, ~Twins(c, d), Twins(c, d)'
               PROVE  \E r \in Requests : TwinsBy(r, c) \/ TwinsBy(r, d)
    BY DEF TwinsBy
  <2>1. /\ Live(c)' /\ Live(d)' /\ seats'[c] = seats'[d] /\ seats'[c] # {}
        /\ ~conversations'[c].group /\ ~conversations'[d].group
        /\ ~conversations'[c].class /\ ~conversations'[d].class
    BY DEF Twins, Group
  <2>2. Live(c) /\ Live(d)
    BY <1>1, <2>1, LiveMade
  <2>3. ~Group(c) /\ ~Group(d) /\ ~conversations[c].class /\ ~conversations[d].class
    BY <1>1, <2>1, <2>2, ConversationStays DEF Live, Group
  <2>4. seats'[c] # seats[c] \/ seats'[d] # seats[d]
    BY <2>1, <2>2, <2>3 DEF Twins
  <2> QED BY <1>1, <2>1, <2>2, <2>3, <2>4, TwinMade
<1>2. Inv /\ [Next]_vars => [Made]_vars
  BY <1>1
<1> QED BY <1>2, Invariant, PTL DEF Spec, TwinsNeedOverlap

-----------------------------------------------------------------------------
(* One handler after the other                                             *)

OneAtATime == \A p, q \in Requests : p = q

\* Whoever asks for a direct conversation asks for one with somebody.
DirectsAreForTwo ==
  \A call \in Calls : ~call.group /\ ~call.class => \E v \in Users : call.others = {v}

Direct(c) == Live(c) /\ ~Group(c) /\ ~conversations[c].class

\* A handler that is to make a direct conversation goes by what still holds: the two
\* have none, whatever has become of the class meanwhile.
PairInv ==
  /\ \A c \in Ids : Direct(c) => \E u, v \in Users : seats[c] \subseteq {u, v}
  /\ \A c, d \in Ids, u, v \in Users :
       Direct(c) /\ Direct(d) /\ c # d /\ u # v => seats[c] # {u, v} \/ seats[d] # {u, v}
  /\ \A r \in Requests :
       LET call == requests[r].call
       IN requests[r].at \in Making /\ ~call.group /\ ~call.class =>
            /\ requests[r].at = "seating" => seats[requests[r].id] = {}
            /\ \A v \in Users : call.others = {v} =>
                 \A c \in Ids : Direct(c) => seats[c] # {call.user, v}

LEMMA DirectStays ==
  ASSUME Inv, [Next]_vars, NEW c \in Ids, Direct(c)'
  PROVE  Direct(c) \/ (seats' = seats /\ seats[c] = {})
<1>1. CASE Live(c)
  BY <1>1, ConversationStays DEF Direct, Live, Group
<1>2. CASE ~Live(c)
  BY <1>2, LiveMade DEF Direct
<1> QED BY <1>1, <1>2

\* Who sits in a direct conversation leaves, or sits there from its creation.
LEMMA DirectSeats ==
  ASSUME Inv, PairInv, DirectsAreForTwo, [Next]_vars, NEW c \in Ids, Direct(c)
  PROVE  \/ seats'[c] \subseteq seats[c]
         \/ \E u, v \in Users :
              /\ seats'[c] = {u, v}
              /\ \A d \in Ids : Direct(d) => seats[d] # {u, v}
              /\ \A d \in Ids \ {c} : seats'[d] = seats[d]
<1> DEFINE Made == \E u, v \in Users :
              /\ seats'[c] = {u, v}
              /\ \A d \in Ids : Direct(d) => seats[d] # {u, v}
              /\ \A d \in Ids \ {c} : seats'[d] = seats[d]
<1>1. ASSUME NEW u \in Users, SeatPupil(u, c) PROVE FALSE
  BY <1>1 DEF SeatPupil, ClassConversations, Direct
<1>2. ASSUME NEW r \in Requests, InsertSeat(r), requests[r].id = c PROVE FALSE
  BY <1>2, RequestFacts DEF InsertSeat, At, RequestOK, Group, Direct
<1>3. ASSUME NEW r \in Requests, RemoveSeat(r), requests[r].id = c
      PROVE  seats'[c] \subseteq seats[c]
  BY <1>3 DEF RemoveSeat, Inv, TypeOK
<1>4. ASSUME NEW r \in Requests, SeatParticipants(r), requests[r].id = c
      PROVE  Made
  <2>1. PICK call \in Calls : call = requests[r].call
    BY <1>4, RequestFacts DEF SeatParticipants, At, RequestOK, Making
  <2>2. /\ requests[r].at = "seating" /\ ~call.class /\ ~call.group
        /\ requests[r].users = {call.user} \cup call.others
    BY <1>4, <2>1, RequestFacts DEF SeatParticipants, At, RequestOK, Direct, Group
  <2>3. PICK v \in Users : call.others = {v}
    BY <2>2 DEF DirectsAreForTwo
  <2>4. seats[c] = {} /\ \A d \in Ids : Direct(d) => seats[d] # {call.user, v}
    BY <1>4, <2>1, <2>2, <2>3 DEF PairInv, Making
  <2>5. seats' = [seats EXCEPT ![c] = seats[c] \cup requests[r].users]
    BY <1>4 DEF SeatParticipants
  <2>6. seats'[c] = {call.user, v} /\ \A d \in Ids \ {c} : seats'[d] = seats[d]
    BY <2>2, <2>3, <2>4, <2>5 DEF Inv, TypeOK
  <2>7. call.user \in Users
    BY NullFacts DEF Call
  <2> QED BY <2>4, <2>6, <2>7
<1> QED BY <1>1, <1>2, <1>3, <1>4, SeatsWritten

LEMMA GoesTo ==
  ASSUME Inv, NEW r \in Requests, NEW step, GoTo(r, step)
  PROVE  requests'[r].at = step /\ requests'[r].call = requests[r].call
<1>1. requests[r] \in Request /\ DOMAIN requests = Requests
  BY DEF Inv, TypeOK
<1>2. requests'[r] = [requests[r] EXCEPT !.at = step]
  BY <1>1 DEF GoTo
<1> QED BY <1>1, <1>2 DEF Request

\* The handler that is at a creation after its step has begun it or gone on with it.
LEMMA CreatorGoesOn ==
  ASSUME Inv, NEW r \in Requests, Acts(r), requests'[r].at \in Making
  PROVE  \/ \E call \in Calls : CreateConversation(r, call)
         \/ InsertConversation(r)
         \/ AdmitCreator(r) \/ SearchClassConversation(r) \/ ListParticipants(r)
<1>0. requests[r] \in Request /\ DOMAIN requests = Requests
  BY DEF Inv, TypeOK
<1>1. ASSUME CheckConversation(r) \/ ReadAudience(r) \/ FindSeat(r) \/ CountSeats(r)
             \/ AdmitDelete(r) \/ AdmitUpdate(r) \/ ReadMessages(r) \/ AdmitJoin(r)
      PROVE  FALSE
  <2>1. ASSUME NEW step, GoTo(r, step) PROVE step \in Making
    BY <2>1, GoesTo
  <2>2. CASE CheckConversation(r)
    BY <2>1, <2>2 DEF CheckConversation, Making, Opening
  <2>3. CASE ReadAudience(r)
    BY <1>0, <2>3 DEF ReadAudience, Request, Idle, Making, Opening
  <2>4. CASE FindSeat(r)
    BY <2>1, <2>4 DEF FindSeat, Making, Opening
  <2>5. CASE CountSeats(r)
    BY <2>1, <2>5 DEF CountSeats, Making, Opening
  <2>6. CASE AdmitDelete(r)
    BY <2>1, <2>6 DEF AdmitDelete, Making, Opening
  <2>7. CASE AdmitUpdate(r)
    BY <2>1, <2>7 DEF AdmitUpdate, Making, Opening
  <2>8. CASE ReadMessages(r)
    BY <1>0, <2>8 DEF ReadMessages, Request, Making, Opening
  <2>9. CASE AdmitJoin(r)
    BY <2>1, <2>9 DEF AdmitJoin, Making, Opening
  <2> QED BY <1>1, <2>2, <2>3, <2>4, <2>5, <2>6, <2>7, <2>8, <2>9
<1>2. ASSUME NEW u, NEW c,
             \/ SendMessage(r, u, c)
             \/ \E t \in Users : AddParticipant(r, u, t, c) \/ RemoveParticipant(r, u, t, c)
             \/ DeleteConversation(r, u, c) \/ UpdateConversation(r, u, c)
             \/ JoinConversation(r, u, c)
             \/ \E step \in {"reading", "paging"} : Open(r, u, c, step)
      PROVE  FALSE
  <2>1. CASE SendMessage(r, u, c)
    BY <1>0, <2>1 DEF SendMessage, Start, Idle, Making, Opening
  <2>2. ASSUME NEW t \in Users, AddParticipant(r, u, t, c) PROVE FALSE
    BY <1>0, <2>2 DEF AddParticipant, Start, Idle, Making, Opening
  <2>3. ASSUME NEW t \in Users, RemoveParticipant(r, u, t, c) PROVE FALSE
    BY <1>0, <2>3 DEF RemoveParticipant, Start, Idle, Making, Opening
  <2>4. CASE DeleteConversation(r, u, c)
    BY <1>0, <2>4 DEF DeleteConversation, Start, Idle, Making, Opening
  <2>5. CASE UpdateConversation(r, u, c)
    BY <1>0, <2>5 DEF UpdateConversation, Start, Idle, Making, Opening
  <2>6. CASE JoinConversation(r, u, c)
    BY <1>0, <2>6 DEF JoinConversation, Start, Idle, Making, Opening
  <2>7. ASSUME NEW step \in {"reading", "paging"}, Open(r, u, c, step) PROVE FALSE
    BY <1>0, <2>7 DEF Open, Start, Idle, Making, Opening
  <2> QED BY <1>2, <2>1, <2>2, <2>3, <2>4, <2>5, <2>6, <2>7
<1>3. ASSUME SeatParticipants(r) \/ StoreMessage(r) \/ InsertSeat(r) \/ RemoveSeat(r)
             \/ CloseConversation(r) \/ SaveDeleted(r) \/ SaveUpdate(r)
      PROVE  FALSE
  <2>1. CASE SeatParticipants(r) \/ InsertSeat(r)
    BY <2>1 DEF SeatParticipants, InsertSeat, WriteAs, Idle, Making, Opening
  <2>2. CASE StoreMessage(r)
    BY <1>0, <2>2 DEF StoreMessage, Push, Idle, Making, Opening
  <2>3. CASE RemoveSeat(r)
    <3>1. requests'[r] = Push("counting", requests[r].id, requests[r].target)
      BY <2>3 DEF RemoveSeat
    <3> QED BY <3>1 DEF Push, Idle, Making, Opening
  <2>4. CASE CloseConversation(r) \/ SaveDeleted(r)
    BY <2>4 DEF CloseConversation, SaveDeleted, MarkDeleted, WriteAs, Push, Idle, Making, Opening
  <2>5. CASE SaveUpdate(r)
    BY <1>0, <2>5 DEF SaveUpdate, Finish, Idle, Making, Opening
  <2> QED BY <1>3, <2>1, <2>2, <2>3, <2>4, <2>5
<1>4. ASSUME Shows(r) \/ Fail(r) PROVE FALSE
  BY <1>0, <1>4 DEF Shows, EmitMessage, TellRemoved, AnnounceDeleted, Answer, JoinRoom, Refuse,
     Fail, Finish, Idle, Making, Opening
<1> QED BY <1>1, <1>2, <1>3, <1>4 DEF Acts, Asks, Begins, Stores

\* What holds of a creation under way.
PairFor(r) ==
  LET call == requests[r].call
  IN requests[r].at \in Making /\ ~call.group /\ ~call.class =>
       /\ requests[r].at = "seating" => seats[requests[r].id] = {}
       /\ \A v \in Users : call.others = {v} =>
            \A c \in Ids : Direct(c) => seats[c] # {call.user, v}

LEMMA PairForStep ==
  ASSUME Inv, PairInv, OneAtATime, [Next]_vars, NEW r \in Requests
  PROVE  PairFor(r)'
<1> DEFINE call == requests'[r].call
<1> SUFFICES ASSUME requests'[r].at \in Making, ~call.group, ~call.class
             PROVE  /\ requests'[r].at = "seating" => seats'[requests'[r].id] = {}
                    /\ \A v \in Users : call.others = {v} =>
                         \A c \in Ids : Direct(c)' => seats'[c] # {call.user, v}
  BY DEF PairFor
<1>0. requests[r] \in Request /\ DOMAIN requests = Requests
  BY DEF Inv, TypeOK
<1>1. ASSUME seats' = seats, NEW v \in Users,
             \A c \in Ids : Direct(c) => seats[c] # {call.user, v}, NEW c \in Ids, Direct(c)'
      PROVE  seats'[c] # {call.user, v}
  BY <1>1, DirectStays
<1>2. ASSUME NEW asked \in Calls, CreateConversation(r, asked)
      PROVE  /\ requests'[r].at = "seating" => seats'[requests'[r].id] = {}
             /\ \A v \in Users : call.others = {v} =>
                  \A c \in Ids : Direct(c)' => seats'[c] # {call.user, v}
  <2>1. /\ call = asked /\ requests'[r].at # "seating" /\ seats' = seats
        /\ \A v \in Users : ~asked.group /\ asked.others = {v} => DirectOf(asked.user, v) = {}
    BY <1>0, <1>2 DEF CreateConversation, Start, Idle, rowVars
  <2>2. \A v \in Users : call.others = {v} =>
          \A c \in Ids : Direct(c) => seats[c] # {call.user, v}
    BY <2>1 DEF DirectOf, Direct
  <2> QED BY <1>1, <2>1, <2>2
<1>3. ASSUME AdmitCreator(r) \/ SearchClassConversation(r) \/ ListParticipants(r)
             \/ InsertConversation(r),
             seats' = seats
      PROVE  \A v \in Users : call.others = {v} =>
               \A c \in Ids : Direct(c)' => seats'[c] # {call.user, v}
  <2>1. call = requests[r].call
    <3>1. CASE AdmitCreator(r) \/ SearchClassConversation(r)
      BY <3>1, GoesTo DEF AdmitCreator, SearchClassConversation
    <3>2. CASE ListParticipants(r)
      BY <1>0, <3>2 DEF ListParticipants, Request
    <3>3. CASE InsertConversation(r)
      BY <1>0, <3>3 DEF InsertConversation, Request
    <3> QED BY <1>3, <3>1, <3>2, <3>3
  <2>2. requests[r].at \in Making
    BY <1>3 DEF AdmitCreator, SearchClassConversation, ListParticipants, InsertConversation,
       At, Making, Opening
  <2>3. \A v \in Users : call.others = {v} =>
          \A c \in Ids : Direct(c) => seats[c] # {call.user, v}
    BY <2>1, <2>2 DEF PairInv
  <2> QED BY <1>1, <1>3, <2>3
<1>4. ASSUME AdmitCreator(r) \/ SearchClassConversation(r) \/ ListParticipants(r)
      PROVE  seats' = seats /\ requests'[r].at # "seating"
  <2>1. CASE AdmitCreator(r) \/ SearchClassConversation(r)
    BY <1>0, <2>1 DEF AdmitCreator, SearchClassConversation, GoTo, rowVars, Request
  <2>2. ~ListParticipants(r)
    BY <1>0, RequestFacts DEF ListParticipants, At, RequestOK, Request
  <2> QED BY <1>4, <2>1, <2>2
<1>5. ASSUME InsertConversation(r)
      PROVE  seats' = seats /\ seats'[requests'[r].id] = {}
  <2>1. PICK d \in Ids : conversations[d] = NoOne /\ requests'[r].id = d
    BY <1>0, <1>5 DEF InsertConversation, Request
  <2> QED BY <1>5, <2>1 DEF InsertConversation, Inv, NothingYet
<1>6. CASE Acts(r)
  BY <1>2, <1>3, <1>4, <1>5, <1>6, CreatorGoesOn
<1>7. CASE ~Acts(r)
  <2>1. Same(r)
    <3>1. requests[r].at \in {"removing", "entering", "joining"} => requests'[r].at \notin Making
      <4>1. ASSUME NEW u \in Users, Disconnect(u)
            PROVE  requests'[r] \in {Idle, requests[r]}
        BY <4>1 DEF Disconnect
      <4>2. ASSUME OvertakeClass PROVE requests'[r].at = requests[r].at
        BY <1>0, <4>2 DEF OvertakeClass, Overtaken, Request
      <4>3. \A p \in Requests : ~Acts(p)
        BY <1>7 DEF OneAtATime
      <4> QED BY <4>1, <4>2, <4>3, Kinds, ClassKeeps
          DEF Acts, vars, LeaveConversation, Idle, Making, Opening
    <3> QED BY <1>7, <3>1, ActsOrSame
  <2>2. \A p \in Requests : ~Acts(p)
    BY <1>7 DEF OneAtATime
  <2>3. ASSUME NEW c \in Ids, seats'[c] # seats[c]
        PROVE  conversations[c].class
    <3>1. ASSUME NEW p \in Requests, SeatParticipants(p) \/ InsertSeat(p) \/ RemoveSeat(p)
          PROVE  FALSE
      BY <2>2, <3>1 DEF Acts, Stores
    <3>2. PICK u \in Users : SeatPupil(u, c)
      BY <2>3, <3>1, SeatsWritten
    <3> QED BY <3>2 DEF SeatPupil, ClassConversations
  <2>4. requests'[r].at = "seating" => seats'[requests'[r].id] = {}
    <3>1. SUFFICES ASSUME requests[r].at = "seating"
                   PROVE  seats'[requests[r].id] = {}
      BY <2>1 DEF Same
    <3>2. requests[r].id \in Ids /\ ~conversations[requests[r].id].class
      BY <2>1, <3>1, RequestFacts DEF Same, RequestOK, Opening
    <3>3. seats[requests[r].id] = {}
      BY <2>1, <3>1 DEF PairInv, Same, Making
    <3> QED BY <2>3, <3>2, <3>3
  <2>5. ASSUME NEW v \in Users, call.others = {v}, NEW c \in Ids, Direct(c)'
        PROVE  seats'[c] # {call.user, v}
    <3>1. \A d \in Ids : Direct(d) => seats[d] # {call.user, v}
      BY <2>1, <2>5 DEF PairInv, Same
    <3>2. CASE Direct(c)
      BY <2>3, <3>1, <3>2 DEF Direct
    <3>3. CASE ~Direct(c)
      BY <2>5, <3>3, DirectStays
    <3> QED BY <3>2, <3>3
  <2> QED BY <2>4, <2>5
<1> QED BY <1>6, <1>7

LEMMA PairStep ==
  ASSUME Inv, PairInv, OneAtATime, DirectsAreForTwo, [Next]_vars
  PROVE  PairInv'
<1>1. ASSUME NEW c \in Ids, Direct(c)'
      PROVE  \E u, v \in Users : seats'[c] \subseteq {u, v}
  <2>1. CASE Direct(c)
    <3>1. PICK u \in Users, v \in Users : seats[c] \subseteq {u, v}
      BY <2>1 DEF PairInv
    <3> QED BY <2>1, <3>1, DirectSeats
  <2>2. CASE ~Direct(c)
    <3>1. seats'[c] = {}
      BY <1>1, <2>2, DirectStays
    <3>2. Creator \in Users
      BY ConversationAssumption
    <3> QED BY <3>1, <3>2
  <2> QED BY <2>1, <2>2
<1>2. ASSUME NEW c \in Ids, NEW d \in Ids, NEW u \in Users, NEW v \in Users,
             Direct(c)', Direct(d)', c # d, u # v, seats'[c] = {u, v}, seats'[d] = {u, v}
      PROVE  FALSE
  <2>1. Direct(c) /\ Direct(d)
    BY <1>2, DirectStays
  <2>2. ASSUME NEW e \in Ids, Direct(e), seats'[e] \subseteq seats[e], seats'[e] = {u, v}
        PROVE  seats[e] = {u, v}
    <3>1. PICK x \in Users, y \in Users : seats[e] \subseteq {x, y}
      BY <2>2 DEF PairInv
    <3> QED BY <1>2, <2>2, <3>1
  <2>3. CASE seats'[c] \subseteq seats[c] /\ seats'[d] \subseteq seats[d]
    <3>1. seats[c] = {u, v} /\ seats[d] = {u, v}
      BY <1>2, <2>1, <2>2, <2>3
    <3> QED BY <1>2, <2>1, <3>1 DEF PairInv
  <2>4. ASSUME NEW e \in Ids, NEW f \in Ids, e # f, {e, f} = {c, d},
               ~(seats'[e] \subseteq seats[e])
        PROVE  FALSE
    <3>1. Direct(e) /\ Direct(f) /\ seats'[e] = {u, v} /\ seats'[f] = {u, v}
      BY <1>2, <2>1, <2>4
    <3>2. PICK x \in Users, y \in Users :
            /\ seats'[e] = {x, y}
            /\ \A g \in Ids : Direct(g) => seats[g] # {x, y}
            /\ \A g \in Ids \ {e} : seats'[g] = seats[g]
      BY <2>4, <3>1, DirectSeats
    <3>3. seats[f] = {x, y}
      BY <2>4, <3>1, <3>2
    <3> QED BY <3>1, <3>2, <3>3
  <2> QED BY <1>2, <2>3, <2>4
<1>3. \A r \in Requests : PairFor(r)'
  BY PairForStep
<1> QED BY <1>1, <1>2, <1>3 DEF PairInv, PairFor

\* "Gets an existing direct conversation or creates one if it does not exist": one
\* handler after the other, two users never have two direct conversations, whatever
\* students and sockets do meanwhile, whatever fails and however often it is repeated.
THEOREM InOrderOneDirect ==
  ASSUME OneAtATime, DirectsAreForTwo
  PROVE  Spec => [](\A c, d \in Ids, u, v \in Users :
                      /\ Direct(c) /\ seats[c] = {u, v}
                      /\ Direct(d) /\ seats[d] = {u, v}
                      /\ u # v
                      => c = d)
<1>1. Init => PairInv
  BY DEF Init, PairInv, Direct, Live, Idle, Making, Opening
<1>2. Inv /\ PairInv /\ [Next]_vars => PairInv'
  BY PairStep
<1>3. PairInv => \A c, d \in Ids, u, v \in Users :
                   /\ Direct(c) /\ seats[c] = {u, v}
                   /\ Direct(d) /\ seats[d] = {u, v}
                   /\ u # v
                   => c = d
  BY DEF PairInv
<1> QED BY <1>1, <1>2, <1>3, Invariant, PTL DEF Spec
=============================================================================

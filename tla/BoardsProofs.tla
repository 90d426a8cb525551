----------------------------- MODULE BoardsProofs -----------------------------
(***************************************************************************)
(* Theorems about Boards, for every set of users, elements, operations,    *)
(* messages and overlapping handlers.                                      *)
(*                                                                         *)
(* What a client comes to show changes only when an event is put in its    *)
(* queue: two lemmas about Ahead say how, and that delivering one does not *)
(* matter.  The rest is about what is put there.                           *)
(***************************************************************************)
EXTENDS Boards, TLAPS

-----------------------------------------------------------------------------
(* Queues                                                                  *)

LEMMA Appended ==
  ASSUME NEW S, NEW q \in Seq(S), NEW e \in S
  PROVE  /\ Append(q, e) \in Seq(S)
         /\ DOMAIN q = 1 .. Len(q) /\ Len(q) \in Nat
         /\ DOMAIN Append(q, e) = 1 .. (Len(q) + 1)
         /\ \A i \in DOMAIN q : i \in DOMAIN Append(q, e) /\ Append(q, e)[i] = q[i]
         /\ Append(q, e)[Len(q) + 1] = e
OBVIOUS

LEMMA Shifted ==
  ASSUME NEW S, NEW q \in Seq(S), q # <<>>
  PROVE  /\ Tail(q) \in Seq(S)
         /\ DOMAIN q = 1 .. Len(q) /\ Len(q) \in Nat /\ Len(q) > 0
         /\ DOMAIN Tail(q) = 1 .. (Len(q) - 1)
         /\ \A i \in DOMAIN Tail(q) : i + 1 \in DOMAIN q /\ Tail(q)[i] = q[i + 1]
         /\ \A i \in DOMAIN q : i # 1 => i - 1 \in DOMAIN Tail(q) /\ Tail(q)[i - 1] = q[i]
         /\ 1 \in DOMAIN q /\ Head(q) = q[1] /\ Head(q) \in S
OBVIOUS

\* An event in its queue is as good as shown.
LEMMA AheadAppend ==
  ASSUME NEW q \in Seq(Event), NEW e \in Event, NEW shown, NEW kinds, NEW anew
  PROVE  Ahead(Append(q, e), shown, kinds, anew)
           = Shows(Ahead(q, shown, kinds, anew), e, kinds, anew) \cap (Edits \cup Strokes)
<1> DEFINE p == Append(q, e)
           Rest(s, i) == \A j \in DOMAIN s : j > i => s[j].kind \notin anew
<1>1. /\ DOMAIN q = 1 .. Len(q) /\ Len(q) \in Nat
      /\ DOMAIN p = 1 .. (Len(q) + 1)
      /\ \A i \in DOMAIN q : p[i] = q[i]
      /\ p[Len(q) + 1] = e
  BY Appended
<1> HIDE DEF p
<1>2. ASSUME NEW i \in DOMAIN q
      PROVE  Rest(p, i) <=> Rest(q, i) /\ e.kind \notin anew
  BY <1>1
<1>3. Rest(p, Len(q) + 1)
  BY <1>1
<1>4. (\A i \in DOMAIN p : p[i].kind \notin anew)
        <=> (\A i \in DOMAIN q : q[i].kind \notin anew) /\ e.kind \notin anew
  BY <1>1
<1>5. ASSUME NEW x \in Edits \cup Strokes
      PROVE  (\E i \in DOMAIN p : p[i].kind \in kinds /\ x \in p[i].items /\ Rest(p, i))
        <=> \/ e.kind \in kinds /\ x \in e.items
            \/ /\ \E i \in DOMAIN q : q[i].kind \in kinds /\ x \in q[i].items /\ Rest(q, i)
               /\ e.kind \notin anew
  <2>1. ASSUME NEW i \in DOMAIN p, p[i].kind \in kinds, x \in p[i].items, Rest(p, i)
        PROVE  \/ e.kind \in kinds /\ x \in e.items
               \/ /\ \E k \in DOMAIN q : q[k].kind \in kinds /\ x \in q[k].items /\ Rest(q, k)
                  /\ e.kind \notin anew
    <3>1. CASE i \in DOMAIN q
      BY <3>1, <2>1, <1>1, <1>2
    <3>2. CASE i = Len(q) + 1
      BY <3>2, <2>1, <1>1
    <3> QED BY <3>1, <3>2, <1>1
  <2>2. ASSUME e.kind \in kinds, x \in e.items
        PROVE  \E i \in DOMAIN p : p[i].kind \in kinds /\ x \in p[i].items /\ Rest(p, i)
    BY <2>2, <1>1, <1>3
  <2>3. ASSUME NEW i \in DOMAIN q, q[i].kind \in kinds, x \in q[i].items, Rest(q, i),
               e.kind \notin anew
        PROVE  \E k \in DOMAIN p : p[k].kind \in kinds /\ x \in p[k].items /\ Rest(p, k)
    BY <2>3, <1>1, <1>2
  <2> HIDE DEF Rest
  <2> QED BY <2>1, <2>2, <2>3
<1>6. ASSUME NEW x \in Edits \cup Strokes
      PROVE  x \in Ahead(p, shown, kinds, anew)
               <=> x \in Shows(Ahead(q, shown, kinds, anew), e, kinds, anew)
  BY <1>4, <1>5 DEF Ahead, Shows
<1> QED BY <1>6 DEF Ahead, p

\* Delivering the first event makes no difference.
LEMMA AheadTail ==
  ASSUME NEW q \in Seq(Event), q # <<>>, NEW shown, NEW kinds, NEW anew
  PROVE  Ahead(Tail(q), Shows(shown, Head(q), kinds, anew), kinds, anew)
           = Ahead(q, shown, kinds, anew)
<1> DEFINE t == Tail(q)
           e == Head(q)
           Rest(s, i) == \A j \in DOMAIN s : j > i => s[j].kind \notin anew
           Adds(s, x) == \E i \in DOMAIN s : s[i].kind \in kinds /\ x \in s[i].items /\ Rest(s, i)
           None(s) == \A i \in DOMAIN s : s[i].kind \notin anew
<1>1. /\ DOMAIN q = 1 .. Len(q) /\ Len(q) \in Nat /\ Len(q) > 0
      /\ DOMAIN t = 1 .. (Len(q) - 1)
      /\ \A i \in DOMAIN t : i + 1 \in DOMAIN q /\ t[i] = q[i + 1]
      /\ \A i \in DOMAIN q : i # 1 => i - 1 \in DOMAIN t /\ t[i - 1] = q[i]
      /\ 1 \in DOMAIN q /\ e = q[1]
  BY Shifted
<1> HIDE DEF t, e
<1>2. ASSUME NEW i \in DOMAIN t PROVE Rest(t, i) <=> Rest(q, i + 1)
  <2>1. ASSUME Rest(t, i), NEW j \in DOMAIN q, j > i + 1 PROVE q[j].kind \notin anew
    <3>1. j - 1 \in DOMAIN t /\ j - 1 > i /\ t[j - 1] = q[j]
      BY <2>1, <1>1
    <3> QED BY <3>1, <2>1
  <2>2. ASSUME Rest(q, i + 1), NEW j \in DOMAIN t, j > i PROVE t[j].kind \notin anew
    <3>1. j + 1 \in DOMAIN q /\ j + 1 > i + 1 /\ q[j + 1] = t[j]
      BY <2>2, <1>1
    <3> QED BY <3>1, <2>2
  <2> QED BY <2>1, <2>2
<1>3. None(q) <=> e.kind \notin anew /\ None(t)
  <2>1. ASSUME e.kind \notin anew, None(t), NEW j \in DOMAIN q PROVE q[j].kind \notin anew
    BY <2>1, <1>1
  <2>2. ASSUME None(q), NEW j \in DOMAIN t PROVE t[j].kind \notin anew
    BY <2>2, <1>1
  <2>3. ASSUME None(q) PROVE e.kind \notin anew
    BY <2>3, <1>1
  <2> QED BY <2>1, <2>2, <2>3
<1>4. Rest(q, 1) <=> None(t)
  <2>1. ASSUME None(t), NEW j \in DOMAIN q, j > 1 PROVE q[j].kind \notin anew
    BY <2>1, <1>1
  <2>2. ASSUME Rest(q, 1), NEW j \in DOMAIN t PROVE t[j].kind \notin anew
    <3>1. j + 1 \in DOMAIN q /\ j + 1 > 1 /\ q[j + 1] = t[j]
      BY <2>2, <1>1
    <3> QED BY <3>1, <2>2
  <2> QED BY <2>1, <2>2
<1>5. ASSUME NEW x PROVE Adds(q, x) <=> Adds(t, x) \/ (e.kind \in kinds /\ x \in e.items /\ None(t))
  <2>1. ASSUME NEW i \in DOMAIN q, q[i].kind \in kinds, x \in q[i].items, Rest(q, i)
        PROVE  Adds(t, x) \/ (e.kind \in kinds /\ x \in e.items /\ None(t))
    <3>1. CASE i = 1
      BY <3>1, <2>1, <1>1, <1>4
    <3>2. CASE i # 1
      <4>1. i - 1 \in DOMAIN t /\ t[i - 1] = q[i] /\ (i - 1) + 1 = i
        BY <3>2, <1>1
      <4>2. Rest(t, i - 1)
        BY <4>1, <1>2, <2>1
      <4> QED BY <4>1, <4>2, <2>1
    <3> QED BY <3>1, <3>2
  <2>2. ASSUME NEW i \in DOMAIN t, t[i].kind \in kinds, x \in t[i].items, Rest(t, i)
        PROVE  Adds(q, x)
    <3>1. i + 1 \in DOMAIN q /\ q[i + 1] = t[i] /\ Rest(q, i + 1)
      BY <1>1, <1>2, <2>2
    <3> QED BY <3>1, <2>2
  <2>3. ASSUME e.kind \in kinds, x \in e.items, None(t) PROVE Adds(q, x)
    BY <2>3, <1>1, <1>4
  <2> QED BY <2>1, <2>2, <2>3
<1>6. ASSUME NEW x \in Edits \cup Strokes
      PROVE  x \in Ahead(t, Shows(shown, e, kinds, anew), kinds, anew)
               <=> x \in Ahead(q, shown, kinds, anew)
  <2>1. x \in Ahead(q, shown, kinds, anew) <=> (x \in shown /\ None(q)) \/ Adds(q, x)
    BY DEF Ahead
  <2>2. x \in Ahead(t, Shows(shown, e, kinds, anew), kinds, anew)
          <=> (x \in Shows(shown, e, kinds, anew) /\ None(t)) \/ Adds(t, x)
    BY DEF Ahead
  <2>3. x \in Shows(shown, e, kinds, anew)
          <=> (x \in shown /\ e.kind \notin anew) \/ (x \in e.items /\ e.kind \in kinds)
    BY DEF Shows
  <2> HIDE DEF Adds, None
  <2> QED BY <2>1, <2>2, <2>3, <1>3, <1>5
<1> QED BY <1>6 DEF Ahead, t, e

LEMMA AheadEmpty ==
  ASSUME NEW shown \in SUBSET (Edits \cup Strokes), NEW kinds, NEW anew
  PROVE  Ahead(<<>>, shown, kinds, anew) = shown
BY DEF Ahead

-----------------------------------------------------------------------------
(* Types                                                                   *)

\* What an event is about.
EventOK(e) ==
  /\ e \in Event
  /\ e.kind \in OfWhiteboard => e.items \subseteq Edits
  /\ e.kind \in OfCanvas => e.items \subseteq Strokes
  /\ e.kind \in OfChat => e.items \subseteq Msgs

\* What a handler has read, or been given.
RequestOK(q) ==
  /\ q \in Request
  /\ q.at \in {"showing", "closing", "answering"} => q.items \subseteq Strokes
  /\ q.at \in {"saving", "posting", "reciting"} => q.items \subseteq Msgs

QueueOK(q) == q \in Seq(Event) /\ \A i \in DOMAIN q : EventOK(q[i])

\* Who is outside has no queue, and a client that shows nothing.
Outside(u) ==
  u \notin inside =>
    down[u] = <<>> /\ up[u] = <<>> /\ elements[u] = {} /\ canvas[u] = {}

TypeInv ==
  /\ TypeOK
  /\ \A u \in Users : QueueOK(down[u]) /\ Outside(u)
  /\ \A r \in Requests : RequestOK(requests[r])
  /\ following \subseteq inside

Ours == <<inside, down, up, elements, canvas, chat>>

\* The event sent is put in the queues of some who are inside.
LEMMA EmitType ==
  ASSUME TypeInv, NEW U, NEW kind \in Kinds, NEW items,
         EventOK(Message(kind, items)), Emit(U, kind, items)
  PROVE  /\ down' \in [Users -> Seq(Event)]
         /\ \A u \in Users :
              /\ QueueOK(down'[u])
              /\ u \notin inside => down'[u] = down[u]
              /\ u \in U \cap inside => down'[u] = Append(down[u], Message(kind, items))
              /\ u \notin U => down'[u] = down[u]
<1> DEFINE e == Message(kind, items)
<1>1. e \in Event /\ EventOK(e)
  BY DEF EventOK
<1>2. ASSUME NEW u \in Users
      PROVE  /\ down'[u] = IF u \in U \cap inside THEN Append(down[u], e) ELSE down[u]
             /\ QueueOK(down'[u])
  <2>1. down'[u] = IF u \in U \cap inside THEN Append(down[u], e) ELSE down[u]
    BY DEF Emit
  <2>2. QueueOK(down[u])
    BY DEF TypeInv
  <2>3. QueueOK(Append(down[u], e))
    <3>1. /\ Append(down[u], e) \in Seq(Event)
          /\ DOMAIN down[u] = 1 .. Len(down[u]) /\ Len(down[u]) \in Nat
          /\ DOMAIN Append(down[u], e) = 1 .. (Len(down[u]) + 1)
          /\ \A i \in DOMAIN down[u] : Append(down[u], e)[i] = down[u][i]
          /\ Append(down[u], e)[Len(down[u]) + 1] = e
      BY <1>1, <2>2, Appended DEF QueueOK
    <3> HIDE DEF e
    <3>2. ASSUME NEW i \in DOMAIN Append(down[u], e) PROVE EventOK(Append(down[u], e)[i])
      <4>1. CASE i \in DOMAIN down[u]
        BY <4>1, <3>1, <2>2 DEF QueueOK
      <4>2. CASE i = Len(down[u]) + 1
        BY <4>2, <3>1, <1>1
      <4> QED BY <4>1, <4>2, <3>1
    <3> QED BY <3>1, <3>2 DEF QueueOK
  <2> HIDE DEF e
  <2> QED BY <2>1, <2>2, <2>3
<1>3. down' = [u \in Users |-> IF u \in U \cap inside THEN Append(down[u], e) ELSE down[u]]
  BY DEF Emit
<1> HIDE DEF e
<1>4. down' \in [Users -> Seq(Event)]
  <2>1. \A u \in Users : down'[u] \in Seq(Event)
    BY <1>2 DEF QueueOK
  <2> QED BY <2>1, <1>3
<1> QED BY <1>2, <1>4 DEF e

\* A handler starts, goes on or ends.
LEMMA RequestType ==
  ASSUME TypeInv, NEW r \in Requests, NEW q, RequestOK(q),
         requests' = [requests EXCEPT ![r] = q]
  PROVE  /\ requests' \in [Requests -> Request]
         /\ \A p \in Requests : RequestOK(requests'[p])
BY DEF TypeInv, TypeOK, RequestOK

LEMMA IdleOK == Idle \in Request /\ RequestOK(Idle)
BY DEF RequestOK, Request, Idle, Steps, Null

LEMMA EmptyQueue == \A S : <<>> \in Seq(S) /\ DOMAIN <<>> = {}
OBVIOUS

LEMMA InitType == Init => TypeInv
<1> SUFFICES ASSUME Init PROVE TypeInv
  OBVIOUS
<1>1. TypeOK
  <2>1. /\ down \in [Users -> Seq(Event)] /\ up \in [Users -> Seq(Upward)]
        /\ requests \in [Requests -> Request]
    BY IdleOK, EmptyQueue DEF Init
  <2> QED BY <2>1 DEF Init, TypeOK, Null
<1>2. \A u \in Users : QueueOK(down[u]) /\ Outside(u)
  BY EmptyQueue DEF Init, QueueOK, Outside
<1>3. \A r \in Requests : RequestOK(requests[r])
  BY IdleOK DEF Init
<1>4. following \subseteq inside
  BY DEF Init
<1> QED BY <1>1, <1>2, <1>3, <1>4 DEF TypeInv

\* The handlers that only go on, and those that start.
Quiet(r) ==
  \/ GetCanvasState(r) \/ SaveClosing(r) \/ SaveClearing(r)
  \/ SaveMeetingMessage(r) \/ GetMeetingMessages(r) \/ Fail(r)

LEMMA SaveType ==
  ASSUME TypeInv, NEW r \in Requests, NEW step \in {"freeing", "wiping"},
         NEW items \in SUBSET Strokes, SaveCanvas(r, step, items)
  PROVE  /\ saved' \in SUBSET Strokes
         /\ requests' \in [Requests -> Request]
         /\ \A p \in Requests : RequestOK(requests'[p])
<1>1. ASSUME NEW q \in Requests PROVE RequestOK(requests'[q])
  <2>1. RequestOK(requests[q]) /\ RequestOK(requests[r])
    BY DEF TypeInv
  <2>2. CASE q = r
    <3>1. requests'[q] = [requests[r] EXCEPT !.at = step, !.items = {}, !.stale = FALSE]
      BY <2>2 DEF SaveCanvas
    <3> QED BY <3>1, <2>1 DEF RequestOK, Request, Steps
  <2>3. CASE q # r /\ requests[q].at \in {"showing", "closing", "answering"}
    <3>1. requests'[q] = [requests[q] EXCEPT !.stale = TRUE]
      BY <2>3 DEF SaveCanvas
    <3> QED BY <3>1, <2>1 DEF RequestOK, Request
  <2>4. CASE q # r /\ requests[q].at \notin {"showing", "closing", "answering"}
    BY <2>4, <2>1 DEF SaveCanvas
  <2> QED BY <2>2, <2>3, <2>4
<1>2. requests' \in [Requests -> Request]
  BY <1>1 DEF SaveCanvas, RequestOK
<1> QED BY <1>1, <1>2 DEF SaveCanvas

LEMMA QuietType ==
  ASSUME TypeInv, NEW r \in Requests, Quiet(r)
  PROVE  TypeInv'
<1>0. RequestOK(requests[r])
  BY DEF TypeInv
<1> DEFINE Good == /\ requests' \in [Requests -> Request]
                   /\ \A p \in Requests : RequestOK(requests'[p])
                   /\ saved' \in SUBSET Strokes /\ stored' \in SUBSET Msgs
                   /\ behind' \in SUBSET Users /\ unread' \in SUBSET Users
                   /\ UNCHANGED <<inside, down, whiteboardVars, holder, canvas, following, chat>>
<1>1. ASSUME GetCanvasState(r) PROVE Good
  <2> DEFINE q == [requests[r] EXCEPT
                     !.at = IF At(r, "opening") THEN "showing" ELSE "answering", !.items = saved]
  <2>1. requests' = [requests EXCEPT ![r] = q]
    BY <1>1 DEF GetCanvasState
  <2>2. RequestOK(q)
    BY <1>0 DEF RequestOK, Request, Steps, TypeInv, TypeOK
  <2> HIDE DEF q
  <2>3. requests' \in [Requests -> Request] /\ \A p \in Requests : RequestOK(requests'[p])
    BY <2>1, <2>2, RequestType
  <2> QED BY <2>3, <1>1 DEF GetCanvasState, canvasVars, chatVars, TypeInv, TypeOK
<1>2. ASSUME SaveClosing(r) PROVE Good
  <2>1. requests[r].items \in SUBSET Strokes
    BY <1>0, <1>2 DEF RequestOK, SaveClosing, At
  <2>2. SaveCanvas(r, "freeing", requests[r].items)
    BY <1>2 DEF SaveClosing
  <2>3. /\ saved' \in SUBSET Strokes
        /\ requests' \in [Requests -> Request]
        /\ \A p \in Requests : RequestOK(requests'[p])
    BY <2>1, <2>2, SaveType
  <2> QED BY <2>3, <1>2 DEF SaveClosing, canvasVars, chatVars, TypeInv, TypeOK
<1>3. ASSUME SaveClearing(r) PROVE Good
  <2>2. SaveCanvas(r, "wiping", {})
    BY <1>3 DEF SaveClearing
  <2>3. /\ saved' \in SUBSET Strokes
        /\ requests' \in [Requests -> Request]
        /\ \A p \in Requests : RequestOK(requests'[p])
    BY <2>2, SaveType
  <2> QED BY <2>3, <1>3 DEF SaveClearing, canvasVars, chatVars, TypeInv, TypeOK
<1>4. ASSUME SaveMeetingMessage(r) PROVE Good
  <2> DEFINE q == [requests[r] EXCEPT !.at = "posting"]
  <2>1. requests' = [requests EXCEPT ![r] = q]
    BY <1>4 DEF SaveMeetingMessage, GoTo
  <2>2. RequestOK(q)
    BY <1>0, <1>4 DEF RequestOK, Request, Steps, SaveMeetingMessage, At
  <2> HIDE DEF q
  <2>3. requests' \in [Requests -> Request] /\ \A p \in Requests : RequestOK(requests'[p])
    BY <2>1, <2>2, RequestType
  <2>4. requests[r].items \subseteq Msgs
    BY <1>0, <1>4 DEF RequestOK, SaveMeetingMessage, At
  <2> QED BY <2>3, <2>4, <1>4 DEF SaveMeetingMessage, canvasVars, TypeInv, TypeOK
<1>5. ASSUME GetMeetingMessages(r) PROVE Good
  <2> DEFINE q == [requests[r] EXCEPT !.at = "reciting", !.items = stored]
  <2>1. requests' = [requests EXCEPT ![r] = q]
    BY <1>5 DEF GetMeetingMessages
  <2>2. RequestOK(q)
    BY <1>0 DEF RequestOK, Request, Steps, TypeInv, TypeOK
  <2> HIDE DEF q
  <2>3. requests' \in [Requests -> Request] /\ \A p \in Requests : RequestOK(requests'[p])
    BY <2>1, <2>2, RequestType
  <2> QED BY <2>3, <1>5 DEF GetMeetingMessages, canvasVars, chatVars, TypeInv, TypeOK
<1>6. ASSUME Fail(r) PROVE Good
  <2>1. requests' = [requests EXCEPT ![r] = Idle]
    BY <1>6 DEF Fail, Finish
  <2>2. requests' \in [Requests -> Request] /\ \A p \in Requests : RequestOK(requests'[p])
    BY <2>1, IdleOK, RequestType
  <2>3. unread' \in SUBSET Users
    BY <1>6 DEF Fail, TypeInv, TypeOK
  <2> QED BY <2>2, <2>3, <1>6 DEF Fail, canvasVars, chatVars, TypeInv, TypeOK
<1>7. Good
  BY <1>1, <1>2, <1>3, <1>4, <1>5, <1>6 DEF Quiet
<1>8. TypeOK'
  BY <1>7 DEF TypeInv, TypeOK, whiteboardVars
<1>9. \A u \in Users : QueueOK(down'[u]) /\ Outside(u)'
  BY <1>7 DEF TypeInv, Outside, whiteboardVars
<1> QED BY <1>7, <1>8, <1>9 DEF TypeInv

\* The handlers that send something.
Sends(r) ==
  \/ ShowCanvas(r) \/ AnswerCanvasState(r) \/ CloseCanvas(r) \/ ClearCanvas(r)
  \/ PostMessage(r) \/ SendHistory(r)

QueuesOK(queues) ==
  /\ queues \in [Users -> Seq(Event)]
  /\ \A u \in Users : QueueOK(queues[u])
  /\ \A u \in Users \ inside : queues[u] = down[u]

LEMMA EmitOK ==
  ASSUME TypeInv, NEW U, NEW kind \in Kinds, NEW items,
         EventOK(Message(kind, items)), Emit(U, kind, items)
  PROVE  QueuesOK(down')
BY EmitType DEF QueuesOK

LEMMA EventsOK ==
  /\ \A S \in SUBSET Strokes : \A kind \in OfCanvas : EventOK(Message(kind, S))
  /\ \A S \in SUBSET Edits : \A kind \in OfWhiteboard : EventOK(Message(kind, S))
  /\ \A S \in SUBSET Msgs : \A kind \in OfChat : EventOK(Message(kind, S))
  /\ OfCanvas \cup OfWhiteboard \cup OfChat \subseteq Kinds
BY DEF EventOK, Message, Event, Kinds, OfCanvas, OfWhiteboard, OfChat, Anew

LEMMA SendsType ==
  ASSUME TypeInv, NEW r \in Requests, Sends(r)
  PROVE  TypeInv'
<1>0. RequestOK(requests[r])
  BY DEF TypeInv
<1> DEFINE Good == /\ QueuesOK(down')
                   /\ requests' = [requests EXCEPT ![r] = Idle]
                   /\ holder' \in Null(Users)
                   /\ behind' \in SUBSET Users
                   /\ following' \in SUBSET Users /\ following' \subseteq inside
                   /\ UNCHANGED <<inside, whiteboardVars, saved, canvas, chatVars>>
<1> USE DEF Finish
<1>1. ASSUME ShowCanvas(r) PROVE Good
  <2>1. requests[r].items \in SUBSET Strokes /\ "opened" \in OfCanvas
    BY <1>0, <1>1 DEF RequestOK, ShowCanvas, At, OfCanvas, Anew
  <2>2. QueuesOK(down')
    BY <2>1, <1>1, EmitOK, EventsOK DEF ShowCanvas
  <2> QED BY <2>2, <1>1 DEF ShowCanvas, TypeInv, TypeOK
<1>2. ASSUME AnswerCanvasState(r) PROVE Good
  <2>1. requests[r].items \in SUBSET Strokes /\ "canvas" \in OfCanvas
    BY <1>0, <1>2 DEF RequestOK, AnswerCanvasState, At, OfCanvas, Anew
  <2>2. QueuesOK(down')
    BY <2>1, <1>2, EmitOK, EventsOK DEF AnswerCanvasState
  <2>3. inside \in SUBSET Users /\ behind \in SUBSET Users /\ following \in SUBSET Users
    BY DEF TypeInv, TypeOK
  <2>4. behind' \in SUBSET Users /\ following' \in SUBSET Users /\ following' \subseteq inside
    BY <2>3, <1>2 DEF AnswerCanvasState, TypeInv
  <2> QED BY <2>2, <2>4, <1>2 DEF AnswerCanvasState, TypeInv, TypeOK
<1>3. ASSUME CloseCanvas(r) PROVE Good
  <2>1. {} \in SUBSET Strokes /\ "closed" \in OfCanvas
    BY DEF OfCanvas, Anew
  <2>2. QueuesOK(down')
    BY <2>1, <1>3, EmitOK, EventsOK DEF CloseCanvas, FreeCanvas
  <2> QED BY <2>2, <1>3 DEF CloseCanvas, FreeCanvas, TypeInv, TypeOK, Null
<1>4. ASSUME ClearCanvas(r) PROVE Good
  <2>1. {} \in SUBSET Strokes /\ "cleared" \in OfCanvas
    BY DEF OfCanvas, Anew
  <2>2. QueuesOK(down')
    BY <2>1, <1>4, EmitOK, EventsOK DEF ClearCanvas
  <2> QED BY <2>2, <1>4 DEF ClearCanvas, TypeInv, TypeOK
<1>5. ASSUME PostMessage(r) PROVE Good
  <2>1. requests[r].items \in SUBSET Msgs /\ "chat" \in OfChat
    BY <1>0, <1>5 DEF RequestOK, PostMessage, At, OfChat
  <2>2. QueuesOK(down')
    BY <2>1, <1>5, EmitOK, EventsOK DEF PostMessage
  <2> QED BY <2>2, <1>5 DEF PostMessage, TypeInv, TypeOK, canvasVars
<1>6. ASSUME SendHistory(r) PROVE Good
  <2>1. requests[r].items \in SUBSET Msgs /\ "history" \in OfChat
    BY <1>0, <1>6 DEF RequestOK, SendHistory, At, OfChat
  <2>2. QueuesOK(down')
    BY <2>1, <1>6, EmitOK, EventsOK DEF SendHistory
  <2> QED BY <2>2, <1>6 DEF SendHistory, TypeInv, TypeOK, canvasVars
<1>7. Good
  BY <1>1, <1>2, <1>3, <1>4, <1>5, <1>6 DEF Sends
<1>8. requests' \in [Requests -> Request] /\ \A p \in Requests : RequestOK(requests'[p])
  BY <1>7, IdleOK, RequestType
<1>9. TypeOK'
  BY <1>7, <1>8 DEF TypeInv, TypeOK, whiteboardVars, chatVars, QueuesOK
<1>10. \A u \in Users : QueueOK(down'[u]) /\ Outside(u)'
  BY <1>7 DEF TypeInv, Outside, whiteboardVars, QueuesOK
<1> QED BY <1>7, <1>8, <1>9, <1>10 DEF TypeInv

\* What clients ask for.
LEMMA ReceiveType ==
  ASSUME TypeInv, NEW r \in Requests, NEW u \in Users, Receive(r, u)
  PROVE  TypeInv'
<1>0. /\ inside \in SUBSET Users /\ following \subseteq inside
      /\ behind \in SUBSET Users /\ crossed \in SUBSET Users
      /\ canvas[u] \in SUBSET Strokes
  BY DEF TypeInv, TypeOK
<1> DEFINE Starts == \E q : RequestOK(q) /\ requests' = [requests EXCEPT ![r] = q]
           Good == /\ Starts \/ UNCHANGED requests
                   /\ down' = down \/ QueuesOK(down')
                   /\ inside' = inside \/ inside' = inside \cup {u}
                   /\ holder' \in Null(Users)
                   /\ crossed' \in SUBSET Users /\ behind' \in SUBSET Users
                   /\ following' \subseteq following
                   /\ UNCHANGED <<up, board, elements, saved, canvas, chatVars>>
<1> USE DEF Start, whiteboardVars, canvasVars
<1>1. ASSUME JoinRoom(r, u) PROVE Good
  <2>1. RequestOK([Idle EXCEPT !.at = "recalling", !.user = u])
    BY DEF RequestOK, Request, Idle, Steps, Null
  <2> QED BY <2>1, <1>1, <1>0 DEF JoinRoom, TypeInv, TypeOK
<1>2. ASSUME HandleOpenCanvas(r, u) PROVE Good
  <2>1. RequestOK([Idle EXCEPT !.at = "opening"])
    BY DEF RequestOK, Request, Idle, Steps, Null
  <2> QED BY <2>1, <1>2, <1>0 DEF HandleOpenCanvas, TypeInv, TypeOK, Null
<1>3. ASSUME HandleCloseCanvas(r, u) PROVE Good
  <2>1. PICK stale \in BOOLEAN :
          requests' = [requests EXCEPT ![r] =
            [Idle EXCEPT !.at = "closing", !.items = canvas[u], !.stale = stale]]
    BY <1>3 DEF HandleCloseCanvas, OnTheWay
  <2>2. RequestOK([Idle EXCEPT !.at = "closing", !.items = canvas[u], !.stale = stale])
    BY <1>0 DEF RequestOK, Request, Idle, Steps, Null
  <2> QED BY <2>1, <2>2, <1>3, <1>0 DEF HandleCloseCanvas, TypeInv, TypeOK
<1>4. ASSUME HandleClearCanvas(r, u) PROVE Good
  <2>1. RequestOK([Idle EXCEPT !.at = "clearing"])
    BY DEF RequestOK, Request, Idle, Steps, Null
  <2> QED BY <2>1, <1>4, <1>0 DEF HandleClearCanvas, TypeInv, TypeOK
<1>5. ASSUME HandleGetCanvasState(r, u) PROVE Good
  <2>1. CASE holder = NoOne
    <3>1. {} \in SUBSET Strokes /\ "canvas" \in OfCanvas
      BY DEF OfCanvas, Anew
    <3>2. QueuesOK(down')
      BY <3>1, <2>1, <1>5, EmitOK, EventsOK DEF HandleGetCanvasState
    <3> QED BY <3>2, <2>1, <1>5, <1>0 DEF HandleGetCanvasState, TypeInv, TypeOK
  <2>2. CASE holder # NoOne
    <3>1. RequestOK([Idle EXCEPT !.at = "fetching", !.user = u])
      BY DEF RequestOK, Request, Idle, Steps, Null
    <3> QED BY <3>1, <2>2, <1>5, <1>0 DEF HandleGetCanvasState, TypeInv, TypeOK
  <2> QED BY <2>1, <2>2
<1>6. ASSUME HandleGetMessageHistory(r, u) PROVE Good
  <2>1. RequestOK([Idle EXCEPT !.at = "recalling", !.user = u])
    BY DEF RequestOK, Request, Idle, Steps, Null
  <2> QED BY <2>1, <1>6, <1>0 DEF HandleGetMessageHistory, TypeInv, TypeOK
<1>7. ASSUME NEW m \in Msgs, HandleChatMessage(r, u, m) PROVE Good
  <2>1. RequestOK([Idle EXCEPT !.at = "saving", !.user = u, !.items = {m}])
    BY DEF RequestOK, Request, Idle, Steps, Null
  <2> QED BY <2>1, <1>7, <1>0 DEF HandleChatMessage, TypeInv, TypeOK
<1>8. Good
  <2> HIDE DEF Good
  <2> QED BY <1>1, <1>2, <1>3, <1>4, <1>5, <1>6, <1>7 DEF Receive
<1>9. requests' \in [Requests -> Request] /\ \A p \in Requests : RequestOK(requests'[p])
  BY <1>8, RequestType DEF TypeInv, TypeOK
<1>10. /\ down' \in [Users -> Seq(Event)]
       /\ \A v \in Users : QueueOK(down'[v])
       /\ \A v \in Users \ inside : down'[v] = down[v]
  BY <1>8 DEF QueuesOK, TypeInv, TypeOK
<1>11. TypeOK'
  BY <1>0, <1>8, <1>9, <1>10 DEF TypeInv, TypeOK, chatVars
<1>12. \A v \in Users : Outside(v)'
  BY <1>0, <1>8, <1>10 DEF TypeInv, Outside
<1>13. following' \subseteq inside'
  BY <1>0, <1>8
<1> QED BY <1>9, <1>10, <1>11, <1>12, <1>13 DEF TypeInv

\* What a client sends, or gets.
Acts(u) ==
  \/ AskForWhiteboard(u) \/ HandleWhiteboardUpdate(u) \/ HandleGetWhiteboardState(u)
  \/ DropCanvas(u) \/ LeaveRoom(u) \/ Disconnect(u) \/ Deliver(u)
  \/ \E e \in Edits : DrawElement(u, e)
  \/ \E s \in Strokes : HandleDraw(u, s)

\* The queues up lose their first message, or get one more.
LEMMA BlindedType ==
  ASSUME TypeInv, NEW u \in Users, up[u] # <<>>
  PROVE  /\ Blinded(u) \in [Users -> Seq(Upward)]
         /\ \A v \in Users : up[v] = <<>> => Blinded(u)[v] = <<>>
<1>0. \A v \in Users : up[v] \in Seq(Upward)
  BY DEF TypeInv, TypeOK
<1>1. ASSUME NEW v \in Users, v # u
      PROVE  /\ Blinded(u)[v] \in Seq(Upward)
             /\ up[v] = <<>> => Blinded(u)[v] = <<>>
  <2>1. Blinded(u)[v] = [i \in DOMAIN up[v] |-> [up[v][i] EXCEPT !.blind = TRUE]]
    BY <1>1 DEF Blinded
  <2>2. up[v] \in Seq(Upward) /\ DOMAIN up[v] = 1 .. Len(up[v]) /\ Len(up[v]) \in Nat
    BY <1>0
  <2>3. \A i \in DOMAIN up[v] : [up[v][i] EXCEPT !.blind = TRUE] \in Upward
    <3>1. \A i \in DOMAIN up[v] : up[v][i] \in Upward
      BY <2>2
    <3> QED BY <3>1 DEF Upward
  <2>4. Blinded(u)[v] \in Seq(Upward)
    BY <2>1, <2>2, <2>3
  <2>5. up[v] = <<>> => Blinded(u)[v] = <<>>
    BY <2>1
  <2> QED BY <2>4, <2>5
<1>2. Blinded(u)[u] \in Seq(Upward)
  BY <1>0 DEF Blinded
<1>3. \A v \in Users : Blinded(u)[v] \in Seq(Upward)
  BY <1>1, <1>2
<1>4. Blinded(u) \in [Users -> Seq(Upward)]
  BY <1>3 DEF Blinded
<1> QED BY <1>1, <1>4

LEMMA HeadType ==
  ASSUME TypeInv, NEW u \in Users, up[u] # <<>>
  PROVE  /\ Head(up[u]).items \in SUBSET Edits /\ Head(up[u]).blind \in BOOLEAN
         /\ Tail(up[u]) \in Seq(Upward)
         /\ u \in inside
<1>1. up[u] \in Seq(Upward)
  BY DEF TypeInv, TypeOK
<1>2. Head(up[u]) \in Upward /\ Tail(up[u]) \in Seq(Upward)
  BY <1>1
<1> QED BY <1>2 DEF Upward, TypeInv, Outside

LEMMA BoardType ==
  ASSUME TypeInv, NEW u \in Users,
         \/ AskForWhiteboard(u) \/ HandleWhiteboardUpdate(u) \/ HandleGetWhiteboardState(u)
         \/ \E e \in Edits : DrawElement(u, e)
  PROVE  TypeInv'
<1>0. u \in inside /\ inside \in SUBSET Users /\ crossed \in SUBSET Users
  BY HeadType DEF TypeInv, TypeOK, AskForWhiteboard, HandleWhiteboardUpdate,
                  HandleGetWhiteboardState, DrawElement
<1> DEFINE Good == /\ down' = down \/ QueuesOK(down')
                   /\ up' \in [Users -> Seq(Upward)]
                   /\ \A v \in Users : v # u /\ up[v] = <<>> => up'[v] = <<>>
                   /\ board' \in SUBSET Edits
                   /\ elements' \in [Users -> SUBSET Edits]
                   /\ \A v \in Users : v # u => elements'[v] = elements[v]
                   /\ crossed' \in SUBSET Users
                   /\ UNCHANGED <<inside, canvasVars, chatVars, requests>>
<1>1. ASSUME AskForWhiteboard(u) PROVE Good
  <2>1. [kind |-> "get", items |-> {}, blind |-> FALSE] \in Upward
    BY DEF Upward
  <2>2. up' \in [Users -> Seq(Upward)]
    BY <2>1, <1>1 DEF AskForWhiteboard, TypeInv, TypeOK
  <2>3. \A v \in Users : v # u => up'[v] = up[v]
    BY <1>1 DEF AskForWhiteboard, TypeInv, TypeOK
  <2> QED BY <2>2, <2>3, <1>1 DEF AskForWhiteboard, TypeInv, TypeOK
<1>2. ASSUME HandleWhiteboardUpdate(u) PROVE Good
  <2>1. /\ up[u] # <<>> /\ up' = Blinded(u)
        /\ board' = Head(up[u]).items
        /\ Emit(Users \ {u}, "update", Head(up[u]).items)
        /\ crossed' = IF Head(up[u]).blind THEN {u} ELSE {}
        /\ UNCHANGED <<inside, elements, canvasVars, chatVars, requests>>
    BY <1>2 DEF HandleWhiteboardUpdate
  <2>2. /\ Head(up[u]).items \in SUBSET Edits
        /\ up' \in [Users -> Seq(Upward)]
        /\ \A v \in Users : up[v] = <<>> => up'[v] = <<>>
    BY <2>1, HeadType, BlindedType
  <2>3. "update" \in OfWhiteboard
    BY DEF OfWhiteboard
  <2>4. QueuesOK(down')
    BY <2>1, <2>2, <2>3, EmitOK, EventsOK
  <2> QED BY <2>1, <2>2, <2>4, <1>0 DEF TypeInv, TypeOK
<1>3. ASSUME HandleGetWhiteboardState(u) PROVE Good
  <2>1. up' \in [Users -> Seq(Upward)] /\ \A v \in Users : v # u => up'[v] = up[v]
    BY <1>3, HeadType DEF HandleGetWhiteboardState, TypeInv, TypeOK
  <2>2. "state" \in OfWhiteboard /\ board \in SUBSET Edits
    BY DEF OfWhiteboard, TypeInv, TypeOK
  <2>3. down' = down \/ QueuesOK(down')
    BY <2>2, <1>3, EmitOK, EventsOK DEF HandleGetWhiteboardState
  <2>4. crossed' \in SUBSET Users
    BY <1>0, <1>3 DEF HandleGetWhiteboardState
  <2> QED BY <2>1, <2>2, <2>3, <2>4, <1>3 DEF HandleGetWhiteboardState, TypeInv, TypeOK
<1>4. ASSUME NEW e \in Edits, DrawElement(u, e) PROVE Good
  <2>1. elements[u] \cup {e} \in SUBSET Edits
    BY DEF TypeInv, TypeOK
  <2>2. PICK blind \in BOOLEAN :
          up' = [up EXCEPT ![u] = Append(@,
            [kind |-> "update", items |-> elements[u] \cup {e}, blind |-> blind])]
    BY <1>4 DEF DrawElement, OnTheWay
  <2>3. [kind |-> "update", items |-> elements[u] \cup {e}, blind |-> blind] \in Upward
    BY <2>1 DEF Upward
  <2>4. up' \in [Users -> Seq(Upward)] /\ \A v \in Users : v # u => up'[v] = up[v]
    BY <2>2, <2>3 DEF TypeInv, TypeOK
  <2>5. /\ elements' \in [Users -> SUBSET Edits]
        /\ \A v \in Users : v # u => elements'[v] = elements[v]
    BY <2>1, <1>4 DEF DrawElement, TypeInv, TypeOK
  <2> QED BY <2>4, <2>5, <1>4 DEF DrawElement, TypeInv, TypeOK
<1>5. Good
  <2> HIDE DEF Good
  <2> QED BY <1>1, <1>2, <1>3, <1>4
<1>6. /\ down' \in [Users -> Seq(Event)]
      /\ \A v \in Users : QueueOK(down'[v])
      /\ \A v \in Users \ inside : down'[v] = down[v]
  BY <1>5 DEF QueuesOK, TypeInv, TypeOK
<1>7. TypeOK'
  BY <1>5, <1>6 DEF TypeInv, TypeOK, canvasVars, chatVars
<1>8. \A v \in Users : Outside(v)'
  BY <1>0, <1>5, <1>6 DEF TypeInv, Outside, canvasVars
<1> QED BY <1>5, <1>6, <1>7, <1>8 DEF TypeInv, canvasVars

LEMMA DeliverType ==
  ASSUME TypeInv, NEW u \in Users, Deliver(u)
  PROVE  TypeInv'
<1> DEFINE event == Head(down[u])
<1>1. /\ down[u] # <<>> /\ QueueOK(down[u])
      /\ down' = [down EXCEPT ![u] = Tail(@)]
      /\ elements' = [elements EXCEPT ![u] = Shows(@, event, OfWhiteboard, OfWhiteboard)]
      /\ canvas' = [canvas EXCEPT ![u] = Shows(@, event, OfCanvas, Anew)]
      /\ chat' = [chat EXCEPT ![u] = Shows(@, event, OfChat, {})]
      /\ UNCHANGED <<inside, up, board, crossed, holder, saved, behind, following, stored,
                     unread, requests>>
  BY DEF Deliver, TypeInv
<1>2. EventOK(event) /\ QueueOK(Tail(down[u]))
  <2>1. /\ Tail(down[u]) \in Seq(Event)
        /\ \A i \in DOMAIN Tail(down[u]) :
             i + 1 \in DOMAIN down[u] /\ Tail(down[u])[i] = down[u][i + 1]
        /\ 1 \in DOMAIN down[u] /\ event = down[u][1]
    BY <1>1, Shifted DEF QueueOK
  <2> QED BY <2>1, <1>1 DEF QueueOK
<1> HIDE DEF event
<1>3. /\ Shows(elements[u], event, OfWhiteboard, OfWhiteboard) \in SUBSET Edits
      /\ Shows(canvas[u], event, OfCanvas, Anew) \in SUBSET Strokes
      /\ Shows(chat[u], event, OfChat, {}) \in SUBSET Msgs
  <2>1. elements[u] \subseteq Edits /\ canvas[u] \subseteq Strokes /\ chat[u] \subseteq Msgs
    BY DEF TypeInv, TypeOK
  <2> QED BY <2>1, <1>2 DEF Shows, EventOK
<1>4. /\ elements' \in [Users -> SUBSET Edits]
      /\ canvas' \in [Users -> SUBSET Strokes]
      /\ chat' \in [Users -> SUBSET Msgs]
  BY <1>1, <1>3 DEF TypeInv, TypeOK
<1>5. down' \in [Users -> Seq(Event)] /\ \A v \in Users : QueueOK(down'[v])
  <2>1. \A v \in Users : down'[v] = IF v = u THEN Tail(down[u]) ELSE down[v]
    BY <1>1 DEF TypeInv, TypeOK
  <2>2. \A v \in Users : QueueOK(down'[v])
    BY <2>1, <1>2 DEF TypeInv
  <2>3. \A v \in Users : down'[v] \in Seq(Event)
    BY <2>2 DEF QueueOK
  <2> QED BY <2>2, <2>3, <1>1 DEF TypeInv, TypeOK
<1>6. TypeOK'
  BY <1>1, <1>4, <1>5 DEF TypeInv, TypeOK
<1>7. u \in inside
  BY <1>1 DEF TypeInv, Outside
<1>8. \A v \in Users : Outside(v)'
  <2>1. \A v \in Users : v # u => /\ down'[v] = down[v] /\ elements'[v] = elements[v]
                                  /\ canvas'[v] = canvas[v]
    BY <1>1 DEF TypeInv, TypeOK
  <2> QED BY <2>1, <1>1, <1>7 DEF TypeInv, Outside
<1> QED BY <1>1, <1>5, <1>6, <1>8 DEF TypeInv

LEMMA GoneType ==
  ASSUME TypeInv, NEW u \in Users, LeaveRoom(u) \/ Disconnect(u)
  PROVE  TypeInv'
<1>1. Gone(u) /\ UNCHANGED <<board, saved, stored, requests>> /\ holder' \in Null(Users)
  BY DEF LeaveRoom, Disconnect, TypeInv, TypeOK, Null
<1>2. /\ down' = [down EXCEPT ![u] = <<>>]
      /\ up' = [up EXCEPT ![u] = <<>>]
      /\ elements' = [elements EXCEPT ![u] = {}]
      /\ canvas' = [canvas EXCEPT ![u] = {}]
      /\ chat' = [chat EXCEPT ![u] = {}]
      /\ inside' = inside \ {u} /\ crossed' = crossed \ {u} /\ behind' = behind \ {u}
      /\ following' = following \ {u} /\ unread' = unread \ {u}
  BY <1>1 DEF Gone, Fresh
<1>3. QueueOK(<<>>) /\ <<>> \in Seq(Event) /\ <<>> \in Seq(Upward)
  BY EmptyQueue DEF QueueOK
<1>4. /\ down' \in [Users -> Seq(Event)] /\ up' \in [Users -> Seq(Upward)]
      /\ elements' \in [Users -> SUBSET Edits] /\ canvas' \in [Users -> SUBSET Strokes]
      /\ chat' \in [Users -> SUBSET Msgs]
  BY <1>2, <1>3 DEF TypeInv, TypeOK
<1>5. TypeOK'
  BY <1>1, <1>2, <1>4 DEF TypeInv, TypeOK
<1>6. \A v \in Users : QueueOK(down'[v]) /\ Outside(v)'
  <2>1. \A v \in Users : v # u =>
          /\ down'[v] = down[v] /\ up'[v] = up[v]
          /\ elements'[v] = elements[v] /\ canvas'[v] = canvas[v]
    BY <1>2 DEF TypeInv, TypeOK
  <2>2. down'[u] = <<>> /\ up'[u] = <<>> /\ elements'[u] = {} /\ canvas'[u] = {}
    BY <1>2 DEF TypeInv, TypeOK
  <2> QED BY <2>1, <2>2, <1>2, <1>3 DEF TypeInv, Outside
<1> QED BY <1>1, <1>2, <1>5, <1>6 DEF TypeInv

LEMMA RestartType ==
  ASSUME TypeInv, Restart
  PROVE  TypeInv'
<1>1. QueueOK(<<>>) /\ <<>> \in Seq(Event) /\ <<>> \in Seq(Upward)
  BY EmptyQueue DEF QueueOK
<1>2. /\ down' \in [Users -> Seq(Event)] /\ up' \in [Users -> Seq(Upward)]
      /\ elements' \in [Users -> SUBSET Edits] /\ canvas' \in [Users -> SUBSET Strokes]
      /\ chat' \in [Users -> SUBSET Msgs]
      /\ requests' \in [Requests -> Request] /\ \A r \in Requests : RequestOK(requests'[r])
      /\ \A u \in Users : QueueOK(down'[u]) /\ Outside(u)'
  BY <1>1, IdleOK DEF Restart, Outside
<1>3. TypeOK'
  BY <1>2 DEF Restart, TypeInv, TypeOK, Null
<1> QED BY <1>2, <1>3 DEF Restart, TypeInv

LEMMA DrawType ==
  ASSUME TypeInv, NEW u \in Users, DropCanvas(u) \/ \E s \in Strokes : HandleDraw(u, s)
  PROVE  TypeInv'
<1>1. /\ QueuesOK(down')
      /\ holder' \in Null(Users) /\ behind' \in SUBSET Users
      /\ following' \in SUBSET Users /\ following' \subseteq inside
      /\ UNCHANGED <<inside, whiteboardVars, saved, canvas, chatVars, requests>>
  <2>1. CASE DropCanvas(u)
    <3>1. {} \in SUBSET Strokes /\ "closed" \in OfCanvas
      BY DEF OfCanvas, Anew
    <3>2. QueuesOK(down')
      BY <3>1, <2>1, EmitOK, EventsOK DEF DropCanvas, FreeCanvas
    <3> QED BY <3>2, <2>1 DEF DropCanvas, FreeCanvas, TypeInv, TypeOK, Null
  <2>2. ASSUME NEW s \in Strokes, HandleDraw(u, s)
        PROVE  /\ QueuesOK(down')
               /\ UNCHANGED <<inside, whiteboardVars, canvasVars, chatVars, requests>>
    <3>1. {s} \in SUBSET Strokes /\ "draw" \in OfCanvas
      BY DEF OfCanvas
    <3> QED BY <3>1, <2>2, EmitOK, EventsOK DEF HandleDraw
  <2> QED BY <2>1, <2>2 DEF canvasVars, TypeInv, TypeOK
<1>2. TypeOK'
  BY <1>1 DEF TypeInv, TypeOK, whiteboardVars, chatVars, QueuesOK
<1>3. \A v \in Users : QueueOK(down'[v]) /\ Outside(v)'
  BY <1>1 DEF TypeInv, Outside, whiteboardVars, QueuesOK
<1> QED BY <1>1, <1>2, <1>3 DEF TypeInv

LEMMA TypeStep ==
  ASSUME TypeInv, [Next]_vars
  PROVE  TypeInv'
<1>1. ASSUME NEW r \in Requests, Resume(r) PROVE TypeInv'
  <2>1. Quiet(r) \/ Sends(r)
    BY <1>1 DEF Resume, Quiet, Sends
  <2> QED BY <2>1, QuietType, SendsType
<1>2. ASSUME NEW r \in Requests, NEW u \in Users, Receive(r, u) PROVE TypeInv'
  BY <1>2, ReceiveType
<1>3. ASSUME NEW u \in Users, Acts(u) PROVE TypeInv'
  BY <1>3, BoardType, DeliverType, GoneType, DrawType DEF Acts
<1>4. ASSUME UNCHANGED vars PROVE TypeInv'
  BY <1>4 DEF TypeInv, TypeOK, Outside, vars, whiteboardVars, canvasVars, chatVars
<1> QED BY <1>1, <1>2, <1>3, <1>4, RestartType DEF Next, Acts

\* Every variable of the boards keeps its type.
THEOREM BoardsType == Spec => []TypeOK
<1>1. Spec => []TypeInv
  BY InitType, TypeStep, PTL DEF Spec
<1>2. TypeInv => TypeOK
  BY DEF TypeInv
<1> QED BY <1>1, <1>2, PTL

-----------------------------------------------------------------------------
(* The canvas is the lock that the room keeps                              *)

\* Boards has one session, in which all are teachers.
Meeting == {"meeting"}
Room == INSTANCE CanvasLock WITH Sessions <- Meeting, Teachers <- Users \X Meeting,
                                 holder <- [s \in Meeting |-> holder]

\* The holder changes when a user takes the canvas that is free or theirs, and when
\* the canvas is freed.
LEMMA HolderStep ==
  ASSUME [Next]_vars
  PROVE  \/ holder' \in {holder, NoOne}
         \/ \E u \in Users : holder = NoOne /\ holder' = u
<1>1. ASSUME NEW r \in Requests, Resume(r) PROVE holder' \in {holder, NoOne}
  BY <1>1 DEF Resume, GetCanvasState, ShowCanvas, AnswerCanvasState, SaveClosing, CloseCanvas,
     FreeCanvas, SaveClearing, ClearCanvas, SaveMeetingMessage, PostMessage,
     GetMeetingMessages, SendHistory, Fail, canvasVars
<1>2. ASSUME NEW r \in Requests, NEW u \in Users, Receive(r, u)
      PROVE  holder' \in {holder, NoOne} \/ (holder = NoOne /\ holder' = u)
  BY <1>2 DEF Receive, JoinRoom, HandleOpenCanvas, HandleCloseCanvas, HandleClearCanvas,
     HandleGetCanvasState, HandleGetMessageHistory, HandleChatMessage, canvasVars
<1>3. ASSUME NEW u \in Users, Acts(u) PROVE holder' \in {holder, NoOne}
  BY <1>3 DEF Acts, AskForWhiteboard, HandleWhiteboardUpdate, HandleGetWhiteboardState,
     DropCanvas, FreeCanvas, LeaveRoom, Disconnect, Deliver, DrawElement, HandleDraw, canvasVars
<1>4. Restart => holder' = NoOne
  BY DEF Restart
<1>5. UNCHANGED vars => holder' = holder
  BY DEF vars, canvasVars
<1> QED BY <1>1, <1>2, <1>3, <1>4, <1>5 DEF Next, Acts

\* Whatever else the clients are sent, and whatever is restarted or comes late, the
\* canvas is passed on as MeetGateway passes it: it is a lock.
THEOREM CanvasIsRoomsLock == Spec => Room!Spec
<1> DEFINE held == [s \in Meeting |-> holder]
<1>1. Init => Room!Init
  BY DEF Init, Room!Init
<1>2. [Next]_vars => [Room!Next]_held
  <2> SUFFICES ASSUME [Next]_vars, held' # held PROVE Room!Next
    OBVIOUS
  <2>1. "meeting" \in Meeting /\ held["meeting"] = holder /\ held'["meeting"] = holder'
    BY DEF Meeting
  <2>2. holder' # holder
    BY DEF Meeting
  <2>3. \A x : [held EXCEPT !["meeting"] = x] = [s \in Meeting |-> x]
    BY DEF Meeting
  <2>4. CASE holder' = NoOne
    <3>1. Room!Close("meeting")
      BY <2>1, <2>2, <2>3, <2>4 DEF Room!Close
    <3> QED BY <2>1, <3>1 DEF Room!Next
  <2>5. ASSUME NEW u \in Users, holder = NoOne, holder' = u PROVE Room!Next
    <3>1. Room!Open(u, "meeting")
      BY <2>1, <2>3, <2>5 DEF Room!Open
    <3> QED BY <2>1, <3>1 DEF Room!Next
  <2> QED BY <2>2, <2>4, <2>5, HolderStep
<1> QED BY <1>1, <1>2, PTL DEF Spec, Room!Spec

-----------------------------------------------------------------------------
(* The chat                                                                *)

Carries(queue, m) == \E i \in DOMAIN queue : queue[i].kind \in OfChat /\ m \in queue[i].items

Posting(m) == \E r \in Requests : At(r, "posting") /\ m \in requests[r].items

\* In the queue of u it is in a message of the chat, or in the history.
ChatInv ==
  \A u \in inside \ unread : \A m \in stored \ chat[u] :
    Carries(down[u], m) \/ Recalled(u, m) \/ Posting(m)

LEMMA AppendCarries ==
  ASSUME NEW q \in Seq(Event), NEW e \in Event, NEW m
  PROVE  /\ Carries(q, m) => Carries(Append(q, e), m)
         /\ e.kind \in OfChat /\ m \in e.items => Carries(Append(q, e), m)
<1>1. /\ \A i \in DOMAIN q : i \in DOMAIN Append(q, e) /\ Append(q, e)[i] = q[i]
      /\ Len(q) + 1 \in DOMAIN Append(q, e) /\ Append(q, e)[Len(q) + 1] = e
  BY Appended
<1> QED BY <1>1 DEF Carries

\* What is on its way stays so when something else is sent.
LEMMA EmitCarries ==
  ASSUME TypeInv, NEW U, NEW kind \in Kinds, NEW items,
         EventOK(Message(kind, items)), Emit(U, kind, items), NEW u \in Users, NEW m
  PROVE  /\ Carries(down[u], m) => Carries(down'[u], m)
         /\ u \in U \cap inside /\ kind \in OfChat /\ m \in items => Carries(down'[u], m)
<1>1. down[u] \in Seq(Event) /\ Message(kind, items) \in Event
  BY DEF TypeInv, TypeOK, EventOK
<1>2. down'[u] = IF u \in U \cap inside THEN Append(down[u], Message(kind, items)) ELSE down[u]
  BY DEF Emit
<1>3. Message(kind, items).kind = kind /\ Message(kind, items).items = items
  BY DEF Message
<1> QED BY <1>1, <1>2, <1>3, AppendCarries

OfHistory == {"recalling", "reciting", "posting"}

\* Nothing is lost while the handlers of the chat stand still.
LEMMA ChatKept ==
  ASSUME TypeInv, ChatInv,
         UNCHANGED <<inside, chatVars>>,
         \A u \in Users : \A m : Carries(down[u], m) => Carries(down'[u], m),
         \A r \in Requests : requests[r].at \in OfHistory => requests'[r] = requests[r]
  PROVE  ChatInv'
<1>1. SUFFICES ASSUME NEW u \in inside \ unread, NEW m \in stored \ chat[u]
               PROVE  Carries(down[u], m)' \/ Recalled(u, m)' \/ Posting(m)'
  BY DEF ChatInv, chatVars
<1>2. u \in Users /\ (Carries(down[u], m) \/ Recalled(u, m) \/ Posting(m))
  BY DEF TypeInv, TypeOK, ChatInv
<1>3. CASE Recalled(u, m)
  BY <1>3 DEF Recalled, At, OfHistory
<1>4. CASE Posting(m)
  BY <1>4 DEF Posting, At, OfHistory
<1>5. CASE Carries(down[u], m)
  <2>1. Carries(down'[u], m)
    BY <1>5, <1>2
  <2> QED BY <2>1 DEF Carries
<1> QED BY <1>2, <1>3, <1>4, <1>5

LEMMA ChatQuiet ==
  ASSUME TypeInv, ChatInv, NEW r \in Requests, Quiet(r)
  PROVE  ChatInv'
<1>0. requests \in [Requests -> Request]
  BY DEF TypeInv, TypeOK
<1>1. CASE GetCanvasState(r) \/ SaveClosing(r) \/ SaveClearing(r)
  <2>1. UNCHANGED <<inside, down, chatVars>>
    BY <1>1 DEF GetCanvasState, SaveClosing, SaveClearing
  <2>2. \A q \in Requests : requests[q].at \in OfHistory => requests'[q] = requests[q]
    BY <1>0, <1>1 DEF GetCanvasState, SaveClosing, SaveClearing, SaveCanvas, At, OfHistory
  <2> QED BY <2>1, <2>2, ChatKept
<1>2. CASE SaveMeetingMessage(r)
  <2>1. /\ requests[r].at = "saving"
        /\ requests' = [requests EXCEPT ![r].at = "posting"]
        /\ stored' = stored \/ stored' = stored \cup requests[r].items
        /\ UNCHANGED <<inside, down, chat, unread>>
    BY <1>2 DEF SaveMeetingMessage, At, GoTo
  <2>2. /\ requests'[r].at = "posting" /\ requests'[r].items = requests[r].items
        /\ \A q \in Requests : q # r => requests'[q] = requests[q]
    BY <2>1, <1>0 DEF Request
  <2>3. SUFFICES ASSUME NEW u \in inside \ unread, NEW m \in stored' \ chat[u]
                 PROVE  Carries(down[u], m)' \/ Recalled(u, m)' \/ Posting(m)'
    BY <2>1 DEF ChatInv
  <2>4. CASE m \in requests[r].items
    BY <2>4, <2>2 DEF Posting, At
  <2>5. CASE m \in stored
    <3>1. Carries(down[u], m) \/ Recalled(u, m) \/ Posting(m)
      BY <2>5 DEF ChatInv
    <3>2. Carries(down[u], m) => Carries(down[u], m)'
      BY <2>1 DEF Carries
    <3>3. Recalled(u, m) => Recalled(u, m)'
      BY <2>1, <2>2 DEF Recalled, At
    <3>4. Posting(m) => Posting(m)'
      BY <2>1, <2>2 DEF Posting, At
    <3> QED BY <3>1, <3>2, <3>3, <3>4
  <2> QED BY <2>1, <2>4, <2>5
<1>3. CASE GetMeetingMessages(r)
  <2>1. /\ requests[r].at = "recalling"
        /\ requests' = [requests EXCEPT ![r].at = "reciting", ![r].items = stored]
        /\ UNCHANGED <<inside, down, chatVars>>
    BY <1>3 DEF GetMeetingMessages, At
  <2>2. /\ requests'[r].at = "reciting" /\ requests'[r].items = stored
        /\ requests'[r].user = requests[r].user
        /\ \A q \in Requests : q # r => requests'[q] = requests[q]
    BY <2>1, <1>0 DEF Request
  <2>3. SUFFICES ASSUME NEW u \in inside \ unread, NEW m \in stored \ chat[u]
                 PROVE  Carries(down[u], m)' \/ Recalled(u, m)' \/ Posting(m)'
    BY <2>1 DEF ChatInv, chatVars
  <2>4. Carries(down[u], m) \/ Recalled(u, m) \/ Posting(m)
    BY DEF ChatInv
  <2>5. Carries(down[u], m) => Carries(down[u], m)'
    BY <2>1 DEF Carries
  <2>6. Recalled(u, m) => Recalled(u, m)'
    BY <2>1, <2>2 DEF Recalled, At
  <2>7. Posting(m) => Posting(m)'
    BY <2>1, <2>2 DEF Posting, At
  <2> QED BY <2>4, <2>5, <2>6, <2>7
<1>4. CASE Fail(r)
  <2>1. /\ requests' = [requests EXCEPT ![r] = Idle]
        /\ requests[r].at \in {"opening", "closing", "clearing", "fetching", "recalling"}
        /\ UNCHANGED <<inside, down, stored, chat>>
        /\ unread' = IF At(r, "recalling") THEN unread \cup ({requests[r].user} \cap inside)
                                           ELSE unread
    BY <1>4 DEF Fail, Finish
  <2>2. \A q \in Requests : q # r => requests'[q] = requests[q]
    BY <2>1, <1>0
  <2>3. SUFFICES ASSUME NEW u \in inside \ unread', NEW m \in stored \ chat[u]
                 PROVE  Carries(down[u], m)' \/ Recalled(u, m)' \/ Posting(m)'
    BY <2>1 DEF ChatInv
  <2>4. u \notin unread /\ (At(r, "recalling") => requests[r].user # u)
    BY <2>1
  <2>5. Carries(down[u], m) \/ Recalled(u, m) \/ Posting(m)
    BY <2>4 DEF ChatInv
  <2>6. Carries(down[u], m) => Carries(down[u], m)'
    BY <2>1 DEF Carries
  <2>7. Recalled(u, m) => Recalled(u, m)'
    BY <2>1, <2>2, <2>4 DEF Recalled, At
  <2>8. Posting(m) => Posting(m)'
    BY <2>1, <2>2 DEF Posting, At
  <2> QED BY <2>5, <2>6, <2>7, <2>8
<1> QED BY <1>1, <1>2, <1>3, <1>4 DEF Quiet

CarriesOn(queues) == \A u \in Users : \A m : Carries(down[u], m) => Carries(queues[u], m)

LEMMA EmitCarriesOn ==
  ASSUME TypeInv, NEW U, NEW kind \in Kinds, NEW items,
         EventOK(Message(kind, items)), Emit(U, kind, items)
  PROVE  CarriesOn(down')
BY EmitCarries DEF CarriesOn

LEMMA ChatSends ==
  ASSUME TypeInv, ChatInv, NEW r \in Requests, Sends(r)
  PROVE  ChatInv'
<1>0. requests \in [Requests -> Request] /\ RequestOK(requests[r])
  BY DEF TypeInv, TypeOK
<1> USE DEF Finish
<1>1. ASSUME ShowCanvas(r) \/ AnswerCanvasState(r) \/ CloseCanvas(r) \/ ClearCanvas(r)
      PROVE  ChatInv'
  <2>1. UNCHANGED <<inside, chatVars>>
    BY <1>1 DEF ShowCanvas, AnswerCanvasState, CloseCanvas, ClearCanvas
  <2>2. \A q \in Requests : requests[q].at \in OfHistory => requests'[q] = requests[q]
    BY <1>0, <1>1 DEF ShowCanvas, AnswerCanvasState, CloseCanvas, ClearCanvas, At, OfHistory
  <2>3. requests[r].at \in {"showing", "answering"} => requests[r].items \in SUBSET Strokes
    BY <1>0 DEF RequestOK
  <2>4. {} \in SUBSET Strokes /\ {"opened", "canvas", "cleared", "closed"} \subseteq OfCanvas
    BY DEF OfCanvas, Anew
  <2>5. CarriesOn(down')
    <3>1. CASE ShowCanvas(r)
      BY <3>1, <2>3, <2>4, EmitCarriesOn, EventsOK DEF ShowCanvas, At
    <3>2. CASE AnswerCanvasState(r)
      BY <3>2, <2>3, <2>4, EmitCarriesOn, EventsOK DEF AnswerCanvasState, At
    <3>3. CASE CloseCanvas(r)
      BY <3>3, <2>4, EmitCarriesOn, EventsOK DEF CloseCanvas, FreeCanvas
    <3>4. CASE ClearCanvas(r)
      BY <3>4, <2>4, EmitCarriesOn, EventsOK DEF ClearCanvas
    <3> QED BY <1>1, <3>1, <3>2, <3>3, <3>4
  <2> QED BY <2>1, <2>2, <2>5, ChatKept DEF CarriesOn
<1>2. ASSUME PostMessage(r) \/ SendHistory(r) PROVE ChatInv'
  <2> DEFINE U == IF At(r, "posting") THEN Users ELSE {requests[r].user}
             kind == IF At(r, "posting") THEN "chat" ELSE "history"
  <2>1. /\ requests[r].at \in {"posting", "reciting"}
        /\ Emit(U, kind, requests[r].items)
        /\ requests' = [requests EXCEPT ![r] = Idle]
        /\ UNCHANGED <<inside, chatVars>>
    <3>1. CASE PostMessage(r)
      BY <3>1 DEF PostMessage, At
    <3>2. CASE SendHistory(r)
      BY <3>2 DEF SendHistory, At
    <3> QED BY <1>2, <3>1, <3>2
  <2>2. requests[r].items \in SUBSET Msgs /\ kind \in OfChat
    BY <2>1, <1>0 DEF RequestOK, OfChat
  <2>3. kind \in Kinds /\ EventOK(Message(kind, requests[r].items))
    BY <2>2, EventsOK
  <2>4. \A q \in Requests : q # r => requests'[q] = requests[q]
    BY <2>1, <1>0
  <2>5. ASSUME NEW u \in Users, NEW m
        PROVE  /\ Carries(down[u], m) => Carries(down'[u], m)
               /\ u \in U \cap inside /\ m \in requests[r].items => Carries(down'[u], m)
    BY <2>1, <2>2, <2>3, EmitCarries
  <2>6. SUFFICES ASSUME NEW u \in inside \ unread, NEW m \in stored \ chat[u]
                 PROVE  Carries(down[u], m)' \/ Recalled(u, m)' \/ Posting(m)'
    BY <2>1 DEF ChatInv, chatVars
  <2>7. u \in Users /\ (Carries(down[u], m) \/ Recalled(u, m) \/ Posting(m))
    BY DEF ChatInv, TypeInv, TypeOK
  <2>8. Carries(down'[u], m) => Carries(down[u], m)'
    BY DEF Carries
  <2>9. Recalled(u, m) => Recalled(u, m)' \/ Carries(down'[u], m)
    <3>1. SUFFICES ASSUME Recalled(u, m) PROVE Recalled(u, m)' \/ Carries(down'[u], m)
      OBVIOUS
    <3>2. PICK p \in Requests : /\ requests[p].user = u
                                /\ At(p, "recalling") \/ (At(p, "reciting") /\ m \in requests[p].items)
      BY <3>1 DEF Recalled
    <3>3. CASE p = r
      BY <3>3, <3>2, <2>1, <2>5, <2>7 DEF At
    <3>4. CASE p # r
      BY <3>4, <3>2, <2>4 DEF Recalled, At
    <3> QED BY <3>3, <3>4
  <2>10. Posting(m) => Posting(m)' \/ Carries(down'[u], m)
    <3>1. SUFFICES ASSUME Posting(m) PROVE Posting(m)' \/ Carries(down'[u], m)
      OBVIOUS
    <3>2. PICK p \in Requests : At(p, "posting") /\ m \in requests[p].items
      BY <3>1 DEF Posting
    <3>3. CASE p = r
      BY <3>3, <3>2, <2>1, <2>5, <2>7 DEF At
    <3>4. CASE p # r
      BY <3>4, <3>2, <2>4 DEF Posting, At
    <3> QED BY <3>3, <3>4
  <2> QED BY <2>5, <2>7, <2>8, <2>9, <2>10
<1> QED BY <1>1, <1>2 DEF Sends

LEMMA ChatReceive ==
  ASSUME TypeInv, ChatInv, NEW r \in Requests, NEW u \in Users, Receive(r, u)
  PROVE  ChatInv'
<1>0. requests \in [Requests -> Request]
  BY DEF TypeInv, TypeOK
<1> USE DEF Start
<1>1. CASE JoinRoom(r, u)
  <2>1. /\ requests[r] = Idle
        /\ requests' = [requests EXCEPT ![r] = [Idle EXCEPT !.at = "recalling", !.user = u]]
        /\ inside' = inside \cup {u}
        /\ UNCHANGED <<down, chatVars>>
    BY <1>1 DEF JoinRoom
  <2>2. /\ requests'[r].at = "recalling" /\ requests'[r].user = u
        /\ \A q \in Requests : q # r => requests'[q] = requests[q]
        /\ requests[r].at = "idle"
    BY <2>1, <1>0 DEF Idle
  <2>3. SUFFICES ASSUME NEW v \in inside' \ unread, NEW m \in stored \ chat[v]
                 PROVE  Carries(down[v], m)' \/ Recalled(v, m)' \/ Posting(m)'
    BY <2>1 DEF ChatInv, chatVars
  <2>4. CASE v = u
    BY <2>4, <2>2 DEF Recalled, At
  <2>5. CASE v # u
    <3>1. Carries(down[v], m) \/ Recalled(v, m) \/ Posting(m)
      BY <2>5, <2>1 DEF ChatInv
    <3>2. Carries(down[v], m) => Carries(down[v], m)'
      BY <2>1 DEF Carries
    <3>3. Recalled(v, m) => Recalled(v, m)'
      BY <2>2 DEF Recalled, At
    <3>4. Posting(m) => Posting(m)'
      BY <2>2 DEF Posting, At
    <3> QED BY <3>1, <3>2, <3>3, <3>4
  <2> QED BY <2>4, <2>5
<1>2. ASSUME Receive(r, u), ~JoinRoom(r, u) PROVE ChatInv'
  <2>1. /\ requests' = requests \/ (requests[r] = Idle /\ \E q : requests' = [requests EXCEPT ![r] = q])
        /\ UNCHANGED <<inside, chatVars>>
    BY <1>2 DEF Receive, HandleOpenCanvas, HandleCloseCanvas, HandleClearCanvas,
                HandleGetCanvasState, HandleGetMessageHistory, HandleChatMessage
  <2>2. \A q \in Requests : requests[q].at \in OfHistory => requests'[q] = requests[q]
    BY <2>1, <1>0 DEF OfHistory, Idle
  <2>3. down' = down \/ (HandleGetCanvasState(r, u) /\ holder = NoOne)
    BY <1>2 DEF Receive, HandleOpenCanvas, HandleCloseCanvas, HandleClearCanvas,
                HandleGetCanvasState, HandleGetMessageHistory, HandleChatMessage
  <2>4. CarriesOn(down')
    <3>1. CASE down' = down
      BY <3>1 DEF CarriesOn
    <3>2. CASE HandleGetCanvasState(r, u) /\ holder = NoOne
      <4>1. {} \in SUBSET Strokes /\ "canvas" \in OfCanvas
        BY DEF OfCanvas, Anew
      <4> QED BY <4>1, <3>2, EmitCarriesOn, EventsOK DEF HandleGetCanvasState
    <3> QED BY <2>3, <3>1, <3>2
  <2> QED BY <2>1, <2>2, <2>4, ChatKept DEF CarriesOn
<1> QED BY <1>1, <1>2

LEMMA ChatActs ==
  ASSUME TypeInv, ChatInv, NEW u \in Users, Acts(u)
  PROVE  ChatInv'
<1>1. ASSUME UNCHANGED <<inside, chatVars, requests>>, CarriesOn(down') PROVE ChatInv'
  BY <1>1, ChatKept DEF CarriesOn
<1>2. CASE AskForWhiteboard(u) \/ \E e \in Edits : DrawElement(u, e)
  BY <1>2, <1>1 DEF AskForWhiteboard, DrawElement, CarriesOn
<1>3. CASE HandleWhiteboardUpdate(u)
  <2>1. Head(up[u]).items \in SUBSET Edits /\ "update" \in OfWhiteboard
    BY <1>3, HeadType DEF HandleWhiteboardUpdate, OfWhiteboard
  <2>2. CarriesOn(down')
    BY <2>1, <1>3, EmitCarriesOn, EventsOK DEF HandleWhiteboardUpdate
  <2> QED BY <2>2, <1>3, <1>1 DEF HandleWhiteboardUpdate
<1>4. CASE HandleGetWhiteboardState(u)
  <2>1. board \in SUBSET Edits /\ "state" \in OfWhiteboard
    BY DEF TypeInv, TypeOK, OfWhiteboard
  <2>2. CarriesOn(down')
    <3>1. CASE board = {}
      BY <3>1, <1>4 DEF HandleGetWhiteboardState, CarriesOn
    <3>2. CASE board # {}
      BY <3>2, <2>1, <1>4, EmitCarriesOn, EventsOK DEF HandleGetWhiteboardState
    <3> QED BY <3>1, <3>2
  <2> QED BY <2>2, <1>4, <1>1 DEF HandleGetWhiteboardState
<1>5. CASE DropCanvas(u)
  <2>1. {} \in SUBSET Strokes /\ "closed" \in OfCanvas
    BY DEF OfCanvas, Anew
  <2>2. CarriesOn(down')
    BY <2>1, <1>5, EmitCarriesOn, EventsOK DEF DropCanvas, FreeCanvas
  <2> QED BY <2>2, <1>5, <1>1 DEF DropCanvas
<1>6. ASSUME NEW s \in Strokes, HandleDraw(u, s) PROVE ChatInv'
  <2>1. {s} \in SUBSET Strokes /\ "draw" \in OfCanvas
    BY DEF OfCanvas
  <2>2. CarriesOn(down')
    BY <2>1, <1>6, EmitCarriesOn, EventsOK DEF HandleDraw
  <2> QED BY <2>2, <1>6, <1>1 DEF HandleDraw
<1>7. CASE LeaveRoom(u) \/ Disconnect(u)
  <2>1. /\ inside' = inside \ {u} /\ unread' = unread \ {u}
        /\ down' = [down EXCEPT ![u] = <<>>] /\ chat' = [chat EXCEPT ![u] = {}]
        /\ UNCHANGED <<stored, requests>>
    BY <1>7 DEF LeaveRoom, Disconnect, Gone, Fresh
  <2>2. SUFFICES ASSUME NEW v \in inside' \ unread', NEW m \in stored \ chat'[v]
                 PROVE  Carries(down[v], m)' \/ Recalled(v, m)' \/ Posting(m)'
    BY <2>1 DEF ChatInv
  <2>3. v \in Users /\ v # u /\ v \in inside \ unread
    BY <2>1 DEF TypeInv, TypeOK
  <2>4. down'[v] = down[v] /\ chat'[v] = chat[v]
    BY <2>1, <2>3 DEF TypeInv, TypeOK
  <2>5. Carries(down[v], m) \/ Recalled(v, m) \/ Posting(m)
    BY <2>3, <2>4 DEF ChatInv
  <2> QED BY <2>1, <2>4, <2>5 DEF Carries, Recalled, Posting, At
<1>8. CASE Deliver(u)
  <2> DEFINE event == Head(down[u])
  <2>1. /\ down[u] # <<>> /\ down[u] \in Seq(Event)
        /\ down' = [down EXCEPT ![u] = Tail(@)]
        /\ chat' = [chat EXCEPT ![u] = Shows(@, event, OfChat, {})]
        /\ UNCHANGED <<inside, stored, unread, requests>>
    BY <1>8 DEF Deliver, TypeInv, TypeOK
  <2>2. SUFFICES ASSUME NEW v \in inside \ unread, NEW m \in stored \ chat'[v]
                 PROVE  Carries(down[v], m)' \/ Recalled(v, m)' \/ Posting(m)'
    BY <2>1 DEF ChatInv
  <2>3. v \in Users
    BY DEF TypeInv, TypeOK
  <2>4. CASE v # u
    <3>1. down'[v] = down[v] /\ chat'[v] = chat[v]
      BY <2>1, <2>3, <2>4 DEF TypeInv, TypeOK
    <3>2. Carries(down[v], m) \/ Recalled(v, m) \/ Posting(m)
      BY <3>1 DEF ChatInv
    <3> QED BY <2>1, <3>1, <3>2 DEF Carries, Recalled, Posting, At
  <2>5. CASE v = u
    <3>1. down'[v] = Tail(down[u]) /\ chat'[v] = Shows(chat[u], event, OfChat, {})
      BY <2>1, <2>5 DEF TypeInv, TypeOK
    <3>2. m \notin chat[u] /\ (event.kind \in OfChat => m \notin event.items)
      BY <3>1 DEF Shows
    <3>3. Carries(down[v], m) \/ Recalled(v, m) \/ Posting(m)
      BY <3>2, <2>5 DEF ChatInv
    <3>4. Carries(down[u], m) => Carries(Tail(down[u]), m)
      <4>1. /\ event = down[u][1]
            /\ \A i \in DOMAIN down[u] : i # 1 =>
                 i - 1 \in DOMAIN Tail(down[u]) /\ Tail(down[u])[i - 1] = down[u][i]
        BY <2>1, Shifted
      <4> HIDE DEF event
      <4> QED BY <4>1, <3>2 DEF Carries
    <3> QED BY <2>1, <2>5, <3>1, <3>3, <3>4 DEF Carries, Recalled, Posting, At
  <2> QED BY <2>4, <2>5
<1> QED BY <1>2, <1>3, <1>4, <1>5, <1>6, <1>7, <1>8 DEF Acts

\* A message in the database that a participant does not show is on its way to it, or
\* read for it, unless the read has failed.
THEOREM MessagesReachAll == Spec => []ChatNotMissed
<1>1. Init => ChatInv
  BY DEF Init, ChatInv
<1>2. ASSUME TypeInv, ChatInv, [Next]_vars PROVE ChatInv'
  <2>1. ASSUME NEW r \in Requests, Resume(r) PROVE ChatInv'
    <3>1. Quiet(r) \/ Sends(r)
      BY <2>1 DEF Resume, Quiet, Sends
    <3> QED BY <1>2, <3>1, ChatQuiet, ChatSends
  <2>2. ASSUME NEW r \in Requests, NEW u \in Users, Receive(r, u) PROVE ChatInv'
    BY <1>2, <2>2, ChatReceive
  <2>3. ASSUME NEW u \in Users, Acts(u) PROVE ChatInv'
    BY <1>2, <2>3, ChatActs
  <2>4. CASE Restart
    BY <2>4 DEF Restart, ChatInv
  <2>5. CASE UNCHANGED vars
    BY <1>2, <2>5 DEF ChatInv, Carries, Recalled, Posting, At, vars, chatVars
  <2> QED BY <1>2, <2>1, <2>2, <2>3, <2>4, <2>5 DEF Next, Acts
<1>3. ChatInv => ChatNotMissed
  BY DEF ChatInv, ChatNotMissed, Carries, Posting
<1> QED BY <1>1, <1>2, <1>3, InitType, TypeStep, PTL DEF Spec

-----------------------------------------------------------------------------
(* The canvas                                                              *)

Holding == {"showing", "closing", "answering"}

\* Whose client is not behind comes to show all that is saved; what a handler has read,
\* or is to save, contains it, unless it is stale.
CanvasInv ==
  /\ \A u \in inside \ behind : saved \subseteq CanvasAhead(u)
  /\ \A r \in Requests :
       requests[r].at \in Holding /\ ~requests[r].stale => saved \subseteq requests[r].items
  /\ FollowersAgree

\* What a client comes to show of the canvas when something is sent.
LEMMA CanvasSent ==
  ASSUME TypeInv, NEW U, NEW kind \in Kinds, NEW items,
         EventOK(Message(kind, items)), Emit(U, kind, items), canvas' = canvas,
         NEW u \in Users
  PROVE  /\ u \notin U \cap inside \/ kind \notin OfCanvas => CanvasAhead(u)' = CanvasAhead(u)
         /\ u \in U \cap inside /\ kind \in Anew => CanvasAhead(u)' = items
         /\ u \in U \cap inside /\ kind = "draw" => CanvasAhead(u)' = CanvasAhead(u) \cup items
<1> DEFINE e == Message(kind, items)
<1>1. down[u] \in Seq(Event) /\ e \in Event
  BY DEF TypeInv, TypeOK, EventOK
<1>2. down'[u] = IF u \in U \cap inside THEN Append(down[u], e) ELSE down[u]
  BY DEF Emit
<1>3. e.kind = kind /\ e.items = items /\ (kind \in OfCanvas => items \subseteq Strokes)
  BY DEF Message, EventOK
<1> HIDE DEF e
<1>4. CASE u \notin U \cap inside
  BY <1>4, <1>2 DEF CanvasAhead, Anew
<1>5. CASE u \in U \cap inside
  <2>1. Ahead(Append(down[u], e), canvas[u], OfCanvas, Anew)
          = Shows(Ahead(down[u], canvas[u], OfCanvas, Anew), e, OfCanvas, Anew)
              \cap (Edits \cup Strokes)
    BY <1>1, AheadAppend
  <2>2. CanvasAhead(u)' = Shows(CanvasAhead(u), e, OfCanvas, Anew) \cap (Edits \cup Strokes)
    BY <2>1, <1>2, <1>5 DEF CanvasAhead
  <2>3. CanvasAhead(u) \subseteq Edits \cup Strokes
    BY DEF CanvasAhead, Ahead
  <2>4. kind \notin OfCanvas => CanvasAhead(u)' = CanvasAhead(u)
    BY <2>2, <2>3, <1>3 DEF Shows, OfCanvas
  <2>5. kind \in Anew => CanvasAhead(u)' = items
    BY <2>2, <2>3, <1>3 DEF Shows, OfCanvas
  <2>6. kind = "draw" => CanvasAhead(u)' = CanvasAhead(u) \cup items
    BY <2>2, <2>3, <1>3 DEF Shows, OfCanvas, Anew
  <2> QED BY <2>4, <2>5, <2>6, <1>5
<1> QED BY <1>4, <1>5

\* With nothing on its way, what it shows.
LEMMA NothingAhead ==
  ASSUME TypeInv, NEW u \in Users, ~OnTheWay(u, OfCanvas)
  PROVE  CanvasAhead(u) \subseteq canvas[u]
BY DEF OnTheWay, CanvasAhead, Ahead

\* Nobody is worse off when no event of the canvas is sent.
LEMMA CanvasKept ==
  ASSUME TypeInv, CanvasInv, saved' = saved,
         inside' \subseteq inside, behind \cap inside' \subseteq behind', following' \subseteq following,
         \A u \in inside' : CanvasAhead(u)' = CanvasAhead(u),
         following' \subseteq inside',
         \A r \in Requests : requests'[r].at \in Holding /\ ~requests'[r].stale =>
           requests'[r] = requests[r] \/ saved \subseteq requests'[r].items
  PROVE  CanvasInv'
<1>1. ASSUME NEW u \in inside' \ behind' PROVE saved' \subseteq CanvasAhead(u)'
  <2>1. u \in inside \ behind /\ CanvasAhead(u)' = CanvasAhead(u)
    OBVIOUS
  <2> QED BY <2>1 DEF CanvasInv
<1>2. ASSUME NEW r \in Requests, requests'[r].at \in Holding, ~requests'[r].stale
      PROVE  saved' \subseteq requests'[r].items
  BY <1>2 DEF CanvasInv
<1>3. ASSUME NEW u \in following', NEW v \in following'
      PROVE  CanvasAhead(u)' = CanvasAhead(v)'
  <2>1. /\ u \in following /\ v \in following
        /\ CanvasAhead(u)' = CanvasAhead(u) /\ CanvasAhead(v)' = CanvasAhead(v)
    OBVIOUS
  <2> QED BY <2>1 DEF CanvasInv, FollowersAgree
<1> QED BY <1>1, <1>2, <1>3 DEF CanvasInv, FollowersAgree

\* Everybody is made to show the same.
LEMMA CanvasRenewed ==
  ASSUME TypeInv, CanvasInv, NEW kind \in Anew, NEW items \in SUBSET Strokes,
         Emit(Users, kind, items),
         UNCHANGED <<inside, canvas, saved>>, following' = inside,
         inside \subseteq behind' \/ saved \subseteq items,
         \A r \in Requests : requests'[r].at \in Holding => requests'[r] = requests[r]
  PROVE  CanvasInv'
<1>1. kind \in OfCanvas /\ kind \in Kinds /\ EventOK(Message(kind, items))
  BY EventsOK DEF OfCanvas
<1>2. \A u \in inside : u \in Users /\ CanvasAhead(u)' = items
  <2>1. inside \subseteq Users
    BY DEF TypeInv, TypeOK
  <2> QED BY <2>1, <1>1, CanvasSent
<1>3. ASSUME NEW u \in inside' \ behind' PROVE saved' \subseteq CanvasAhead(u)'
  BY <1>2
<1>4. ASSUME NEW r \in Requests, requests'[r].at \in Holding, ~requests'[r].stale
      PROVE  saved' \subseteq requests'[r].items
  BY <1>4 DEF CanvasInv
<1>5. ASSUME NEW u \in following', NEW v \in following'
      PROVE  CanvasAhead(u)' = CanvasAhead(v)'
  BY <1>2
<1> QED BY <1>3, <1>4, <1>5 DEF CanvasInv, FollowersAgree

LEMMA CanvasQuiet ==
  ASSUME TypeInv, CanvasInv, NEW r \in Requests, Quiet(r)
  PROVE  CanvasInv'
<1>0. requests \in [Requests -> Request] /\ inside \subseteq Users
  BY DEF TypeInv, TypeOK
<1>1. /\ UNCHANGED <<inside, down, canvas, following>>
      /\ \A u : CanvasAhead(u)' = CanvasAhead(u)
  BY DEF Quiet, GetCanvasState, SaveClosing, SaveClearing, SaveMeetingMessage,
         GetMeetingMessages, Fail, canvasVars, CanvasAhead
<1>2. CASE SaveClosing(r) \/ SaveClearing(r)
  <2>1. PICK step \in {"freeing", "wiping"} :
          requests' = [q \in Requests |->
            CASE q = r -> [requests[r] EXCEPT !.at = step, !.items = {}, !.stale = FALSE]
              [] q # r /\ requests[q].at \in {"showing", "closing", "answering"}
                   -> [requests[q] EXCEPT !.stale = TRUE]
              [] OTHER -> requests[q]]
    BY <1>2 DEF SaveClosing, SaveClearing, SaveCanvas
  <2>2. ASSUME NEW q \in Requests PROVE requests'[q].at \in Holding => requests'[q].stale
    <3>1. CASE q = r
      <4>1. requests'[r].at = step
        BY <2>1, <1>0 DEF Request
      <4> QED BY <4>1, <3>1 DEF Holding
    <3>2. CASE q # r /\ requests[q].at \in Holding
      <4>1. requests'[q] = [requests[q] EXCEPT !.stale = TRUE]
        BY <3>2, <2>1 DEF Holding
      <4> QED BY <4>1, <1>0 DEF Request
    <3>3. CASE q # r /\ requests[q].at \notin Holding
      BY <3>3, <2>1 DEF Holding
    <3> QED BY <3>1, <3>2, <3>3
  <2>3. behind' = inside \/ saved' = {}
    BY <1>2 DEF SaveClosing, SaveClearing, SaveCanvas
  <2>4. \A u \in inside' \ behind' : saved' \subseteq CanvasAhead(u)'
    BY <2>3, <1>1
  <2>5. FollowersAgree'
    BY <1>1 DEF CanvasInv, FollowersAgree
  <2> QED BY <2>2, <2>4, <2>5 DEF CanvasInv
<1>3. CASE ~SaveClosing(r) /\ ~SaveClearing(r)
  <2>1. UNCHANGED <<saved, behind>>
    BY <1>3 DEF Quiet, GetCanvasState, SaveMeetingMessage, GetMeetingMessages, Fail, canvasVars
  <2>2. \A q \in Requests : q # r => requests'[q] = requests[q]
    BY <1>3, <1>0 DEF Quiet, GetCanvasState, SaveMeetingMessage, GetMeetingMessages, Fail,
                       Finish, GoTo
  <2>3. requests'[r].at \in Holding => saved \subseteq requests'[r].items
    <3>1. CASE GetCanvasState(r)
      <4>1. requests' = [requests EXCEPT
              ![r].at = IF At(r, "opening") THEN "showing" ELSE "answering", ![r].items = saved]
        BY <3>1 DEF GetCanvasState
      <4>2. requests'[r].items = saved
        BY <4>1, <1>0 DEF Request
      <4> QED BY <4>2
    <3>2. CASE ~GetCanvasState(r)
      <4>1. requests'[r].at \in {"posting", "reciting", "idle"}
        BY <3>2, <1>3, <1>0 DEF Quiet, SaveMeetingMessage, GetMeetingMessages, Fail, Finish,
                                 GoTo, Idle, Request
      <4> QED BY <4>1 DEF Holding
    <3> QED BY <3>1, <3>2
  <2>4. following \subseteq inside
    BY DEF TypeInv
  <2> QED BY <2>1, <2>2, <2>3, <2>4, <1>1, CanvasKept
<1> QED BY <1>2, <1>3

\* One who asks is sent what is saved, or was.
LEMMA CanvasAnswered ==
  ASSUME TypeInv, CanvasInv, NEW u, NEW items \in SUBSET Strokes,
         Emit({u}, "canvas", items),
         UNCHANGED <<inside, canvas, saved>>, following' = following \ {u},
         behind \ {u} \subseteq behind', u \in behind' \/ u \notin inside \/ saved \subseteq items,
         \A r \in Requests : requests'[r].at \in Holding => requests'[r] = requests[r]
  PROVE  CanvasInv'
<1>1. /\ "canvas" \in Anew /\ "canvas" \in Kinds /\ EventOK(Message("canvas", items))
      /\ inside \subseteq Users /\ following \subseteq inside
  BY EventsOK DEF OfCanvas, Anew, TypeInv, TypeOK
<1>2. \A v \in Users : /\ v # u => CanvasAhead(v)' = CanvasAhead(v)
                       /\ v = u /\ u \in inside => CanvasAhead(v)' = items
  <2> DEFINE U == {u}
  <2>1. Emit(U, "canvas", items) /\ canvas' = canvas
    OBVIOUS
  <2>2. \A v : v \in U <=> v = u
    OBVIOUS
  <2> HIDE DEF U
  <2>3. ASSUME NEW v \in Users
        PROVE  /\ v \notin U \cap inside => CanvasAhead(v)' = CanvasAhead(v)
               /\ v \in U \cap inside => CanvasAhead(v)' = items
    BY <1>1, <2>1, CanvasSent
  <2> QED BY <2>2, <2>3
<1>3. ASSUME NEW v \in inside' \ behind' PROVE saved' \subseteq CanvasAhead(v)'
  <2>1. CASE v = u
    BY <2>1, <1>1, <1>2
  <2>2. CASE v # u
    <3>1. v \in inside \ behind /\ v \in Users
      BY <2>2, <1>1
    <3>2. CanvasAhead(v)' = CanvasAhead(v) /\ saved \subseteq CanvasAhead(v)
      BY <3>1, <2>2, <1>2 DEF CanvasInv
    <3> QED BY <3>2
  <2> QED BY <2>1, <2>2
<1>4. ASSUME NEW r \in Requests, requests'[r].at \in Holding, ~requests'[r].stale
      PROVE  saved' \subseteq requests'[r].items
  BY <1>4 DEF CanvasInv
<1>5. ASSUME NEW v \in following', NEW w \in following'
      PROVE  CanvasAhead(v)' = CanvasAhead(w)'
  <2>1. /\ v \in Users /\ v # u /\ v \in following
        /\ w \in Users /\ w # u /\ w \in following
    BY <1>1
  <2>2. CanvasAhead(v)' = CanvasAhead(v) /\ CanvasAhead(w)' = CanvasAhead(w)
    BY <2>1, <1>2
  <2> QED BY <2>1, <2>2 DEF CanvasInv, FollowersAgree
<1> QED BY <1>3, <1>4, <1>5 DEF CanvasInv, FollowersAgree

\* What is sent of the whiteboard or the chat is no matter.
LEMMA CanvasIgnores ==
  ASSUME TypeInv, CanvasInv, NEW U, NEW kind \in OfWhiteboard \cup OfChat, NEW items,
         EventOK(Message(kind, items)), Emit(U, kind, items),
         UNCHANGED <<inside, canvasVars>>,
         \A r \in Requests : requests'[r].at \in Holding => requests'[r] = requests[r]
  PROVE  CanvasInv'
<1>1. kind \in Kinds /\ kind \notin OfCanvas
  BY EventsOK DEF OfWhiteboard, OfChat, OfCanvas, Anew
<1>2. \A u \in inside' : CanvasAhead(u)' = CanvasAhead(u)
  <2>1. inside' \subseteq Users /\ canvas' = canvas
    BY DEF TypeInv, TypeOK, canvasVars
  <2> QED BY <2>1, <1>1, CanvasSent
<1>3. /\ saved' = saved /\ inside' \subseteq inside /\ behind \cap inside' \subseteq behind'
      /\ following' \subseteq following /\ following' \subseteq inside'
  BY DEF canvasVars, TypeInv
<1> QED BY <1>2, <1>3, CanvasKept

LEMMA CanvasSends ==
  ASSUME TypeInv, CanvasInv, NEW r \in Requests, Sends(r)
  PROVE  CanvasInv'
<1>0. requests \in [Requests -> Request] /\ RequestOK(requests[r])
  BY DEF TypeInv, TypeOK
<1>1. requests' = [requests EXCEPT ![r] = Idle]
  BY DEF Sends, ShowCanvas, AnswerCanvasState, CloseCanvas, ClearCanvas, PostMessage,
         SendHistory, Finish
<1>2. \A q \in Requests : requests'[q].at \in Holding => requests'[q] = requests[q]
  BY <1>0, <1>1 DEF Idle, Holding
<1>3. CASE ShowCanvas(r)
  <2>1. requests[r].items \in SUBSET Strokes /\ requests[r].at \in Holding
    BY <1>0, <1>3 DEF RequestOK, ShowCanvas, At, Holding
  <2>2. requests[r].stale \/ saved \subseteq requests[r].items
    BY <2>1 DEF CanvasInv
  <2>3. /\ Emit(Users, "opened", requests[r].items) /\ following' = inside
        /\ UNCHANGED <<inside, canvas, saved>>
        /\ inside \subseteq behind' \/ saved \subseteq requests[r].items
    BY <2>2, <1>3 DEF ShowCanvas
  <2> QED BY <2>1, <2>3, <1>2, CanvasRenewed DEF Anew
<1>4. CASE AnswerCanvasState(r)
  <2> DEFINE u == requests[r].user
  <2>1. requests[r].items \in SUBSET Strokes /\ requests[r].at \in Holding
    BY <1>0, <1>4 DEF RequestOK, AnswerCanvasState, At, Holding
  <2>2. requests[r].stale \/ saved \subseteq requests[r].items
    BY <2>1 DEF CanvasInv
  <2>3. /\ Emit({u}, "canvas", requests[r].items) /\ following' = following \ {u}
        /\ UNCHANGED <<inside, canvas, saved>>
        /\ behind' = IF requests[r].stale THEN behind \cup ({u} \cap inside) ELSE behind \ {u}
    BY <1>4 DEF AnswerCanvasState
  <2> HIDE DEF u
  <2>4. behind \ {u} \subseteq behind'
    BY <2>3
  <2>5. u \in behind' \/ u \notin inside \/ saved \subseteq requests[r].items
    BY <2>2, <2>3
  <2> QED BY <2>1, <2>3, <2>4, <2>5, <1>2, CanvasAnswered
<1>5. CASE CloseCanvas(r)
  <2>1. /\ Emit(Users, "closed", {}) /\ following' = inside /\ behind' = inside
        /\ UNCHANGED <<inside, canvas, saved>>
    BY <1>5 DEF CloseCanvas, FreeCanvas
  <2> QED BY <2>1, <1>2, CanvasRenewed DEF Anew
<1>6. CASE ClearCanvas(r)
  <2>1. /\ Emit(Users, "cleared", {}) /\ following' = inside
        /\ UNCHANGED <<inside, canvas, saved>>
        /\ inside \subseteq behind' \/ saved \subseteq {}
    BY <1>6 DEF ClearCanvas
  <2> QED BY <2>1, <1>2, CanvasRenewed DEF Anew
<1>7. CASE PostMessage(r)
  <2>1. requests[r].items \in SUBSET Msgs /\ "chat" \in OfChat
    BY <1>0, <1>7 DEF RequestOK, PostMessage, At, OfChat
  <2>2. Emit(Users, "chat", requests[r].items) /\ UNCHANGED <<inside, canvasVars>>
    BY <1>7 DEF PostMessage
  <2> QED BY <2>1, <2>2, <1>2, EventsOK, CanvasIgnores
<1>8. CASE SendHistory(r)
  <2>1. requests[r].items \in SUBSET Msgs /\ "history" \in OfChat
    BY <1>0, <1>8 DEF RequestOK, SendHistory, At, OfChat
  <2>2. Emit({requests[r].user}, "history", requests[r].items) /\ UNCHANGED <<inside, canvasVars>>
    BY <1>8 DEF SendHistory
  <2> QED BY <2>1, <2>2, <1>2, EventsOK, CanvasIgnores
<1> QED BY <1>3, <1>4, <1>5, <1>6, <1>7, <1>8 DEF Sends

LEMMA CanvasReceive ==
  ASSUME TypeInv, CanvasInv, NEW r \in Requests, NEW u \in Users, Receive(r, u)
  PROVE  CanvasInv'
<1>0. /\ requests \in [Requests -> Request] /\ inside \subseteq Users
      /\ following \subseteq inside
  BY DEF TypeInv, TypeOK
<1>1. CASE JoinRoom(r, u)
  <2>1. /\ u \notin inside /\ inside' = inside \cup {u}
        /\ behind' = IF saved = {} THEN behind ELSE behind \cup {u}
        /\ requests' = [requests EXCEPT ![r] = [Idle EXCEPT !.at = "recalling", !.user = u]]
        /\ UNCHANGED <<down, canvas, saved, following>>
    BY <1>1 DEF JoinRoom, Start
  <2>2. \A v : CanvasAhead(v)' = CanvasAhead(v)
    BY <2>1 DEF CanvasAhead
  <2>3. \A v \in inside' \ behind' : saved' \subseteq CanvasAhead(v)'
    BY <2>1, <2>2 DEF CanvasInv
  <2>4. requests'[r].at = "recalling" /\ \A q \in Requests : q # r => requests'[q] = requests[q]
    BY <2>1, <1>0 DEF Idle
  <2>5. \A q \in Requests :
          requests'[q].at \in Holding /\ ~requests'[q].stale => saved' \subseteq requests'[q].items
    BY <2>1, <2>4 DEF CanvasInv, Holding
  <2>6. FollowersAgree'
    BY <2>1, <2>2 DEF CanvasInv, FollowersAgree
  <2> QED BY <2>3, <2>5, <2>6 DEF CanvasInv
<1>2. CASE HandleGetCanvasState(r, u) /\ holder = NoOne
  <2>1. /\ Emit({u}, "canvas", {}) /\ following' = following \ {u}
        /\ behind' = IF saved = {} THEN behind ELSE behind \cup {u}
        /\ UNCHANGED <<inside, canvas, saved, requests>>
    BY <1>2 DEF HandleGetCanvasState
  <2>2. behind \ {u} \subseteq behind' /\ (u \in behind' \/ saved \subseteq {})
    BY <2>1
  <2> QED BY <2>1, <2>2, CanvasAnswered
<1>3. ASSUME Receive(r, u), ~JoinRoom(r, u), ~(HandleGetCanvasState(r, u) /\ holder = NoOne)
      PROVE  CanvasInv'
  <2>1. /\ requests[r] = Idle /\ \A q \in Requests : q # r => requests'[q] = requests[q]
        /\ UNCHANGED <<inside, down, saved, canvas, behind, following>>
    BY <1>0, <1>3 DEF Receive, HandleOpenCanvas, HandleCloseCanvas, HandleClearCanvas, Start,
                HandleGetCanvasState, HandleGetMessageHistory, HandleChatMessage, canvasVars
  <2>2. requests'[r].at \in Holding /\ ~requests'[r].stale => saved \subseteq requests'[r].items
    <3>1. CASE HandleCloseCanvas(r, u)
      <4>1. /\ u \in inside
            /\ requests' = [requests EXCEPT ![r] =
                 [Idle EXCEPT !.at = "closing", !.items = canvas[u],
                              !.stale = u \in behind \/ OnTheWay(u, OfCanvas)]]
        BY <3>1 DEF HandleCloseCanvas, Start
      <4>2. /\ requests'[r].items = canvas[u]
            /\ requests'[r].stale = (u \in behind \/ OnTheWay(u, OfCanvas))
        BY <4>1, <1>0 DEF Idle
      <4>3. u \notin behind /\ ~OnTheWay(u, OfCanvas) => saved \subseteq canvas[u]
        BY <4>1, NothingAhead DEF CanvasInv
      <4> QED BY <4>2, <4>3
    <3>2. CASE ~HandleCloseCanvas(r, u)
      <4>1. requests'[r].at \in {"opening", "clearing", "fetching", "recalling", "saving"}
        BY <1>0, <1>3, <3>2 DEF Receive, HandleOpenCanvas, HandleClearCanvas, Start, Idle,
                HandleGetCanvasState, HandleGetMessageHistory, HandleChatMessage
      <4> QED BY <4>1 DEF Holding
    <3> QED BY <3>1, <3>2
  <2>3. \A v : CanvasAhead(v)' = CanvasAhead(v)
    BY <2>1 DEF CanvasAhead
  <2> QED BY <2>1, <2>2, <2>3, <1>0, CanvasKept
<1> QED BY <1>1, <1>2, <1>3

LEMMA CanvasActs ==
  ASSUME TypeInv, CanvasInv, NEW u \in Users, Acts(u)
  PROVE  CanvasInv'
<1>0. inside \subseteq Users /\ following \subseteq inside
  BY DEF TypeInv, TypeOK
<1>1. ASSUME UNCHANGED <<inside, down, canvasVars, requests>> PROVE CanvasInv'
  BY <1>1 DEF canvasVars, CanvasInv, CanvasAhead, FollowersAgree
<1>2. CASE AskForWhiteboard(u) \/ \E e \in Edits : DrawElement(u, e)
  BY <1>2, <1>1 DEF AskForWhiteboard, DrawElement
<1>3. CASE HandleWhiteboardUpdate(u)
  <2>1. Head(up[u]).items \in SUBSET Edits /\ "update" \in OfWhiteboard
    BY <1>3, HeadType DEF HandleWhiteboardUpdate, OfWhiteboard
  <2>2. /\ Emit(Users \ {u}, "update", Head(up[u]).items)
        /\ UNCHANGED <<inside, canvasVars, requests>>
    BY <1>3 DEF HandleWhiteboardUpdate
  <2> QED BY <2>1, <2>2, EventsOK, CanvasIgnores
<1>4. CASE HandleGetWhiteboardState(u)
  <2>1. board \in SUBSET Edits /\ "state" \in OfWhiteboard
    BY DEF TypeInv, TypeOK, OfWhiteboard
  <2>2. UNCHANGED <<inside, canvasVars, requests>>
    BY <1>4 DEF HandleGetWhiteboardState
  <2>3. CASE down' = down
    BY <2>2, <2>3, <1>1
  <2>4. CASE Emit({u}, "state", board)
    BY <2>1, <2>2, <2>4, EventsOK, CanvasIgnores
  <2> QED BY <2>3, <2>4, <1>4 DEF HandleGetWhiteboardState
<1>5. CASE DropCanvas(u)
  <2>1. /\ Emit(Users, "closed", {}) /\ following' = inside /\ behind' = inside
        /\ UNCHANGED <<inside, canvas, saved, requests>>
    BY <1>5 DEF DropCanvas, FreeCanvas
  <2> QED BY <2>1, CanvasRenewed DEF Anew
<1>6. ASSUME NEW s \in Strokes, HandleDraw(u, s) PROVE CanvasInv'
  <2>1. Emit(Users, "draw", {s}) /\ UNCHANGED <<inside, canvasVars, requests>>
    BY <1>6 DEF HandleDraw
  <2>2. EventOK(Message("draw", {s})) /\ "draw" \in Kinds
    BY EventsOK DEF OfCanvas
  <2>3. \A v \in inside : CanvasAhead(v)' = CanvasAhead(v) \cup {s}
    BY <2>1, <2>2, <1>0, CanvasSent DEF canvasVars
  <2>4. \A v \in inside \ behind : saved \subseteq CanvasAhead(v)'
    BY <2>3 DEF CanvasInv
  <2>5. \A v, w \in following : CanvasAhead(v)' = CanvasAhead(w)'
    BY <2>3, <1>0 DEF CanvasInv, FollowersAgree
  <2> QED BY <2>1, <2>4, <2>5 DEF CanvasInv, FollowersAgree, canvasVars
<1>7. CASE LeaveRoom(u) \/ Disconnect(u)
  <2>1. /\ inside' = inside \ {u} /\ behind' = behind \ {u} /\ following' = following \ {u}
        /\ down' = [down EXCEPT ![u] = <<>>] /\ canvas' = [canvas EXCEPT ![u] = {}]
        /\ UNCHANGED <<saved, requests>>
    BY <1>7 DEF LeaveRoom, Disconnect, Gone, Fresh
  <2>2. ASSUME NEW v \in inside' PROVE CanvasAhead(v)' = CanvasAhead(v)
    <3>1. v \in Users /\ v # u
      BY <2>1, <1>0
    <3>2. down'[v] = down[v] /\ canvas'[v] = canvas[v]
      BY <2>1, <3>1 DEF TypeInv, TypeOK
    <3> QED BY <3>2 DEF CanvasAhead
  <2>3. /\ inside' \subseteq inside /\ behind \cap inside' \subseteq behind'
        /\ following' \subseteq following /\ following' \subseteq inside'
    BY <2>1, <1>0
  <2> QED BY <2>1, <2>2, <2>3, CanvasKept
<1>8. CASE Deliver(u)
  <2>1. /\ down[u] # <<>> /\ down[u] \in Seq(Event)
        /\ down' = [down EXCEPT ![u] = Tail(@)]
        /\ canvas' = [canvas EXCEPT ![u] = Shows(@, Head(down[u]), OfCanvas, Anew)]
        /\ UNCHANGED <<inside, saved, behind, following, requests>>
    BY <1>8 DEF Deliver, TypeInv, TypeOK
  <2>2. ASSUME NEW v \in inside' PROVE CanvasAhead(v)' = CanvasAhead(v)
    <3>1. CASE v # u
      <4>1. v \in Users
        BY <2>1, <1>0
      <4>2. down'[v] = down[v] /\ canvas'[v] = canvas[v]
        BY <2>1, <3>1, <4>1 DEF TypeInv, TypeOK
      <4> QED BY <4>2 DEF CanvasAhead
    <3>2. CASE v = u
      <4>1. down'[u] = Tail(down[u]) /\ canvas'[u] = Shows(canvas[u], Head(down[u]), OfCanvas, Anew)
        BY <2>1 DEF TypeInv, TypeOK
      <4>2. Ahead(Tail(down[u]), Shows(canvas[u], Head(down[u]), OfCanvas, Anew), OfCanvas, Anew)
              = Ahead(down[u], canvas[u], OfCanvas, Anew)
        BY <2>1, AheadTail
      <4> QED BY <4>1, <4>2, <3>2 DEF CanvasAhead
    <3> QED BY <3>1, <3>2
  <2> QED BY <2>1, <2>2, <1>0, CanvasKept
<1> QED BY <1>2, <1>3, <1>4, <1>5, <1>6, <1>7, <1>8 DEF Acts

LEMMA CanvasStep ==
  ASSUME TypeInv, CanvasInv, [Next]_vars
  PROVE  CanvasInv'
<1>1. ASSUME NEW r \in Requests, Resume(r) PROVE CanvasInv'
  <2>1. Quiet(r) \/ Sends(r)
    BY <1>1 DEF Resume, Quiet, Sends
  <2> QED BY <2>1, CanvasQuiet, CanvasSends
<1>2. ASSUME NEW r \in Requests, NEW u \in Users, Receive(r, u) PROVE CanvasInv'
  BY <1>2, CanvasReceive
<1>3. ASSUME NEW u \in Users, Acts(u) PROVE CanvasInv'
  BY <1>3, CanvasActs
<1>4. CASE Restart
  <2>1. inside' = {} /\ following' = {} /\ \A r \in Requests : requests'[r].at = "idle"
    BY <1>4 DEF Restart, Idle
  <2> QED BY <2>1 DEF CanvasInv, FollowersAgree, Holding
<1>5. CASE UNCHANGED vars
  BY <1>5 DEF CanvasInv, CanvasAhead, FollowersAgree, vars, canvasVars
<1> QED BY <1>1, <1>2, <1>3, <1>4, <1>5 DEF Next, Acts

LEMMA CanvasAlways == Spec => [](TypeInv /\ CanvasInv)
<1>1. Init => CanvasInv
  BY DEF Init, CanvasInv, FollowersAgree, Idle, Holding
<1> QED BY <1>1, InitType, TypeStep, CanvasStep, PTL DEF Spec

\* Whoever has been sent all events of the canvas since the last that made the clients
\* show the same comes to show the same as the others who have.
THEOREM FollowersShowTheSame == Spec => []FollowersAgree
<1>1. CanvasInv => FollowersAgree
  BY DEF CanvasInv
<1> QED BY <1>1, CanvasAlways, PTL

\* Only two handlers write what is saved.
LEMMA OnlySaved ==
  ASSUME TypeInv, [Next]_vars, saved' # saved
  PROVE  \E r \in Requests : SaveClosing(r) \/ SaveClearing(r)
<1>1. ASSUME NEW r \in Requests, Resume(r) PROVE SaveClosing(r) \/ SaveClearing(r)
  BY <1>1 DEF Resume, GetCanvasState, ShowCanvas, AnswerCanvasState, CloseCanvas, ClearCanvas,
      SaveMeetingMessage, PostMessage, GetMeetingMessages, SendHistory, Fail, canvasVars
<1>2. ASSUME NEW r \in Requests, NEW u \in Users, Receive(r, u) PROVE FALSE
  BY <1>2 DEF Receive, JoinRoom, HandleOpenCanvas, HandleCloseCanvas, HandleClearCanvas,
      HandleGetCanvasState, HandleGetMessageHistory, HandleChatMessage, canvasVars
<1>3. ASSUME NEW u \in Users, Acts(u) PROVE FALSE
  BY <1>3 DEF Acts, AskForWhiteboard, HandleWhiteboardUpdate, HandleGetWhiteboardState, DropCanvas,
      LeaveRoom, Disconnect, Deliver, DrawElement, HandleDraw, canvasVars
<1>4. ~Restart /\ ~UNCHANGED vars
  BY DEF Restart, vars, canvasVars
<1> QED BY <1>1, <1>2, <1>3, <1>4 DEF Next, Acts

\* A saved operation is given up by clear-canvas, or by a close-canvas whose client did
\* not show all that was saved, and by nothing else.
THEOREM SavedDrawingsStay == Spec => SavedDrawingKept
<1>1. ASSUME TypeInv, CanvasInv, [Next]_vars
      PROVE  [\A s \in saved :
                s \notin saved' =>
                  \E r \in Requests :
                    /\ requests'[r].at # requests[r].at
                    /\ At(r, "clearing") \/ (At(r, "closing") /\ requests[r].stale)]_vars
  <2>1. SUFFICES ASSUME NEW s \in saved, s \notin saved'
                 PROVE  \E r \in Requests :
                          /\ requests'[r].at # requests[r].at
                          /\ At(r, "clearing") \/ (At(r, "closing") /\ requests[r].stale)
    OBVIOUS
  <2>2. PICK r \in Requests : SaveClosing(r) \/ SaveClearing(r)
    BY <1>1, <2>1, OnlySaved
  <2>3. requests \in [Requests -> Request]
    BY <1>1 DEF TypeInv, TypeOK
  <2>4. requests'[r].at \in {"freeing", "wiping"}
    <3>1. PICK step \in {"freeing", "wiping"} :
            requests'[r] = [requests[r] EXCEPT !.at = step, !.items = {}, !.stale = FALSE]
      BY <2>2 DEF SaveClosing, SaveClearing, SaveCanvas
    <3> QED BY <3>1, <2>3 DEF Request
  <2>5. CASE SaveClearing(r)
    BY <2>4, <2>5 DEF SaveClearing, At
  <2>6. CASE SaveClosing(r)
    <3>1. saved' = requests[r].items /\ requests[r].at = "closing"
      BY <2>6 DEF SaveClosing, SaveCanvas, At
    <3>2. requests[r].stale
      BY <3>1, <2>1, <1>1 DEF CanvasInv, Holding
    <3> QED BY <3>1, <3>2, <2>4 DEF At
  <2> QED BY <2>2, <2>5, <2>6
<1> QED BY <1>1, CanvasAlways, PTL DEF Spec, SavedDrawingKept

-----------------------------------------------------------------------------
(* The whiteboard                                                          *)

\* An update made by a client that had seen all others, in a queue; of such clients
\* the queue holds nothing else before it.
Sighted(q, i) == q[i].kind = "update" /\ ~q[i].blind

NoUpdate(q) == \A i \in DOMAIN q : q[i].kind # "update"

\* Its updates grow up to what the client shows.
Ordered(q, shown) ==
  \A i \in DOMAIN q :
    /\ q[i].kind = "update" => q[i].items # {}
    /\ Sighted(q, i) =>
         /\ q[i].items \subseteq shown
         /\ \A j \in DOMAIN q : j < i => Sighted(q, j) /\ q[j].items \subseteq q[i].items
         /\ (\A j \in DOMAIN q : j > i => q[j].kind # "update") => q[i].items = shown

BoardInv ==
  /\ board = {} => crossed = {}
  /\ \A u \in inside \ crossed : NoUpdate(up[u]) => BoardAhead(u) = board
  /\ \A u \in Users :
       /\ Ordered(up[u], elements[u])
       /\ \A i \in DOMAIN up[u] :
            Sighted(up[u], i) => /\ board \subseteq up[u][i].items
                                 /\ u \notin crossed /\ ~OnTheWay(u, OfWhiteboard)

LEMMA TailOrdered ==
  ASSUME NEW q \in Seq(Upward), q # <<>>, NEW shown, Ordered(q, shown)
  PROVE  /\ Ordered(Tail(q), shown)
         /\ \A i \in DOMAIN Tail(q) : Sighted(Tail(q), i) =>
              /\ Sighted(q, i + 1) /\ Tail(q)[i] = q[i + 1]
              /\ Sighted(q, 1) /\ Head(q) = q[1] /\ q[1].items \subseteq q[i + 1].items
         /\ Sighted(q, 1) /\ NoUpdate(Tail(q)) => Head(q).items = shown
         /\ 1 \in DOMAIN q /\ Head(q) = q[1]
<1> DEFINE t == Tail(q)
<1>1. /\ DOMAIN q = 1 .. Len(q) /\ Len(q) \in Nat /\ Len(q) > 0
      /\ DOMAIN t = 1 .. (Len(q) - 1)
      /\ \A i \in DOMAIN t : i + 1 \in DOMAIN q /\ t[i] = q[i + 1]
      /\ \A i \in DOMAIN q : i # 1 => i - 1 \in DOMAIN t /\ t[i - 1] = q[i]
      /\ 1 \in DOMAIN q /\ Head(q) = q[1]
  BY Shifted
<1> HIDE DEF t
<1>2. ASSUME NEW i \in DOMAIN t, Sighted(t, i)
      PROVE  /\ Sighted(q, i + 1) /\ t[i] = q[i + 1]
             /\ Sighted(q, 1) /\ q[1].items \subseteq q[i + 1].items
             /\ t[i].items \subseteq shown
             /\ \A j \in DOMAIN t : j < i => Sighted(t, j) /\ t[j].items \subseteq t[i].items
             /\ (\A j \in DOMAIN t : j > i => t[j].kind # "update") => t[i].items = shown
  <2>1. i + 1 \in DOMAIN q /\ t[i] = q[i + 1] /\ Sighted(q, i + 1) /\ 1 < i + 1
    BY <1>1, <1>2 DEF Sighted
  <2>2. /\ q[i + 1].items \subseteq shown
        /\ \A j \in DOMAIN q : j < i + 1 => Sighted(q, j) /\ q[j].items \subseteq q[i + 1].items
        /\ (\A j \in DOMAIN q : j > i + 1 => q[j].kind # "update") => q[i + 1].items = shown
    BY <2>1 DEF Ordered
  <2>3. ASSUME NEW j \in DOMAIN t, j < i PROVE Sighted(t, j) /\ t[j].items \subseteq t[i].items
    <3>1. j + 1 \in DOMAIN q /\ j + 1 < i + 1 /\ t[j] = q[j + 1]
      BY <2>3, <1>1
    <3> QED BY <3>1, <2>1, <2>2 DEF Sighted
  <2>4. ASSUME \A j \in DOMAIN t : j > i => t[j].kind # "update",
               NEW j \in DOMAIN q, j > i + 1
        PROVE  q[j].kind # "update"
    <3>1. j - 1 \in DOMAIN t /\ j - 1 > i /\ t[j - 1] = q[j]
      BY <2>4, <1>1
    <3> QED BY <3>1, <2>4
  <2> QED BY <2>1, <2>2, <2>3, <2>4, <1>1
<1>3. Ordered(t, shown)
  <2>1. \A i \in DOMAIN t : t[i].kind = "update" => t[i].items # {}
    BY <1>1 DEF Ordered
  <2> QED BY <2>1, <1>2 DEF Ordered
<1>4. Sighted(q, 1) /\ NoUpdate(t) => q[1].items = shown
  <2>1. ASSUME NoUpdate(t), NEW j \in DOMAIN q, j > 1 PROVE q[j].kind # "update"
    BY <2>1, <1>1 DEF NoUpdate
  <2> QED BY <2>1, <1>1 DEF Ordered
<1> QED BY <1>1, <1>2, <1>3, <1>4 DEF t

LEMMA AppendOrdered ==
  ASSUME NEW q \in Seq(Upward), NEW e \in Upward, NEW shown, NEW more,
         Ordered(q, shown), shown \subseteq more,
         e.kind = "update" => e.items = more /\ more # {},
         e.kind # "update" => more = shown,
         e.kind = "update" /\ ~e.blind => \A i \in DOMAIN q : Sighted(q, i)
  PROVE  /\ Ordered(Append(q, e), more)
         /\ \A i \in DOMAIN q : Append(q, e)[i] = q[i]
         /\ \A i \in DOMAIN Append(q, e) : i \in DOMAIN q \/ Append(q, e)[i] = e
         /\ e.kind = "update" => ~NoUpdate(Append(q, e))
         /\ NoUpdate(Append(q, e)) => NoUpdate(q)
<1> DEFINE p == Append(q, e)
           n == Len(q) + 1
<1>1. /\ DOMAIN q = 1 .. Len(q) /\ Len(q) \in Nat
      /\ DOMAIN p = 1 .. n
      /\ \A i \in DOMAIN q : i \in DOMAIN p /\ p[i] = q[i] /\ i < n
      /\ p[n] = e /\ n \in DOMAIN p
  BY Appended
<1> HIDE DEF p, n
<1>2. ASSUME NEW i \in DOMAIN p
      PROVE  /\ p[i].kind = "update" => p[i].items # {}
             /\ Sighted(p, i) =>
                  /\ p[i].items \subseteq more
                  /\ \A j \in DOMAIN p : j < i => Sighted(p, j) /\ p[j].items \subseteq p[i].items
                  /\ (\A j \in DOMAIN p : j > i => p[j].kind # "update") => p[i].items = more
  <2>1. CASE i \in DOMAIN q
    <3>1. p[i] = q[i] /\ (Sighted(p, i) <=> Sighted(q, i))
      BY <2>1, <1>1 DEF Sighted
    <3>2. Sighted(p, i) =>
            \A j \in DOMAIN p : j < i => Sighted(p, j) /\ p[j].items \subseteq p[i].items
      <4>1. ASSUME Sighted(p, i), NEW j \in DOMAIN p, j < i
            PROVE  Sighted(p, j) /\ p[j].items \subseteq p[i].items
        <5>1. j \in DOMAIN q /\ p[j] = q[j]
          BY <4>1, <2>1, <1>1 DEF n
        <5> QED BY <5>1, <4>1, <3>1, <2>1 DEF Ordered, Sighted
      <4> QED BY <4>1
    <3>3. Sighted(p, i) /\ (\A j \in DOMAIN p : j > i => p[j].kind # "update")
            => p[i].items = more
      <4>1. SUFFICES ASSUME Sighted(p, i), \A j \in DOMAIN p : j > i => p[j].kind # "update"
                     PROVE  p[i].items = more
        OBVIOUS
      <4>2. e.kind # "update"
        BY <4>1, <2>1, <1>1
      <4>3. \A j \in DOMAIN q : j > i => q[j].kind # "update"
        BY <4>1, <1>1
      <4>4. q[i].items = shown
        BY <4>1, <4>3, <3>1, <2>1 DEF Ordered
      <4> QED BY <4>2, <4>4, <3>1
    <3>4. /\ p[i].kind = "update" => p[i].items # {}
          /\ Sighted(p, i) => p[i].items \subseteq more
      BY <3>1, <2>1 DEF Ordered
    <3> QED BY <3>2, <3>3, <3>4
  <2>2. CASE i = n
    <3>1. ASSUME Sighted(p, i), NEW j \in DOMAIN p, j < i
          PROVE  Sighted(p, j) /\ p[j].items \subseteq p[i].items
      <4>1. e.kind = "update" /\ ~e.blind
        BY <3>1, <2>2, <1>1 DEF Sighted
      <4>2. j \in DOMAIN q /\ p[j] = q[j]
        BY <3>1, <2>2, <1>1 DEF n
      <4>3. Sighted(q, j) /\ q[j].items \subseteq shown
        BY <4>1, <4>2 DEF Ordered
      <4> QED BY <4>1, <4>2, <4>3, <2>2, <1>1 DEF Sighted
    <3> QED BY <3>1, <2>2, <1>1 DEF Sighted
  <2> QED BY <2>1, <2>2, <1>1 DEF n
<1>3. Ordered(p, more)
  BY <1>2 DEF Ordered
<1>4. /\ e.kind = "update" => ~NoUpdate(p)
      /\ NoUpdate(p) => NoUpdate(q)
  BY <1>1 DEF NoUpdate
<1>5. \A i \in DOMAIN p : i \in DOMAIN q \/ p[i] = e
  BY <1>1 DEF n
<1> QED BY <1>1, <1>3, <1>4, <1>5 DEF p

\* What a client comes to show of the whiteboard when something is sent.
LEMMA BoardSent ==
  ASSUME TypeInv, NEW U, NEW kind \in Kinds, NEW items,
         EventOK(Message(kind, items)), Emit(U, kind, items), elements' = elements,
         NEW u \in Users
  PROVE  /\ u \notin U \cap inside \/ kind \notin OfWhiteboard =>
              /\ BoardAhead(u)' = BoardAhead(u)
              /\ OnTheWay(u, OfWhiteboard)' => OnTheWay(u, OfWhiteboard)
         /\ u \in U \cap inside /\ kind \in OfWhiteboard => BoardAhead(u)' = items
<1> DEFINE e == Message(kind, items)
<1>1. down[u] \in Seq(Event) /\ e \in Event
  BY DEF TypeInv, TypeOK, EventOK
<1>2. down'[u] = IF u \in U \cap inside THEN Append(down[u], e) ELSE down[u]
  BY DEF Emit
<1>3. e.kind = kind /\ e.items = items /\ (kind \in OfWhiteboard => items \subseteq Edits)
  BY DEF Message, EventOK
<1> HIDE DEF e
<1>4. CASE u \notin U \cap inside
  BY <1>4, <1>2 DEF BoardAhead, OnTheWay
<1>5. CASE u \in U \cap inside
  <2>1. Ahead(Append(down[u], e), elements[u], OfWhiteboard, OfWhiteboard)
          = Shows(Ahead(down[u], elements[u], OfWhiteboard, OfWhiteboard), e,
                  OfWhiteboard, OfWhiteboard) \cap (Edits \cup Strokes)
    BY <1>1, AheadAppend
  <2>2. BoardAhead(u)' = Shows(BoardAhead(u), e, OfWhiteboard, OfWhiteboard)
                           \cap (Edits \cup Strokes)
    BY <2>1, <1>2, <1>5 DEF BoardAhead
  <2>3. BoardAhead(u) \subseteq Edits \cup Strokes
    BY DEF BoardAhead, Ahead
  <2>4. kind \notin OfWhiteboard => BoardAhead(u)' = BoardAhead(u)
    BY <2>2, <2>3, <1>3 DEF Shows
  <2>5. kind \in OfWhiteboard => BoardAhead(u)' = items
    BY <2>2, <2>3, <1>3 DEF Shows
  <2>6. kind \notin OfWhiteboard /\ OnTheWay(u, OfWhiteboard)' => OnTheWay(u, OfWhiteboard)
    <3>1. /\ \A i \in DOMAIN down[u] : Append(down[u], e)[i] = down[u][i]
          /\ \A i \in DOMAIN Append(down[u], e) :
               i \in DOMAIN down[u] \/ Append(down[u], e)[i] = e
      BY <1>1, Appended
    <3> QED BY <3>1, <1>2, <1>3, <1>5 DEF OnTheWay
  <2> QED BY <2>4, <2>5, <2>6, <1>5
<1> QED BY <1>4, <1>5

\* Nothing is sent of the whiteboard, and nobody comes in.
LEMMA BoardKept ==
  ASSUME TypeInv, BoardInv, UNCHANGED <<inside, whiteboardVars>>,
         \A u \in Users : /\ BoardAhead(u)' = BoardAhead(u)
                          /\ OnTheWay(u, OfWhiteboard)' => OnTheWay(u, OfWhiteboard)
  PROVE  BoardInv'
<1>0. inside \subseteq Users
  BY DEF TypeInv, TypeOK
<1>1. \A u \in inside \ crossed : NoUpdate(up[u]) => BoardAhead(u)' = board
  BY <1>0 DEF BoardInv
<1>2. \A u \in Users : \A i \in DOMAIN up[u] : Sighted(up[u], i) => ~OnTheWay(u, OfWhiteboard)'
  BY DEF BoardInv
<1> QED BY <1>1, <1>2 DEF BoardInv, whiteboardVars

\* Something of the canvas or the chat is sent.
LEMMA BoardIgnores ==
  ASSUME TypeInv, BoardInv, NEW U, NEW kind \in OfCanvas \cup OfChat, NEW items,
         EventOK(Message(kind, items)), Emit(U, kind, items),
         UNCHANGED <<inside, whiteboardVars>>
  PROVE  BoardInv'
<1>1. kind \in Kinds /\ kind \notin OfWhiteboard /\ elements' = elements
  BY EventsOK DEF OfWhiteboard, OfChat, OfCanvas, Anew, whiteboardVars
<1>2. \A u \in Users : /\ BoardAhead(u)' = BoardAhead(u)
                       /\ OnTheWay(u, OfWhiteboard)' => OnTheWay(u, OfWhiteboard)
  BY <1>1, BoardSent
<1> QED BY <1>2, BoardKept

\* Only the whiteboard's own handlers, and who comes and goes, change it.
LEMMA BoardResume ==
  ASSUME TypeInv, BoardInv, NEW r \in Requests, Resume(r)
  PROVE  BoardInv'
<1>0. RequestOK(requests[r])
  BY DEF TypeInv
<1>1. CASE Quiet(r)
  <2>1. UNCHANGED <<inside, down, whiteboardVars>>
    BY <1>1 DEF Quiet, GetCanvasState, SaveClosing, SaveClearing, SaveMeetingMessage,
                GetMeetingMessages, Fail
  <2> QED BY <2>1, BoardKept DEF BoardAhead, OnTheWay, whiteboardVars
<1>2. CASE Sends(r)
  <2>1. UNCHANGED <<inside, whiteboardVars>>
    BY <1>2 DEF Sends, ShowCanvas, AnswerCanvasState, CloseCanvas, ClearCanvas, PostMessage,
                SendHistory
  <2>2. /\ requests[r].at \in {"showing", "answering"} => requests[r].items \in SUBSET Strokes
        /\ requests[r].at \in {"posting", "reciting"} => requests[r].items \in SUBSET Msgs
    BY <1>0 DEF RequestOK
  <2>3. /\ {} \in SUBSET Strokes /\ {"opened", "canvas", "cleared", "closed"} \subseteq OfCanvas
        /\ {"chat", "history"} \subseteq OfChat
    BY DEF OfCanvas, Anew, OfChat
  <2>4. CASE ShowCanvas(r)
    BY <2>1, <2>2, <2>3, <2>4, BoardIgnores, EventsOK DEF ShowCanvas, At
  <2>5. CASE AnswerCanvasState(r)
    BY <2>1, <2>2, <2>3, <2>5, BoardIgnores, EventsOK DEF AnswerCanvasState, At
  <2>6. CASE CloseCanvas(r)
    BY <2>1, <2>3, <2>6, BoardIgnores, EventsOK DEF CloseCanvas, FreeCanvas
  <2>7. CASE ClearCanvas(r)
    BY <2>1, <2>3, <2>7, BoardIgnores, EventsOK DEF ClearCanvas
  <2>8. CASE PostMessage(r)
    BY <2>1, <2>2, <2>3, <2>8, BoardIgnores, EventsOK DEF PostMessage, At
  <2>9. CASE SendHistory(r)
    BY <2>1, <2>2, <2>3, <2>9, BoardIgnores, EventsOK DEF SendHistory, At
  <2> QED BY <1>2, <2>4, <2>5, <2>6, <2>7, <2>8, <2>9 DEF Sends
<1> QED BY <1>1, <1>2 DEF Resume, Quiet, Sends

LEMMA BoardReceive ==
  ASSUME TypeInv, BoardInv, NEW r \in Requests, NEW u \in Users, Receive(r, u)
  PROVE  BoardInv'
<1>1. CASE JoinRoom(r, u)
  <2>1. /\ u \notin inside /\ inside' = inside \cup {u}
        /\ crossed' = IF board = {} THEN crossed ELSE crossed \cup {u}
        /\ UNCHANGED <<down, up, board, elements>>
    BY <1>1 DEF JoinRoom
  <2>2. \A v : BoardAhead(v)' = BoardAhead(v) /\ OnTheWay(v, OfWhiteboard)' = OnTheWay(v, OfWhiteboard)
    BY <2>1 DEF BoardAhead, OnTheWay
  <2>3. down[u] = <<>> /\ up[u] = <<>> /\ elements[u] = {}
    BY <2>1 DEF TypeInv, Outside
  <2>4. BoardAhead(u) = {}
    BY <2>3, AheadEmpty DEF BoardAhead
  <2>5. \A v \in inside' \ crossed' : NoUpdate(up[v]) => BoardAhead(v)' = board
    BY <2>1, <2>2, <2>4 DEF BoardInv
  <2>6. DOMAIN up[u] = {}
    BY <2>3
  <2>7. \A v \in Users : \A i \in DOMAIN up[v] : Sighted(up[v], i) => v \notin crossed'
    BY <2>1, <2>6 DEF BoardInv
  <2> QED BY <2>1, <2>2, <2>5, <2>7 DEF BoardInv
<1>2. CASE HandleGetCanvasState(r, u) /\ holder = NoOne
  <2>1. {} \in SUBSET Strokes /\ "canvas" \in OfCanvas
    BY DEF OfCanvas, Anew
  <2> QED BY <2>1, <1>2, BoardIgnores, EventsOK DEF HandleGetCanvasState
<1>3. ASSUME Receive(r, u), ~JoinRoom(r, u), ~(HandleGetCanvasState(r, u) /\ holder = NoOne)
      PROVE  BoardInv'
  <2>1. UNCHANGED <<inside, down, whiteboardVars>>
    BY <1>3 DEF Receive, HandleOpenCanvas, HandleCloseCanvas, HandleClearCanvas,
                HandleGetCanvasState, HandleGetMessageHistory, HandleChatMessage
  <2> QED BY <2>1, BoardKept DEF BoardAhead, OnTheWay, whiteboardVars
<1> QED BY <1>1, <1>2, <1>3

\* An update is stored and sent.
LEMMA BoardUpdated ==
  ASSUME TypeInv, BoardInv, NEW u \in Users, HandleWhiteboardUpdate(u)
  PROVE  BoardInv'
<1> DEFINE head == Head(up[u])
<1>1. /\ up[u] # <<>> /\ up' = Blinded(u) /\ up[u] \in Seq(Upward)
      /\ board' = head.items /\ head.kind = "update"
      /\ Emit(Users \ {u}, "update", head.items)
      /\ crossed' = IF head.blind THEN {u} ELSE {}
      /\ UNCHANGED <<inside, elements>>
      /\ inside \subseteq Users
  BY DEF HandleWhiteboardUpdate, TypeInv, TypeOK
<1>2. head.items \in SUBSET Edits /\ "update" \in OfWhiteboard /\ "update" \in Kinds
  BY <1>1, HeadType, EventsOK DEF OfWhiteboard
<1>3. /\ Ordered(Tail(up[u]), elements[u])
      /\ \A i \in DOMAIN Tail(up[u]) : Sighted(Tail(up[u]), i) =>
           /\ Sighted(up[u], i + 1) /\ Tail(up[u])[i] = up[u][i + 1]
           /\ Sighted(up[u], 1) /\ head = up[u][1] /\ up[u][1].items \subseteq up[u][i + 1].items
      /\ Sighted(up[u], 1) /\ NoUpdate(Tail(up[u])) => head.items = elements[u]
      /\ 1 \in DOMAIN up[u] /\ head = up[u][1]
  BY <1>1, TailOrdered DEF BoardInv
<1> HIDE DEF head
<1>4. ASSUME NEW v \in Users
      PROVE  /\ v = u => /\ BoardAhead(v)' = BoardAhead(v)
                         /\ OnTheWay(v, OfWhiteboard)' => OnTheWay(v, OfWhiteboard)
             /\ v # u /\ v \in inside => BoardAhead(v)' = head.items
  <2>1. EventOK(Message("update", head.items))
    BY <1>2, EventsOK
  <2>2. v \in Users \ {u} <=> v # u
    OBVIOUS
  <2> QED BY <1>1, <1>2, <2>1, <2>2, BoardSent
<1>5. head.items # {}
  <2>1. Ordered(up[u], elements[u])
    BY DEF BoardInv
  <2> QED BY <2>1, <1>1, <1>3 DEF Ordered
<1>6. ~head.blind => Sighted(up[u], 1)
  BY <1>1, <1>3 DEF Sighted
<1>7. \A v \in Users : up'[v] = IF v = u THEN Tail(up[u])
        ELSE [i \in DOMAIN up[v] |-> [up[v][i] EXCEPT !.blind = TRUE]]
  BY <1>1 DEF Blinded
<1>8. ASSUME NEW v \in inside' \ crossed', NoUpdate(up'[v]) PROVE BoardAhead(v)' = board'
  <2>1. CASE v # u
    BY <2>1, <1>1, <1>4
  <2>2. CASE v = u
    <3>1. Sighted(up[u], 1) /\ NoUpdate(Tail(up[u]))
      BY <2>2, <1>1, <1>6, <1>7, <1>8
    <3>2. head.items = elements[u] /\ ~OnTheWay(u, OfWhiteboard)
      BY <3>1, <1>3 DEF BoardInv
    <3>3. BoardAhead(u) = elements[u]
      <4>1. elements[u] \subseteq Edits
        BY DEF TypeInv, TypeOK
      <4> QED BY <4>1, <3>2 DEF BoardAhead, Ahead, OnTheWay
    <3> QED BY <2>2, <3>2, <3>3, <1>1, <1>4
  <2> QED BY <2>1, <2>2
<1>9. ASSUME NEW v \in Users
      PROVE  /\ Ordered(up'[v], elements[v])
             /\ \A i \in DOMAIN up'[v] :
                  Sighted(up'[v], i) => /\ board' \subseteq up'[v][i].items
                                        /\ v \notin crossed' /\ ~OnTheWay(v, OfWhiteboard)'
  <2>1. CASE v = u
    <3>1. up'[v] = Tail(up[u])
      BY <2>1, <1>7
    <3>2. ASSUME NEW i \in DOMAIN Tail(up[u]), Sighted(Tail(up[u]), i)
          PROVE  /\ head.items \subseteq Tail(up[u])[i].items
                 /\ u \notin crossed' /\ ~OnTheWay(u, OfWhiteboard)'
      <4>1. Sighted(up[u], 1) /\ head.items \subseteq Tail(up[u])[i].items
        BY <3>2, <1>3
      <4>2. ~head.blind
        BY <4>1, <1>3 DEF Sighted
      <4>3. ~OnTheWay(u, OfWhiteboard)
        BY <4>1, <1>3 DEF BoardInv
      <4> QED BY <4>1, <4>2, <4>3, <1>1, <1>4
    <3> QED BY <2>1, <3>1, <3>2, <1>1, <1>3
  <2>2. CASE v # u
    <3>1. up'[v] = [i \in DOMAIN up[v] |-> [up[v][i] EXCEPT !.blind = TRUE]]
      BY <2>2, <1>7
    <3>2. \A i \in DOMAIN up[v] : up[v][i] \in Upward
      BY DEF TypeInv, TypeOK
    <3>3. DOMAIN up'[v] = DOMAIN up[v]
      BY <3>1
    <3>4. \A i \in DOMAIN up[v] : /\ up'[v][i].blind = TRUE /\ up'[v][i].kind = up[v][i].kind
                                  /\ up'[v][i].items = up[v][i].items
      BY <3>1, <3>2 DEF Upward
    <3>5. \A i \in DOMAIN up'[v] : ~Sighted(up'[v], i)
      BY <3>3, <3>4 DEF Sighted
    <3>6. Ordered(up[v], elements[v])
      BY DEF BoardInv
    <3> QED BY <3>3, <3>4, <3>5, <3>6 DEF Ordered
  <2> QED BY <2>1, <2>2
<1>10. board' # {}
  BY <1>1, <1>5
<1> QED BY <1>1, <1>8, <1>9, <1>10 DEF BoardInv

\* Whoever asks is told what is stored.
LEMMA BoardGotten ==
  ASSUME TypeInv, BoardInv, NEW u \in Users, HandleGetWhiteboardState(u)
  PROVE  BoardInv'
<1>1. /\ up[u] # <<>> /\ up[u] \in Seq(Upward) /\ Head(up[u]).kind = "get"
      /\ IF board = {} THEN UNCHANGED down ELSE Emit({u}, "state", board)
      /\ up' = [up EXCEPT ![u] = Tail(@)]
      /\ crossed' = crossed \ {u}
      /\ UNCHANGED <<inside, board, elements>>
      /\ inside \subseteq Users /\ board \in SUBSET Edits
  BY DEF HandleGetWhiteboardState, TypeInv, TypeOK
<1>2. \A v \in Users : up'[v] = IF v = u THEN Tail(up[u]) ELSE up[v]
  BY <1>1 DEF TypeInv, TypeOK
<1>3. /\ Ordered(Tail(up[u]), elements[u])
      /\ \A i \in DOMAIN Tail(up[u]) : ~Sighted(Tail(up[u]), i)
  <2>1. Ordered(up[u], elements[u])
    BY DEF BoardInv
  <2>2. /\ Ordered(Tail(up[u]), elements[u])
        /\ \A i \in DOMAIN Tail(up[u]) : Sighted(Tail(up[u]), i) => Sighted(up[u], 1)
        /\ Head(up[u]) = up[u][1]
    BY <1>1, <2>1, TailOrdered
  <2> QED BY <2>2, <1>1 DEF Sighted
<1>4. ASSUME NEW v \in Users, v # u
      PROVE  /\ BoardAhead(v)' = BoardAhead(v)
             /\ OnTheWay(v, OfWhiteboard)' => OnTheWay(v, OfWhiteboard)
  <2>1. down'[v] = down[v]
    BY <1>1, <1>4 DEF Emit
  <2> QED BY <2>1, <1>1 DEF BoardAhead, OnTheWay
<1>5. u \in inside /\ board # {} => BoardAhead(u)' = board
  <2>1. SUFFICES ASSUME u \in inside, board # {} PROVE BoardAhead(u)' = board
    OBVIOUS
  <2>2. "state" \in OfWhiteboard /\ EventOK(Message("state", board)) /\ "state" \in Kinds
    BY <1>1, EventsOK DEF OfWhiteboard
  <2> DEFINE U == {u}
  <2>3. u \in U \cap inside /\ Emit(U, "state", board)
    BY <1>1, <2>1
  <2> HIDE DEF U
  <2> QED BY <1>1, <2>2, <2>3, BoardSent
<1>6. ASSUME NEW v \in inside' \ crossed', NoUpdate(up'[v]) PROVE BoardAhead(v)' = board'
  <2>1. CASE v # u
    BY <2>1, <1>1, <1>2, <1>4, <1>6 DEF BoardInv
  <2>2. CASE v = u /\ board # {}
    BY <2>2, <1>1, <1>5
  <2>3. CASE v = u /\ board = {}
    <3>1. crossed = {} /\ BoardAhead(u)' = BoardAhead(u)
      BY <2>3, <1>1 DEF BoardInv, BoardAhead
    <3>2. NoUpdate(up[u])
      <4>1. NoUpdate(Tail(up[u]))
        BY <1>2, <1>6, <2>3, <1>1
      <4>2. /\ \A i \in DOMAIN up[u] : i # 1 =>
                 i - 1 \in DOMAIN Tail(up[u]) /\ Tail(up[u])[i - 1] = up[u][i]
            /\ Head(up[u]) = up[u][1]
        BY <1>1, Shifted
      <4> QED BY <4>1, <4>2, <1>1 DEF NoUpdate
    <3> QED BY <2>3, <3>1, <3>2, <1>1 DEF BoardInv
  <2> QED BY <2>1, <2>2, <2>3
<1>7. ASSUME NEW v \in Users
      PROVE  /\ Ordered(up'[v], elements[v])
             /\ \A i \in DOMAIN up'[v] :
                  Sighted(up'[v], i) => /\ board \subseteq up'[v][i].items
                                        /\ v \notin crossed' /\ ~OnTheWay(v, OfWhiteboard)'
  <2>1. CASE v = u
    BY <2>1, <1>2, <1>3
  <2>2. CASE v # u
    <3>1. up'[v] = up[v]
      BY <2>2, <1>2
    <3> QED BY <2>2, <3>1, <1>1, <1>4 DEF BoardInv
  <2> QED BY <2>1, <2>2
<1> QED BY <1>1, <1>6, <1>7 DEF BoardInv

\* A client asks, or draws: the last in its queue.
LEMMA BoardAsked ==
  ASSUME TypeInv, BoardInv, NEW u \in Users,
         AskForWhiteboard(u) \/ \E e \in Edits : DrawElement(u, e)
  PROVE  BoardInv'
<1>1. PICK e \in Upward, more \in SUBSET Edits :
        /\ up' = [up EXCEPT ![u] = Append(@, e)]
        /\ elements' = [elements EXCEPT ![u] = more]
        /\ elements[u] \subseteq more
        /\ e.kind = "update" => e.items = more /\ more # {}
        /\ e.kind # "update" => more = elements[u]
        /\ e.kind = "update" /\ ~e.blind =>
             /\ u \notin crossed /\ ~OnTheWay(u, OfWhiteboard)
             /\ \A i \in DOMAIN up[u] : up[u][i].kind # "get" /\ ~up[u][i].blind
        /\ UNCHANGED <<inside, down, board, crossed>>
  <2>1. CASE AskForWhiteboard(u)
    <3>1. PICK e \in Upward : e = [kind |-> "get", items |-> {}, blind |-> FALSE]
      BY DEF Upward
    <3>2. up' = [up EXCEPT ![u] = Append(@, e)] /\ e.kind = "get"
      BY <2>1, <3>1 DEF AskForWhiteboard
    <3>3. elements' = [elements EXCEPT ![u] = elements[u]]
      BY <2>1 DEF AskForWhiteboard, TypeInv, TypeOK
    <3>4. elements[u] \in SUBSET Edits
      BY DEF TypeInv, TypeOK
    <3> QED BY <2>1, <3>2, <3>3, <3>4 DEF AskForWhiteboard
  <2>2. ASSUME NEW d \in Edits, DrawElement(u, d)
        PROVE  \E e \in Upward, more \in SUBSET Edits :
          /\ up' = [up EXCEPT ![u] = Append(@, e)]
          /\ elements' = [elements EXCEPT ![u] = more]
          /\ elements[u] \subseteq more
          /\ e.kind = "update" => e.items = more /\ more # {}
          /\ e.kind # "update" => more = elements[u]
          /\ e.kind = "update" /\ ~e.blind =>
               /\ u \notin crossed /\ ~OnTheWay(u, OfWhiteboard)
               /\ \A i \in DOMAIN up[u] : up[u][i].kind # "get" /\ ~up[u][i].blind
          /\ UNCHANGED <<inside, down, board, crossed>>
    <3>1. elements[u] \cup {d} \in SUBSET Edits
      BY DEF TypeInv, TypeOK
    <3>2. PICK b \in BOOLEAN :
            /\ b = (\/ u \in crossed \/ OnTheWay(u, OfWhiteboard)
                    \/ \E i \in DOMAIN up[u] : up[u][i].kind = "get" \/ up[u][i].blind)
            /\ up' = [up EXCEPT ![u] = Append(@,
                 [kind |-> "update", items |-> elements[u] \cup {d}, blind |-> b])]
      BY <2>2 DEF DrawElement
    <3>3. PICK e \in Upward :
            e = [kind |-> "update", items |-> elements[u] \cup {d}, blind |-> b]
      BY <3>1 DEF Upward
    <3>4. e.kind = "update" /\ e.items = elements[u] \cup {d} /\ e.blind = b
      BY <3>3
    <3>5. up' = [up EXCEPT ![u] = Append(@, e)]
      BY <3>2, <3>3
    <3>6. /\ elements' = [elements EXCEPT ![u] = elements[u] \cup {d}]
          /\ UNCHANGED <<inside, down, board, crossed>>
      BY <2>2 DEF DrawElement
    <3>7. e.kind = "update" /\ ~e.blind =>
            /\ u \notin crossed /\ ~OnTheWay(u, OfWhiteboard)
            /\ \A i \in DOMAIN up[u] : up[u][i].kind # "get" /\ ~up[u][i].blind
      BY <3>2, <3>4
    <3> QED BY <3>1, <3>4, <3>5, <3>6, <3>7
  <2> QED BY <2>1, <2>2
<1>2. up[u] \in Seq(Upward) /\ \A i \in DOMAIN up[u] : up[u][i] \in Upward
  BY DEF TypeInv, TypeOK
<1>3. e.kind = "update" /\ ~e.blind => \A i \in DOMAIN up[u] : Sighted(up[u], i)
  BY <1>1, <1>2 DEF Sighted, Upward
<1>4. /\ Ordered(Append(up[u], e), more)
      /\ \A i \in DOMAIN up[u] : Append(up[u], e)[i] = up[u][i]
      /\ \A i \in DOMAIN Append(up[u], e) : i \in DOMAIN up[u] \/ Append(up[u], e)[i] = e
      /\ e.kind = "update" => ~NoUpdate(Append(up[u], e))
      /\ NoUpdate(Append(up[u], e)) => NoUpdate(up[u])
  <2>1. Ordered(up[u], elements[u])
    BY DEF BoardInv
  <2> QED BY <2>1, <1>1, <1>2, <1>3, AppendOrdered
<1>5. \A v \in Users : /\ up'[v] = IF v = u THEN Append(up[u], e) ELSE up[v]
                       /\ elements'[v] = IF v = u THEN more ELSE elements[v]
  BY <1>1 DEF TypeInv, TypeOK
<1>6. ASSUME NEW v \in inside' \ crossed', NoUpdate(up'[v]) PROVE BoardAhead(v)' = board'
  <2>1. v \in Users /\ v \in inside \ crossed
    BY <1>1 DEF TypeInv, TypeOK
  <2>2. elements'[v] = elements[v] /\ NoUpdate(up[v])
    <3>1. CASE v = u
      BY <3>1, <1>1, <1>4, <1>5, <1>6, <2>1
    <3>2. CASE v # u
      BY <3>2, <1>5, <1>6, <2>1
    <3> QED BY <3>1, <3>2
  <2>3. BoardAhead(v)' = BoardAhead(v)
    BY <2>2, <1>1 DEF BoardAhead
  <2> QED BY <2>1, <2>2, <2>3, <1>1 DEF BoardInv
<1>7. e.kind = "update" /\ ~e.blind => board \subseteq e.items
  <2>1. SUFFICES ASSUME e.kind = "update", ~e.blind PROVE board \subseteq elements[u]
    BY <1>1
  <2>2. u \notin crossed /\ ~OnTheWay(u, OfWhiteboard) /\ \A i \in DOMAIN up[u] : Sighted(up[u], i)
    BY <2>1, <1>1, <1>3
  <2>3. CASE DOMAIN up[u] = {}
    <3>1. u \in inside
      <4>1. AskForWhiteboard(u) \/ \E d \in Edits : DrawElement(u, d)
        OBVIOUS
      <4> QED BY <4>1 DEF AskForWhiteboard, DrawElement
    <3>2. BoardAhead(u) = board
      BY <2>2, <2>3, <3>1 DEF BoardInv, NoUpdate
    <3> QED BY <2>2, <3>2 DEF BoardAhead, Ahead, OnTheWay
  <2>4. ASSUME NEW i \in DOMAIN up[u] PROVE board \subseteq elements[u]
    <3>1. up[u][i].items \subseteq elements[u] /\ board \subseteq up[u][i].items
      BY <2>2 DEF BoardInv, Ordered
    <3> QED BY <3>1
  <2> QED BY <2>3, <2>4
<1>8. ASSUME NEW v \in Users
      PROVE  /\ Ordered(up'[v], elements'[v])
             /\ \A i \in DOMAIN up'[v] :
                  Sighted(up'[v], i) => /\ board \subseteq up'[v][i].items
                                        /\ v \notin crossed' /\ ~OnTheWay(v, OfWhiteboard)'
  <2>0. OnTheWay(v, OfWhiteboard)' = OnTheWay(v, OfWhiteboard)
    BY <1>1 DEF OnTheWay
  <2>1. CASE v = u
    <3>1. ASSUME NEW i \in DOMAIN Append(up[u], e), Sighted(Append(up[u], e), i)
          PROVE  /\ board \subseteq Append(up[u], e)[i].items
                 /\ u \notin crossed /\ ~OnTheWay(u, OfWhiteboard)
      <4>1. CASE i \in DOMAIN up[u]
        BY <4>1, <3>1, <1>4 DEF BoardInv, Sighted
      <4>2. CASE Append(up[u], e)[i] = e
        BY <4>2, <3>1, <1>1, <1>7 DEF Sighted
      <4> QED BY <4>1, <4>2, <1>4
    <3> QED BY <2>0, <2>1, <3>1, <1>1, <1>4, <1>5
  <2>2. CASE v # u
    <3>1. up'[v] = up[v] /\ elements'[v] = elements[v]
      BY <2>2, <1>5
    <3> QED BY <2>0, <3>1, <1>1 DEF BoardInv
  <2> QED BY <2>1, <2>2
<1> QED BY <1>1, <1>6, <1>8 DEF BoardInv

LEMMA BoardActs ==
  ASSUME TypeInv, BoardInv, NEW u \in Users, Acts(u)
  PROVE  BoardInv'
<1>1. CASE \/ AskForWhiteboard(u) \/ HandleWhiteboardUpdate(u) \/ HandleGetWhiteboardState(u)
           \/ \E e \in Edits : DrawElement(u, e)
  BY <1>1, BoardAsked, BoardUpdated, BoardGotten
<1>2. CASE DropCanvas(u)
  <2>1. {} \in SUBSET Strokes /\ "closed" \in OfCanvas
    BY DEF OfCanvas, Anew
  <2> QED BY <2>1, <1>2, BoardIgnores, EventsOK DEF DropCanvas, FreeCanvas
<1>3. ASSUME NEW s \in Strokes, HandleDraw(u, s) PROVE BoardInv'
  <2>1. {s} \in SUBSET Strokes /\ "draw" \in OfCanvas
    BY DEF OfCanvas
  <2> QED BY <2>1, <1>3, BoardIgnores, EventsOK DEF HandleDraw
<1>4. CASE LeaveRoom(u) \/ Disconnect(u)
  <2>1. /\ inside' = inside \ {u} /\ crossed' = crossed \ {u} /\ board' = board
        /\ down' = [down EXCEPT ![u] = <<>>] /\ up' = [up EXCEPT ![u] = <<>>]
        /\ elements' = [elements EXCEPT ![u] = {}]
        /\ inside \subseteq Users
    BY <1>4 DEF LeaveRoom, Disconnect, Gone, Fresh, TypeInv, TypeOK
  <2>2. ASSUME NEW v \in Users, v # u
        PROVE  /\ down'[v] = down[v] /\ up'[v] = up[v] /\ elements'[v] = elements[v]
               /\ BoardAhead(v)' = BoardAhead(v)
               /\ OnTheWay(v, OfWhiteboard)' = OnTheWay(v, OfWhiteboard)
    <3>1. down'[v] = down[v] /\ up'[v] = up[v] /\ elements'[v] = elements[v]
      BY <2>1, <2>2 DEF TypeInv, TypeOK
    <3> QED BY <3>1 DEF BoardAhead, OnTheWay
  <2>3. up'[u] = <<>>
    BY <2>1 DEF TypeInv, TypeOK
  <2>4. \A v \in inside' \ crossed' : NoUpdate(up'[v]) => BoardAhead(v)' = board'
    BY <2>1, <2>2 DEF BoardInv
  <2>5. ASSUME NEW v \in Users
        PROVE  /\ Ordered(up'[v], elements'[v])
               /\ \A i \in DOMAIN up'[v] :
                    Sighted(up'[v], i) => /\ board' \subseteq up'[v][i].items
                                          /\ v \notin crossed' /\ ~OnTheWay(v, OfWhiteboard)'
    <3>1. CASE v = u
      <4>1. DOMAIN up'[v] = {}
        BY <3>1, <2>3
      <4> QED BY <4>1 DEF Ordered
    <3>2. CASE v # u
      BY <3>2, <2>1, <2>2 DEF BoardInv
    <3> QED BY <3>1, <3>2
  <2>6. board' = {} => crossed' = {}
    BY <2>1 DEF BoardInv
  <2> QED BY <2>4, <2>5, <2>6 DEF BoardInv
<1>5. CASE Deliver(u)
  <2> DEFINE event == Head(down[u])
  <2>1. /\ down[u] # <<>> /\ down[u] \in Seq(Event)
        /\ down' = [down EXCEPT ![u] = Tail(@)]
        /\ elements' = [elements EXCEPT ![u] = Shows(@, event, OfWhiteboard, OfWhiteboard)]
        /\ UNCHANGED <<inside, up, board, crossed>>
        /\ inside \subseteq Users
    BY <1>5 DEF Deliver, TypeInv, TypeOK
  <2>2. ASSUME NEW v \in Users, v # u
        PROVE  /\ elements'[v] = elements[v]
               /\ BoardAhead(v)' = BoardAhead(v)
               /\ OnTheWay(v, OfWhiteboard)' = OnTheWay(v, OfWhiteboard)
    <3>1. down'[v] = down[v] /\ elements'[v] = elements[v]
      BY <2>1, <2>2 DEF TypeInv, TypeOK
    <3> QED BY <3>1 DEF BoardAhead, OnTheWay
  <2>3. /\ down'[u] = Tail(down[u])
        /\ elements'[u] = Shows(elements[u], event, OfWhiteboard, OfWhiteboard)
    BY <2>1 DEF TypeInv, TypeOK
  <2>4. BoardAhead(u)' = BoardAhead(u)
    BY <2>1, <2>3, AheadTail DEF BoardAhead
  <2>5. /\ OnTheWay(u, OfWhiteboard)' => OnTheWay(u, OfWhiteboard)
        /\ event.kind \in OfWhiteboard => OnTheWay(u, OfWhiteboard)
    <3>1. /\ \A i \in DOMAIN Tail(down[u]) :
               i + 1 \in DOMAIN down[u] /\ Tail(down[u])[i] = down[u][i + 1]
          /\ 1 \in DOMAIN down[u] /\ event = down[u][1]
      BY <2>1, Shifted
    <3> HIDE DEF event
    <3> QED BY <3>1, <2>3 DEF OnTheWay
  <2> HIDE DEF event
  <2>6. event.kind \notin OfWhiteboard => elements'[u] = elements[u]
    BY <2>3 DEF Shows
  <2>7. \A v \in inside' \ crossed' : NoUpdate(up'[v]) => BoardAhead(v)' = board'
    BY <2>1, <2>2, <2>4 DEF BoardInv
  <2>8. ASSUME NEW v \in Users
        PROVE  /\ Ordered(up[v], elements'[v])
               /\ \A i \in DOMAIN up[v] :
                    Sighted(up[v], i) => /\ board \subseteq up[v][i].items
                                         /\ v \notin crossed /\ ~OnTheWay(v, OfWhiteboard)'
    <3>1. CASE v # u
      BY <3>1, <2>2 DEF BoardInv
    <3>2. CASE v = u /\ event.kind \notin OfWhiteboard
      BY <3>2, <2>5, <2>6 DEF BoardInv
    <3>3. CASE v = u /\ event.kind \in OfWhiteboard
      <4>1. \A i \in DOMAIN up[u] : ~Sighted(up[u], i)
        BY <3>3, <2>5 DEF BoardInv
      <4>2. Ordered(up[u], elements[u])
        BY DEF BoardInv
      <4> QED BY <3>3, <4>1, <4>2 DEF Ordered
    <3> QED BY <3>1, <3>2, <3>3
  <2> QED BY <2>1, <2>7, <2>8 DEF BoardInv
<1> QED BY <1>1, <1>2, <1>3, <1>4, <1>5 DEF Acts

LEMMA BoardStep ==
  ASSUME TypeInv, BoardInv, [Next]_vars
  PROVE  BoardInv'
<1>1. ASSUME NEW r \in Requests, Resume(r) PROVE BoardInv'
  BY <1>1, BoardResume
<1>2. ASSUME NEW r \in Requests, NEW u \in Users, Receive(r, u) PROVE BoardInv'
  BY <1>2, BoardReceive
<1>3. ASSUME NEW u \in Users, Acts(u) PROVE BoardInv'
  BY <1>3, BoardActs
<1>4. CASE Restart
  <2>1. inside' = {} /\ crossed' = {} /\ up' = [u \in Users |-> <<>>]
    BY <1>4 DEF Restart
  <2>2. \A u \in Users : DOMAIN up'[u] = {}
    BY <2>1
  <2> QED BY <2>1, <2>2 DEF BoardInv, Ordered
<1>5. CASE UNCHANGED vars
  BY <1>5, BoardKept DEF BoardAhead, OnTheWay, vars, whiteboardVars
<1> QED BY <1>1, <1>2, <1>3, <1>4, <1>5 DEF Next, Acts

LEMMA BoardAlways == Spec => [](TypeInv /\ BoardInv)
<1>1. Init => BoardInv
  <2>1. ASSUME Init PROVE BoardInv
    <3>1. \A u \in Users : DOMAIN up[u] = {}
      <4>1. \A u \in Users : up[u] = <<>>
        BY <2>1 DEF Init
      <4> QED BY <4>1, EmptyQueue
    <3> QED BY <2>1, <3>1 DEF Init, BoardInv, Ordered
  <2> QED BY <2>1
<1> QED BY <1>1, InitType, TypeStep, BoardStep, PTL DEF Spec

\* Whose update did not cross another comes to show what is stored.
THEOREM ClientsInStep == Spec => []InStep
<1>1. BoardInv => InStep
  BY DEF BoardInv, InStep, NoUpdate
<1> QED BY <1>1, BoardAlways, PTL

\* Only an update writes the board, or a restart.
LEMMA OnlyUpdated ==
  ASSUME TypeInv, [Next]_vars, board' # board
  PROVE  Restart \/ \E u \in Users : HandleWhiteboardUpdate(u)
<1>1. ASSUME NEW r \in Requests, Resume(r) PROVE FALSE
  BY <1>1 DEF Resume, GetCanvasState, ShowCanvas, AnswerCanvasState, CloseCanvas, ClearCanvas,
      SaveClosing, SaveClearing, SaveMeetingMessage, PostMessage, GetMeetingMessages,
      SendHistory, Fail, whiteboardVars
<1>2. ASSUME NEW r \in Requests, NEW u \in Users, Receive(r, u) PROVE FALSE
  BY <1>2 DEF Receive, JoinRoom, HandleOpenCanvas, HandleCloseCanvas, HandleClearCanvas,
      HandleGetCanvasState, HandleGetMessageHistory, HandleChatMessage, whiteboardVars
<1>3. ASSUME NEW u \in Users, Acts(u) PROVE HandleWhiteboardUpdate(u)
  BY <1>3 DEF Acts, AskForWhiteboard, HandleGetWhiteboardState, DropCanvas,
      LeaveRoom, Disconnect, Deliver, DrawElement, HandleDraw, whiteboardVars
<1>4. ~UNCHANGED vars
  BY DEF vars, whiteboardVars
<1> QED BY <1>1, <1>2, <1>3, <1>4 DEF Next, Acts

\* An element is wiped out by an update whose client had not seen all others, or with
\* a restart, and by nothing else.
THEOREM ElementsLostByCrossing == Spec => ElementLostNeedsCrossing
<1>1. ASSUME TypeInv, BoardInv, [Next]_vars
      PROVE  [\A e \in board :
                e \notin board' =>
                  \/ inside' = {}
                  \/ \E u \in Users : /\ up[u] # <<>> /\ up'[u] = Tail(up[u])
                                      /\ Head(up[u]).kind = "update" /\ Head(up[u]).blind]_vars
  <2>1. SUFFICES ASSUME NEW e \in board, e \notin board'
                 PROVE  \/ inside' = {}
                        \/ \E u \in Users :
                             /\ up[u] # <<>> /\ up'[u] = Tail(up[u])
                             /\ Head(up[u]).kind = "update" /\ Head(up[u]).blind
    OBVIOUS
  <2>2. CASE Restart
    BY <2>2 DEF Restart
  <2>3. ASSUME NEW u \in Users, HandleWhiteboardUpdate(u)
        PROVE  /\ up[u] # <<>> /\ up'[u] = Tail(up[u])
               /\ Head(up[u]).kind = "update" /\ Head(up[u]).blind
    <3>1. /\ up[u] # <<>> /\ up' = Blinded(u) /\ board' = Head(up[u]).items
          /\ Head(up[u]).kind = "update"
      BY <2>3 DEF HandleWhiteboardUpdate
    <3>2. up[u] \in Seq(Upward)
      BY <1>1 DEF TypeInv, TypeOK
    <3>3. 1 \in DOMAIN up[u] /\ Head(up[u]) = up[u][1]
      BY <3>1, <3>2
    <3>4. Head(up[u]).blind
      BY <2>1, <3>1, <3>3, <1>1 DEF BoardInv, Sighted
    <3> QED BY <3>1, <3>4 DEF Blinded
  <2> QED BY <1>1, <2>1, <2>2, <2>3, OnlyUpdated
<1> QED BY <1>1, BoardAlways, PTL DEF Spec, ElementLostNeedsCrossing

=============================================================================

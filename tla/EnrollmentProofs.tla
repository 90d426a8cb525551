--------------------------- MODULE EnrollmentProofs ---------------------------
(***************************************************************************)
(* Theorems about Enrollment, for every set of students, classes and       *)
(* overlapping handlers, whether or not calls fail.                        *)
(*                                                                         *)
(* Each handler that is about to create a row for a student has seen the   *)
(* student without one.  So it counts as a row already: rows and such      *)
(* handlers together are never more than the handlers that can overlap.    *)
(***************************************************************************)
EXTENDS Enrollment, FiniteSetTheorems, TLAPS

\* Steps in which a handler is to create a row for its students.
Inserting == {"adding", "reading", "committing"}

\* What a handler knows of its own request at each step.
RequestOK(q) ==
  /\ q.at = "adding" => q.class \in Classes
  /\ q.at \notin {"idle", "adding", "leaving"} => q.class \in Classes /\ q.user \in Users
  /\ q.at = "enrolling" => ~q.join
  /\ q.at \in Inserting => q.students \subseteq Users
  /\ q.at \in Inserting /\ q.join => q.students = {q.user}

TypeInv ==
  /\ TypeOK
  /\ \A r \in Requests : RequestOK(requests[r])

\* The handlers that are to create a row for u in c.
Pending(u, c) ==
  {r \in Requests : /\ requests[r].at \in Inserting
                    /\ requests[r].class = c
                    /\ u \in requests[r].students}

CountedFor(u, c) ==
  /\ IsFiniteSet(RowsOf(u, c))
  /\ Cardinality(RowsOf(u, c)) + Cardinality(Pending(u, c)) <= Cardinality(Requests)

Inv ==
  /\ TypeInv
  /\ \A u \in Users, c \in Classes : CountedFor(u, c)

-----------------------------------------------------------------------------
(* Types                                                                   *)

LEMMA IdleOK == Idle \in Request /\ RequestOK(Idle)
BY DEF Idle, Request, RequestOK, Steps, Null, Inserting

\* The rows of a table with new ones are rows.
LEMMA InsertedType ==
  ASSUME TypeOK, NEW S \in SUBSET Users, NEW id \in NewIds(S), NEW c \in Classes,
         NEW active \in BOOLEAN
  PROVE  Inserted(id, c, active) \in [Rows -> Null(Member)]
<1>1. DOMAIN id = S
  BY DEF NewIds
<1>2. ASSUME NEW m \in Rows
      PROVE  Inserted(id, c, active)[m] \in Null(Member)
  <2>1. CASE \E u \in DOMAIN id : id[u] = m
    <3>1. (CHOOSE u \in DOMAIN id : id[u] = m) \in Users
      BY <1>1, <2>1
    <3> QED BY <2>1, <3>1 DEF Inserted, Member, Null
  <2>2. CASE ~\E u \in DOMAIN id : id[u] = m
    BY <2>2 DEF Inserted, TypeOK
  <2> QED BY <2>1, <2>2
<1> QED BY <1>2 DEF Inserted

\* A handler that starts, goes on or ends with a right request keeps TypeInv.
LEMMA RequestStep ==
  ASSUME TypeInv, NEW r \in Requests, NEW q \in Request, RequestOK(q),
         requests' = [requests EXCEPT ![r] = q],
         members' \in [Rows -> Null(Member)],
         purchases' \in [Users -> SUBSET Classes],
         conversation' \in [Classes -> {"missing", "open", "deleted"}],
         participants' \in [Classes -> SUBSET (Users \cup {Creator})],
         checkouts' \in [Users -> [Classes -> {"none", "open", "paid"}]]
  PROVE  TypeInv'
<1>1. requests' \in [Requests -> Request]
  BY DEF TypeInv, TypeOK
<1>2. \A p \in Requests : RequestOK(requests'[p])
  BY DEF TypeInv, TypeOK
<1> QED BY <1>1, <1>2 DEF TypeInv, TypeOK

LEMMA TypeReceive ==
  ASSUME TypeInv, NEW r \in Requests, Receive(r)
  PROVE  TypeInv'
<1> USE DEF TypeInv, TypeOK, chatVars
<1>0. Idle = [at |-> "idle", join |-> FALSE, user |-> NoOne, class |-> NoOne, row |-> NoOne,
              active |-> TRUE, students |-> {}, owned |-> {}]
  BY DEF Idle
<1> PICK c \in Classes :
      \/ \E S \in SUBSET Users, active \in BOOLEAN : AddStudents(r, S, c, active)
      \/ \E u \in Users :
           \/ LeaveClass(r, u, c) \/ RemoveStudent(r, u, c)
           \/ JoinClass(r, u, c) \/ Checkout(r, u, c)
           \/ StripeWebhook(r, u, c) \/ VerifyEnrollment(r, u, c)
  BY DEF Receive
<1>1. ASSUME NEW S \in SUBSET Users, NEW active \in BOOLEAN, AddStudents(r, S, c, active)
      PROVE  TypeInv'
  <2> DEFINE q == [Idle EXCEPT !.at = "adding", !.class = c, !.active = active,
                               !.students = {u \in S : ~IsMember(u, c)}]
  <2>1. q \in Request /\ RequestOK(q)
    BY <1>0 DEF Request, RequestOK, Steps, Null, Inserting
  <2>2. requests' = [requests EXCEPT ![r] = q]
    BY <1>1 DEF AddStudents, Start
  <2> QED BY <1>1, <2>1, <2>2, RequestStep DEF AddStudents
<1>2. ASSUME NEW u \in Users, FindRow(r, u, c)
      PROVE  TypeInv'
  <2> PICK m \in RowsOf(u, c) : Start(r, [Idle EXCEPT !.at = "leaving", !.row = m])
    BY <1>2 DEF FindRow
  <2> DEFINE q == [Idle EXCEPT !.at = "leaving", !.row = m]
  <2>1. q \in Request /\ RequestOK(q)
    BY <1>0 DEF Request, RequestOK, Steps, Null, Inserting, RowsOf
  <2>2. requests' = [requests EXCEPT ![r] = q]
    BY DEF Start
  <2> QED BY <1>2, <2>1, <2>2, RequestStep DEF FindRow
<1>3. ASSUME NEW u \in Users, JoinClass(r, u, c)
      PROVE  TypeInv'
  <2> DEFINE q == [Idle EXCEPT !.at = "reading", !.join = TRUE, !.user = u, !.class = c,
                               !.students = {u}]
  <2>1. q \in Request /\ RequestOK(q)
    BY <1>0 DEF Request, RequestOK, Steps, Null, Inserting
  <2>2. requests' = [requests EXCEPT ![r] = q]
    BY <1>3 DEF JoinClass, Start
  <2> QED BY <1>3, <2>1, <2>2, RequestStep DEF JoinClass
<1>4. ASSUME NEW u \in Users,
             Checkout(r, u, c) \/ StripeWebhook(r, u, c) \/ VerifyEnrollment(r, u, c)
      PROVE  TypeInv'
  <2> DEFINE q == [Idle EXCEPT !.at = "enrolling", !.user = u, !.class = c]
  <2>1. q \in Request /\ RequestOK(q)
    BY <1>0 DEF Request, RequestOK, Steps, Null, Inserting
  <2>2. CASE requests' = [requests EXCEPT ![r] = q] /\ UNCHANGED checkouts
    BY <1>4, <2>1, <2>2, RequestStep DEF Checkout, StripeWebhook, VerifyEnrollment
  <2>3. CASE Checkout(r, u, c) /\ UNCHANGED requests
    <3>1. checkouts' = checkouts \/ checkouts' = [checkouts EXCEPT ![u][c] = "open"]
      BY <2>3 DEF Checkout
    <3>2. checkouts' \in [Users -> [Classes -> {"none", "open", "paid"}]]
      BY <3>1
    <3> QED BY <2>3, <3>2 DEF Checkout
  <2> QED BY <1>4, <2>2, <2>3 DEF Checkout, StripeWebhook, VerifyEnrollment, Start
<1> QED BY <1>1, <1>2, <1>3, <1>4 DEF LeaveClass, RemoveStudent

LEMMA TypeResume ==
  ASSUME TypeInv, NEW r \in Requests, Resume(r)
  PROVE  TypeInv'
<1> DEFINE p == requests[r]
<1>0. p \in Request /\ RequestOK(p)
  BY DEF TypeInv, TypeOK
<1>a. ASSUME NEW step \in Steps \ (Inserting \cup {"idle", "enrolling"}),
             step # "leaving" => p.class \in Classes /\ p.user \in Users
      PROVE  [p EXCEPT !.at = step] \in Request /\ RequestOK([p EXCEPT !.at = step])
  BY <1>0, <1>a DEF Request, RequestOK, Inserting
<1> USE DEF TypeInv, TypeOK, chatVars
<1>1. CASE AddRows(r)
  <2>1. p.at = "adding" /\ p.class \in Classes /\ p.students \in SUBSET Users /\ p.active \in BOOLEAN
    BY <1>0, <1>1 DEF AddRows, At, RequestOK, Inserting, Request
  <2>2. members' \in [Rows -> Null(Member)]
    BY <1>1, <2>1, InsertedType DEF AddRows
  <2> QED BY <1>1, <2>2, IdleOK, RequestStep DEF AddRows, Finish
<1>2. CASE DeleteRow(r)
  <2>1. members' \in [Rows -> Null(Member)]
    BY <1>2 DEF DeleteRow, Null
  <2> QED BY <1>2, <2>1, IdleOK, RequestStep DEF DeleteRow, Finish
<1>3. CASE FindMember(r)
  <2> DEFINE q == [p EXCEPT !.at = "reading",
                            !.students = IF IsMember(p.user, p.class) THEN {} ELSE {p.user}]
  <2>1. p.at = "enrolling"
    BY <1>3 DEF FindMember, At
  <2>2. q \in Request /\ RequestOK(q)
    BY <1>0, <2>1 DEF Request, RequestOK, Steps, Inserting
  <2>3. requests' = [requests EXCEPT ![r] = q]
    BY <1>3 DEF FindMember
  <2> QED BY <1>3, <2>2, <2>3, RequestStep DEF FindMember
<1>4. CASE ReadPurchases(r)
  <2> DEFINE q == [p EXCEPT !.at = "committing", !.owned = purchases[p.user]]
  <2>1. p.at = "reading" /\ p.user \in Users
    BY <1>0, <1>4 DEF ReadPurchases, At, RequestOK
  <2>2. q \in Request /\ RequestOK(q)
    BY <1>0, <2>1 DEF Request, RequestOK, Steps, Inserting
  <2>3. requests' = [requests EXCEPT ![r] = q]
    BY <1>4 DEF ReadPurchases
  <2> QED BY <1>4, <2>2, <2>3, RequestStep DEF ReadPurchases
<1>5. CASE CommitGrant(r)
  <2>1. /\ p.at = "committing" /\ p.class \in Classes /\ p.user \in Users
        /\ p.students \in SUBSET Users /\ (p.join => p.students = {p.user})
    BY <1>0, <1>5 DEF CommitGrant, At, RequestOK, Inserting
  <2>2. PICK id \in NewIds(p.students) :
          /\ members' = Inserted(id, p.class, TRUE)
          /\ IF p.join
             THEN requests' = [requests EXCEPT ![r].at = "finding", ![r].owned = {},
                                               ![r].row = id[p.user]]
             ELSE Finish(r)
    BY <1>5 DEF CommitGrant
  <2>3. members' \in [Rows -> Null(Member)]
    BY <2>1, <2>2, InsertedType
  <2>4. purchases' \in [Users -> SUBSET Classes]
    BY <1>0, <1>5, <2>1 DEF CommitGrant, Grant, Request
  <2>5. CASE p.join
    <3> DEFINE q == [p EXCEPT !.at = "finding", !.owned = {}, !.row = id[p.user]]
    <3>1. id[p.user] \in Rows
      BY <2>1, <2>5 DEF NewIds, NewRows
    <3>2. q \in Request /\ RequestOK(q)
      BY <1>0, <2>1, <3>1 DEF Request, RequestOK, Steps, Inserting, Null
    <3>3. requests' = [requests EXCEPT ![r] = q]
      BY <2>2, <2>5
    <3> QED BY <1>5, <2>3, <2>4, <3>2, <3>3, RequestStep DEF CommitGrant
  <2>6. CASE ~p.join
    BY <1>5, <2>2, <2>3, <2>4, <2>6, IdleOK, RequestStep DEF CommitGrant, Finish
  <2> QED BY <2>5, <2>6
<1>6. CASE FindConversation(r)
  <2> DEFINE step == IF conversation[p.class] = "open" THEN "entering" ELSE "creating"
  <2>1. p.at = "finding" /\ step \in Steps \ (Inserting \cup {"idle", "enrolling"})
    BY <1>6 DEF FindConversation, At, Steps, Inserting
  <2>2. [p EXCEPT !.at = step] \in Request /\ RequestOK([p EXCEPT !.at = step])
    BY <1>0, <1>a, <2>1 DEF RequestOK
  <2>3. requests' = [requests EXCEPT ![r] = [p EXCEPT !.at = step]]
    BY <1>6 DEF FindConversation, GoTo
  <2> QED BY <1>6, <2>2, <2>3, RequestStep DEF FindConversation
<1>7. CASE EnterConversation(r)
  <2>1. p.class \in Classes /\ p.user \in Users
    BY <1>0, <1>7 DEF EnterConversation, At, RequestOK
  <2>2. participants' \in [Classes -> SUBSET (Users \cup {Creator})]
    BY <1>7, <2>1 DEF EnterConversation
  <2> QED BY <1>7, <2>2, IdleOK, RequestStep DEF EnterConversation, Finish
<1>8. CASE CreateConversation(r)
  <2>1. p.at = "creating" /\ "listing" \in Steps \ (Inserting \cup {"idle", "enrolling"})
    BY <1>8 DEF CreateConversation, At, Steps, Inserting
  <2>2. [p EXCEPT !.at = "listing"] \in Request /\ RequestOK([p EXCEPT !.at = "listing"])
    BY <1>0, <1>a, <2>1 DEF RequestOK
  <2>3. requests' = [requests EXCEPT ![r] = [p EXCEPT !.at = "listing"]]
    BY <1>8 DEF CreateConversation, GoTo
  <2>4. conversation' \in [Classes -> {"missing", "open", "deleted"}]
    BY <1>8 DEF CreateConversation
  <2> QED BY <1>8, <2>2, <2>3, <2>4, RequestStep DEF CreateConversation
<1>9. CASE ConversationExists(r)
  BY <1>9, IdleOK, RequestStep DEF ConversationExists, Finish
<1>10. CASE ListParticipants(r)
  <2> DEFINE seats == {Creator} \cup
               {u \in Users : \E m \in RowsOf(u, p.class) : members[m].active}
             q == [p EXCEPT !.at = "filling", !.students = seats]
  <2>1. p.at = "listing"
    BY <1>10 DEF ListParticipants, At
  <2>2. seats \in SUBSET (Users \cup {Creator})
    OBVIOUS
  <2> HIDE DEF seats
  <2>3. q \in Request /\ RequestOK(q)
    BY <1>0, <2>1, <2>2 DEF Request, RequestOK, Steps, Inserting
  <2>4. requests' = [requests EXCEPT ![r] = q]
    BY <1>10 DEF ListParticipants, seats
  <2> QED BY <1>10, <2>3, <2>4, RequestStep DEF ListParticipants
<1>11. CASE FillConversation(r)
  <2>1. p.class \in Classes /\ p.students \in SUBSET (Users \cup {Creator})
    BY <1>0, <1>11 DEF FillConversation, At, RequestOK, Request
  <2>2. participants' \in [Classes -> SUBSET (Users \cup {Creator})]
    BY <1>11, <2>1 DEF FillConversation
  <2> QED BY <1>11, <2>2, IdleOK, RequestStep DEF FillConversation, Finish
<1> QED BY <1>1, <1>2, <1>3, <1>4, <1>5, <1>6, <1>7, <1>8, <1>9, <1>10, <1>11 DEF Resume

LEMMA TypeStep == TypeInv /\ [Next]_vars => TypeInv'
<1> SUFFICES ASSUME TypeInv, [Next]_vars PROVE TypeInv'
  OBVIOUS
<1>1. ASSUME NEW r \in Requests, Fail(r)
      PROVE  TypeInv'
  BY <1>1, IdleOK, RequestStep DEF Fail, Finish, TypeInv, TypeOK, chatVars
<1>2. ASSUME NEW u \in Users, NEW c \in Classes, Pay(u, c)
      PROVE  TypeInv'
  <2>1. checkouts' \in [Users -> [Classes -> {"none", "open", "paid"}]]
    BY <1>2 DEF Pay, TypeInv, TypeOK
  <2> QED BY <1>2, <2>1 DEF Pay, TypeInv, TypeOK, chatVars
<1>3. ASSUME NEW c \in Classes, NEW S \in SUBSET Users, BulkRemoveStudents(S, c)
      PROVE  TypeInv'
  <2>1. members' \in [Rows -> Null(Member)]
    BY <1>3 DEF BulkRemoveStudents, TypeInv, TypeOK, Null
  <2> QED BY <1>3, <2>1 DEF BulkRemoveStudents, TypeInv, TypeOK, chatVars
<1>4. ASSUME NEW c \in Classes, DeleteConversation(c)
      PROVE  TypeInv'
  <2>1. conversation' \in [Classes -> {"missing", "open", "deleted"}]
    BY <1>4 DEF DeleteConversation, TypeInv, TypeOK
  <2> QED BY <1>4, <2>1 DEF DeleteConversation, TypeInv, TypeOK
<1>5. CASE UNCHANGED vars
  BY <1>5 DEF vars, chatVars, TypeInv, TypeOK
<1> QED BY <1>1, <1>2, <1>3, <1>4, <1>5, TypeReceive, TypeResume DEF Next

LEMMA TypeInit == Init => TypeInv
BY IdleOK DEF Init, TypeInv, TypeOK, Null

\* Every variable of every reachable state has its type, whatever handlers
\* overlap, fail or crash.
THEOREM TypeCorrect == Spec => []TypeOK
<1>1. TypeInv => TypeOK
  BY DEF TypeInv
<1> QED BY <1>1, TypeInit, TypeStep, PTL DEF Spec

-----------------------------------------------------------------------------
(* Rows of a student in a class                                            *)

\* Rows R and handlers P become R2 and P2: all the rows go, none comes, or one
\* handler turns into one row.
LEMMA Counting ==
  ASSUME NEW R, NEW P \in SUBSET Requests, NEW R2, NEW P2 \in SUBSET Requests,
         IsFiniteSet(R),
         Cardinality(R) + Cardinality(P) <= Cardinality(Requests),
         \/ R2 = {}
         \/ R2 \subseteq R /\ P2 \subseteq P
         \/ \E m : \E r \in P : R2 \subseteq R \cup {m} /\ P2 \subseteq P \ {r}
  PROVE  /\ IsFiniteSet(R2)
         /\ Cardinality(R2) + Cardinality(P2) <= Cardinality(Requests)
<1>0. IsFiniteSet(Requests) /\ IsFiniteSet(P) /\ IsFiniteSet(P2)
  BY EnrollmentAssumption, FS_Subset
<1>1. /\ Cardinality(Requests) \in Nat /\ Cardinality(P) \in Nat /\ Cardinality(P2) \in Nat
      /\ Cardinality(R) \in Nat /\ Cardinality(P2) <= Cardinality(Requests)
  BY <1>0, FS_CardinalityType, FS_Subset
<1>2. CASE R2 = {}
  BY <1>1, <1>2, FS_EmptySet
<1>3. CASE R2 \subseteq R /\ P2 \subseteq P
  <2>1. IsFiniteSet(R2) /\ Cardinality(R2) <= Cardinality(R) /\ Cardinality(P2) <= Cardinality(P)
    BY <1>0, <1>3, FS_Subset
  <2>2. Cardinality(R2) \in Nat
    BY <2>1, FS_CardinalityType
  <2> QED BY <1>1, <2>1, <2>2
<1>4. ASSUME NEW r \in P, NEW m, R2 \subseteq R \cup {m}, P2 \subseteq P \ {r}
      PROVE  /\ IsFiniteSet(R2)
             /\ Cardinality(R2) + Cardinality(P2) <= Cardinality(Requests)
  <2>1. IsFiniteSet(R \cup {m}) /\ Cardinality(R \cup {m}) <= Cardinality(R) + 1
    <3>1. /\ IsFiniteSet(R \cup {m})
          /\ Cardinality(R \cup {m}) = IF m \in R THEN Cardinality(R) ELSE Cardinality(R) + 1
      BY FS_AddElement
    <3> QED BY <1>1, <3>1
  <2>2. IsFiniteSet(R2) /\ Cardinality(R2) <= Cardinality(R \cup {m})
    BY <1>4, <2>1, FS_Subset
  <2>3. IsFiniteSet(P \ {r}) /\ Cardinality(P \ {r}) = Cardinality(P) - 1
    BY <1>0, FS_RemoveElement
  <2>4. Cardinality(P2) <= Cardinality(P \ {r})
    BY <1>4, <2>3, FS_Subset
  <2>5. Cardinality(R2) \in Nat /\ Cardinality(R \cup {m}) \in Nat
    BY <2>1, <2>2, FS_CardinalityType
  <2> QED BY <1>1, <2>1, <2>2, <2>3, <2>4, <2>5
<1> QED BY <1>2, <1>3, <1>4

\* What a step may do to the rows of u in c and to the handlers about to make one.
Counted(u, c) ==
  \/ RowsOf(u, c)' = {}
  \/ RowsOf(u, c)' \subseteq RowsOf(u, c) /\ Pending(u, c)' \subseteq Pending(u, c)
  \/ \E m : \E r \in Pending(u, c) : /\ RowsOf(u, c)' \subseteq RowsOf(u, c) \cup {m}
                                      /\ Pending(u, c)' \subseteq Pending(u, c) \ {r}

LEMMA CountedStep ==
  ASSUME NEW u, NEW c, CountedFor(u, c), Counted(u, c)
  PROVE  CountedFor(u, c)'
<1>1. Pending(u, c) \in SUBSET Requests /\ Pending(u, c)' \in SUBSET Requests
  BY DEF Pending
<1>2. /\ IsFiniteSet(RowsOf(u, c)')
      /\ Cardinality(RowsOf(u, c)') + Cardinality(Pending(u, c)') <= Cardinality(Requests)
  BY <1>1, Counting DEF CountedFor, Counted
<1> QED BY <1>2 DEF CountedFor

\* A step that leaves the rows, or deletes some, and sends no handler to make one
\* for a student who has one.
LEMMA NothingInserted ==
  ASSUME TypeInv, TypeInv', NEW r \in Requests,
         members' = members \/ \E S : members' = [m \in Rows |-> IF m \in S THEN NoOne ELSE members[m]],
         \A p \in Requests : p # r => requests'[p] = requests[p],
         NEW u \in Users, NEW c \in Classes,
         \/ requests'[r].at \notin Inserting
         \/ requests'[r].class # c
         \/ u \notin requests'[r].students
         \/ r \in Pending(u, c)
         \/ ~IsMember(u, c)
  PROVE  Counted(u, c)
<1>1. RowsOf(u, c)' \subseteq RowsOf(u, c)
  BY DEF RowsOf, TypeInv, TypeOK
<1>2. CASE ~IsMember(u, c)
  BY <1>1, <1>2 DEF IsMember, Counted
<1>3. CASE IsMember(u, c)
  <2>1. Pending(u, c)' \subseteq Pending(u, c)
    BY <1>3 DEF Pending
  <2> QED BY <1>1, <2>1 DEF Counted
<1> QED BY <1>2, <1>3

\* A handler that creates the rows for its students and is done with that.
LEMMA RowsInserted ==
  ASSUME TypeInv, TypeInv', NEW r \in Requests, requests[r].at \in Inserting,
         NEW id \in NewIds(requests[r].students), NEW active,
         members' = Inserted(id, requests[r].class, active),
         requests'[r].at \notin Inserting,
         \A p \in Requests : p # r => requests'[p] = requests[p],
         NEW u \in Users, NEW c \in Classes
  PROVE  Counted(u, c)
<1>0. DOMAIN id = requests[r].students
  BY DEF NewIds
<1>1. Pending(u, c)' \subseteq Pending(u, c) \ {r}
  BY DEF Pending
<1>3. CASE r \in Pending(u, c)
  <2>1. ASSUME NEW m \in RowsOf(u, c)', m \notin RowsOf(u, c)
        PROVE  m = id[u]
    <3>1. m \in Rows /\ members'[m].student = u
      BY <2>1 DEF RowsOf
    <3>2. \E v \in DOMAIN id : id[v] = m
      BY <2>1 DEF Inserted, RowsOf
    <3>3. members'[m].student = CHOOSE v \in DOMAIN id : id[v] = m
      BY <3>1, <3>2 DEF Inserted
    <3> QED BY <3>1, <3>2, <3>3
  <2>2. RowsOf(u, c)' \subseteq RowsOf(u, c) \cup {id[u]}
    BY <2>1
  <2> QED BY <1>1, <1>3, <2>2 DEF Counted
<1>4. CASE r \notin Pending(u, c)
  <2>1. requests[r].class # c \/ u \notin DOMAIN id
    BY <1>0, <1>4 DEF Pending
  <2>2. ASSUME NEW m \in RowsOf(u, c)', m \notin RowsOf(u, c)
        PROVE  FALSE
    <3>1. m \in Rows /\ members'[m].student = u /\ members'[m].class = c
      BY <2>2 DEF RowsOf
    <3>2. \E v \in DOMAIN id : id[v] = m
      BY <2>2 DEF Inserted, RowsOf
    <3>3. /\ members'[m].student = CHOOSE v \in DOMAIN id : id[v] = m
          /\ members'[m].class = requests[r].class
      BY <3>1, <3>2 DEF Inserted
    <3> QED BY <2>1, <3>1, <3>2, <3>3
  <2>3. RowsOf(u, c)' \subseteq RowsOf(u, c)
    BY <2>2
  <2> QED BY <1>1, <2>3 DEF Counted
<1> QED BY <1>3, <1>4

\* Who starts to create rows has looked for them.
LEMMA ReceiveCounted ==
  ASSUME TypeInv, TypeInv', NEW r \in Requests, Receive(r),
         NEW u \in Users, NEW c \in Classes
  PROVE  Counted(u, c)
<1>0. Idle.at = "idle" /\ DOMAIN requests = Requests
  BY DEF Idle, TypeInv, TypeOK
<1> PICK d \in Classes :
      \/ \E S \in SUBSET Users, active \in BOOLEAN : AddStudents(r, S, d, active)
      \/ \E v \in Users :
           \/ LeaveClass(r, v, d) \/ RemoveStudent(r, v, d)
           \/ JoinClass(r, v, d) \/ Checkout(r, v, d)
           \/ StripeWebhook(r, v, d) \/ VerifyEnrollment(r, v, d)
  BY DEF Receive
<1>1. ASSUME NEW S \in SUBSET Users, NEW active \in BOOLEAN, AddStudents(r, S, d, active)
      PROVE  Counted(u, c)
  <2>1. /\ requests'[r].class = d /\ requests'[r].students = {v \in S : ~IsMember(v, d)}
        /\ \A p \in Requests : p # r => requests'[p] = requests[p]
    BY <1>0, <1>1 DEF AddStudents, Start, Idle
  <2>2. requests'[r].class # c \/ u \notin requests'[r].students \/ ~IsMember(u, c)
    BY <2>1
  <2> QED BY <1>1, <2>1, <2>2, NothingInserted DEF AddStudents
<1>2. ASSUME NEW v \in Users, JoinClass(r, v, d)
      PROVE  Counted(u, c)
  <2>1. /\ requests'[r].class = d /\ requests'[r].students = {v}
        /\ \A p \in Requests : p # r => requests'[p] = requests[p]
    BY <1>0, <1>2 DEF JoinClass, Start, Idle
  <2>2. ~IsMember(v, d)
    BY <1>2 DEF JoinClass
  <2>3. requests'[r].class # c \/ u \notin requests'[r].students \/ ~IsMember(u, c)
    BY <2>1, <2>2
  <2> QED BY <1>2, <2>1, <2>3, NothingInserted DEF JoinClass
<1>3. ASSUME NEW v \in Users,
             \/ FindRow(r, v, d) \/ Checkout(r, v, d)
             \/ StripeWebhook(r, v, d) \/ VerifyEnrollment(r, v, d)
      PROVE  Counted(u, c)
  <2>1. members' = members /\ \A p \in Requests : p # r => requests'[p] = requests[p]
    BY <1>0, <1>3 DEF FindRow, Checkout, StripeWebhook, VerifyEnrollment, Start
  <2>2. requests'[r] = requests[r] \/ requests'[r].at \in {"leaving", "enrolling"}
    <3>1. CASE FindRow(r, v, d)
      BY <1>0, <3>1 DEF FindRow, Start, Idle
    <3>2. CASE Checkout(r, v, d)
      BY <1>0, <3>2 DEF Checkout, Start, Idle
    <3>3. CASE StripeWebhook(r, v, d) \/ VerifyEnrollment(r, v, d)
      BY <1>0, <3>3 DEF StripeWebhook, VerifyEnrollment, Start, Idle
    <3> QED BY <1>3, <3>1, <3>2, <3>3
  <2>3. \/ requests'[r].at \notin Inserting \/ requests'[r].class # c
        \/ u \notin requests'[r].students \/ r \in Pending(u, c)
    BY <2>2 DEF Inserting, Pending
  <2> QED BY <2>1, <2>3, NothingInserted
<1> QED BY <1>1, <1>2, <1>3 DEF LeaveClass, RemoveStudent

LEMMA ResumeCounted ==
  ASSUME TypeInv, TypeInv', NEW r \in Requests, Resume(r),
         NEW u \in Users, NEW c \in Classes
  PROVE  Counted(u, c)
<1> DEFINE p == requests[r]
<1>0. /\ p \in Request /\ RequestOK(p) /\ DOMAIN requests = Requests /\ Idle.at = "idle"
  BY DEF TypeInv, TypeOK, Idle
<1>1. ASSUME AddRows(r) \/ CommitGrant(r)
      PROVE  Counted(u, c)
  <2>1. p.at \in Inserting
    BY <1>1 DEF AddRows, CommitGrant, At, Inserting
  <2>2. \E id \in NewIds(p.students), active \in BOOLEAN :
          members' = Inserted(id, p.class, active)
    BY <1>0, <1>1 DEF AddRows, CommitGrant, Request
  <2>3. \A q \in Requests : q # r => requests'[q] = requests[q]
    BY <1>0, <1>1 DEF AddRows, CommitGrant, Finish
  <2>4. requests'[r].at \in {"idle", "finding"}
    <3>1. CASE requests' = [requests EXCEPT ![r] = Idle]
      BY <1>0, <3>1
    <3>2. CASE \E m : requests' = [requests EXCEPT ![r].at = "finding", ![r].owned = {},
                                                  ![r].row = m]
      BY <1>0, <3>2 DEF Request
    <3> QED BY <1>1, <3>1, <3>2 DEF AddRows, CommitGrant, Finish
  <2> QED BY <2>1, <2>2, <2>3, <2>4, RowsInserted DEF Inserting
<1>2. CASE DeleteRow(r)
  <2>1. members' = [m \in Rows |-> IF m \in {p.row} THEN NoOne ELSE members[m]]
    BY <1>2 DEF DeleteRow, TypeInv, TypeOK
  <2>2. requests'[r].at \notin Inserting /\ \A q \in Requests : q # r => requests'[q] = requests[q]
    BY <1>0, <1>2 DEF DeleteRow, Finish, Inserting
  <2> QED BY <2>1, <2>2, NothingInserted
<1>3. CASE FindMember(r)
  <2>1. /\ members' = members /\ \A q \in Requests : q # r => requests'[q] = requests[q]
        /\ requests'[r].class = p.class
        /\ requests'[r].students = IF IsMember(p.user, p.class) THEN {} ELSE {p.user}
    BY <1>0, <1>3 DEF FindMember, Request
  <2>2. requests'[r].class # c \/ u \notin requests'[r].students \/ ~IsMember(u, c)
    BY <2>1
  <2> QED BY <2>1, <2>2, NothingInserted
<1>4. CASE ReadPurchases(r)
  <2>1. /\ members' = members /\ \A q \in Requests : q # r => requests'[q] = requests[q]
        /\ requests'[r].class = p.class /\ requests'[r].students = p.students
        /\ p.at \in Inserting
    BY <1>0, <1>4 DEF ReadPurchases, Request, At, Inserting
  <2>2. \/ requests'[r].class # c \/ u \notin requests'[r].students \/ r \in Pending(u, c)
    BY <2>1 DEF Pending
  <2> QED BY <2>1, <2>2, NothingInserted
<1>5. ASSUME \/ FindConversation(r) \/ EnterConversation(r) \/ CreateConversation(r)
             \/ ConversationExists(r) \/ ListParticipants(r) \/ FillConversation(r)
      PROVE  Counted(u, c)
  <2>1. members' = members /\ \A q \in Requests : q # r => requests'[q] = requests[q]
    BY <1>0, <1>5 DEF FindConversation, EnterConversation, CreateConversation,
       ConversationExists, ListParticipants, FillConversation, GoTo, Finish
  <2>2. requests'[r].at \notin Inserting
    BY <1>0, <1>5 DEF FindConversation, EnterConversation, CreateConversation,
       ConversationExists, ListParticipants, FillConversation, GoTo, Finish, Inserting, Request
  <2> QED BY <2>1, <2>2, NothingInserted
<1> QED BY <1>1, <1>2, <1>3, <1>4, <1>5 DEF Resume

LEMMA StepCounted ==
  ASSUME TypeInv, TypeInv', [Next]_vars, NEW u \in Users, NEW c \in Classes
  PROVE  Counted(u, c)
<1>0. DOMAIN requests = Requests /\ Idle.at = "idle"
  BY DEF TypeInv, TypeOK, Idle
<1>1. ASSUME NEW r \in Requests, Fail(r)
      PROVE  Counted(u, c)
  <2>1. /\ members' = members /\ \A q \in Requests : q # r => requests'[q] = requests[q]
        /\ requests'[r].at \notin Inserting
    BY <1>0, <1>1 DEF Fail, Finish, Inserting
  <2> QED BY <2>1, NothingInserted
<1>2. CASE /\ requests' = requests
           /\ RowsOf(u, c)' \subseteq RowsOf(u, c)
  BY <1>2 DEF Counted, Pending
<1>3. ASSUME NEW d \in Classes, NEW S \in SUBSET Users, BulkRemoveStudents(S, d)
      PROVE  Counted(u, c)
  <2>1. members' = [m \in Rows |-> IF \E v \in S : m \in RowsOf(v, d) THEN NoOne ELSE members[m]]
    BY <1>3 DEF BulkRemoveStudents
  <2>2. RowsOf(u, c)' \subseteq RowsOf(u, c)
    BY <2>1 DEF RowsOf
  <2> QED BY <1>2, <1>3, <2>2 DEF BulkRemoveStudents
<1>4. ASSUME members' = members
      PROVE  RowsOf(u, c)' \subseteq RowsOf(u, c)
  BY <1>4 DEF RowsOf
<1>5. ASSUME NEW v \in Users, NEW d \in Classes, Pay(v, d)
      PROVE  Counted(u, c)
  BY <1>2, <1>4, <1>5 DEF Pay
<1>6. ASSUME NEW d \in Classes, DeleteConversation(d)
      PROVE  Counted(u, c)
  BY <1>2, <1>4, <1>6 DEF DeleteConversation
<1>7. CASE UNCHANGED vars
  BY <1>2, <1>4, <1>7 DEF vars
<1> QED BY <1>1, <1>3, <1>5, <1>6, <1>7, ReceiveCounted, ResumeCounted DEF Next

LEMMA InvInit == Init => Inv
<1> SUFFICES ASSUME Init PROVE Inv
  OBVIOUS
<1>1. ASSUME NEW u \in Users, NEW c \in Classes
      PROVE  CountedFor(u, c)
  <2>1. RowsOf(u, c) = {} /\ Pending(u, c) = {}
    BY DEF Init, RowsOf, Pending, Idle
  <2>2. Cardinality(Requests) \in Nat
    BY EnrollmentAssumption, FS_CardinalityType
  <2> QED BY <2>1, <2>2, FS_EmptySet DEF CountedFor
<1> QED BY <1>1, TypeInit DEF Inv

LEMMA InvStep == Inv /\ [Next]_vars => Inv'
<1> SUFFICES ASSUME Inv, [Next]_vars PROVE Inv'
  OBVIOUS
<1>1. TypeInv /\ TypeInv'
  BY TypeStep DEF Inv
<1>2. \A u \in Users, c \in Classes : CountedFor(u, c)'
  BY <1>1, StepCounted, CountedStep DEF Inv
<1> QED BY <1>1, <1>2 DEF Inv

\* However many joins, payments, webhooks, retries and teachers there were, a
\* student never has more rows in a class than handlers can overlap.
THEOREM DuplicatesStayBounded == Spec => []DuplicatesBounded
<1>1. Inv => DuplicatesBounded
  <2> SUFFICES ASSUME Inv, NEW u \in Users, NEW c \in Classes
               PROVE  Cardinality(RowsOf(u, c)) <= Cardinality(Requests)
    BY DEF DuplicatesBounded
  <2>1. Pending(u, c) \subseteq Requests
    BY DEF Pending
  <2>2. /\ Cardinality(RowsOf(u, c)) \in Nat /\ Cardinality(Pending(u, c)) \in Nat
        /\ Cardinality(Requests) \in Nat
    BY <2>1, EnrollmentAssumption, FS_Subset, FS_CardinalityType DEF Inv, CountedFor
  <2> QED BY <2>2 DEF Inv, CountedFor
<1> QED BY <1>1, InvInit, InvStep, PTL DEF Spec

-----------------------------------------------------------------------------
(* Purchases                                                               *)

\* Nothing but a grant writes a student's purchases.
LEMMA OnlyGrantWrites ==
  ASSUME [Next]_vars, purchases' # purchases
  PROVE  \E r \in Requests : CommitGrant(r)
<1>1. ASSUME NEW r \in Requests, Receive(r)
      PROVE  purchases' = purchases
  BY <1>1 DEF Receive, AddStudents, LeaveClass, RemoveStudent, FindRow, JoinClass, Checkout,
     StripeWebhook, VerifyEnrollment
<1>2. ASSUME NEW r \in Requests, Resume(r), ~CommitGrant(r)
      PROVE  purchases' = purchases
  BY <1>2 DEF Resume, AddRows, DeleteRow, FindMember, ReadPurchases, FindConversation,
     EnterConversation, CreateConversation, ConversationExists, ListParticipants,
     FillConversation
<1> QED BY <1>1, <1>2 DEF Next, Fail, Pay, BulkRemoveStudents, DeleteConversation, vars

\* A class that was granted is lost only to a transaction that had read the
\* purchases before it was among them, and grants another class.
THEOREM GrantsLostOnlyToOverlap == Spec => GrantLostOnlyToOverlap
<1> DEFINE Lost(u, c) ==
      \E r \in Requests : /\ At(r, "committing") /\ requests'[r] # requests[r]
                          /\ requests[r].user = u
                          /\ requests[r].class # c
                          /\ c \notin requests[r].owned
           Kept == \A u \in Users, c \in Classes :
                     c \in purchases[u] /\ c \notin purchases'[u] => Lost(u, c)
<1>1. TypeInv /\ [Next]_vars => Kept
  <2> SUFFICES ASSUME TypeInv, [Next]_vars, NEW u \in Users, NEW c \in Classes,
                      c \in purchases[u], c \notin purchases'[u]
               PROVE  Lost(u, c)
    OBVIOUS
  <2>1. PICK r \in Requests : CommitGrant(r)
    BY OnlyGrantWrites
  <2>2. requests[r].at = "committing" /\ requests'[r].at # "committing"
    BY <2>1 DEF CommitGrant, At, Finish, Idle, TypeInv, TypeOK, Request
  <2>3. requests[r].user = u /\ purchases'[u] = requests[r].owned \cup {requests[r].class}
    BY <2>1 DEF CommitGrant, Grant, TypeInv, TypeOK
  <2> QED BY <2>2, <2>3 DEF At
<1>2. TypeInv /\ [Next]_vars => [Kept]_vars
  BY <1>1
<1>3. Spec => [][Kept]_vars
  BY <1>2, TypeInit, TypeStep, PTL DEF Spec
<1> QED BY <1>3 DEF GrantLostOnlyToOverlap

-----------------------------------------------------------------------------
(* Seats in the conversation                                               *)

Seats == {"listing", "filling"}

\* The handlers that are seating the members of c in its new conversation.
Seating(c) == {q \in Requests : requests[q].class = c /\ requests[q].at \in Seats}

\* A conversation is made once, and its creator has no seat before the others.
SeatedOnce(c) ==
  /\ conversation[c] = "missing" => Creator \notin participants[c]
  /\ conversation[c] = "missing" \/ Creator \in participants[c] => Seating(c) = {}
  /\ \A p, q \in Seating(c) : p = q

\* Until a join is done, its row is the student's, or gone: no id is used again.
RowIsOwn(r) ==
  requests[r].at \in {"finding", "creating"} =>
    /\ requests[r].row \in Rows
    /\ members[requests[r].row] \in
         {NoOne, [class |-> requests[r].class, student |-> requests[r].user, active |-> TRUE]}

\* The one that made the conversation seats u, or failed and seated nobody.
Seated(u, c) ==
  \/ u \in participants[c]
  \/ \E q \in Seating(c) : requests[q].at = "filling" => u \in requests[q].students
  \/ Failures /\ Creator \notin participants[c] /\ Seating(c) = {}

Overtaken(r) ==
  /\ requests[r].at = "creating"
  /\ conversation[requests[r].class] = "open"
  /\ members[requests[r].row] # NoOne

SeatInv ==
  /\ TypeInv
  /\ \A c \in Classes : SeatedOnce(c)
  /\ \A r \in Requests : RowIsOwn(r)
  /\ \A r \in Requests : Overtaken(r) => Seated(requests[r].user, requests[r].class)

\* What a step does to the rows of joins.
RowsStep ==
  \A r \in Requests :
    /\ requests[r].row \in Rows =>
         members'[requests[r].row] \in {members[requests[r].row], NoOne}
    /\ requests'[r].at \in {"finding", "creating"} =>
         \/ /\ requests[r].at \in {"finding", "creating"}
            /\ requests'[r].row = requests[r].row
            /\ requests'[r].user = requests[r].user
            /\ requests'[r].class = requests[r].class
         \/ RowIsOwn(r)'

\* What a step does that neither makes a conversation nor goes on seating.
SeatsStep ==
  /\ \A q \in Requests :
       requests[q].at \in Seats \/ requests'[q].at \in Seats => requests'[q] = requests[q]
  /\ \A r \in Requests :
       \/ requests'[r].at # "creating"
       \/ requests'[r] = requests[r]
       \/ requests'[r].class \in Classes /\ conversation'[requests'[r].class] # "open"
  /\ \A c \in Classes :
       /\ conversation[c] # "open" => conversation'[c] = conversation[c]
       /\ conversation'[c] = "open" => conversation[c] = "open"
       /\ conversation'[c] = "missing" => conversation[c] = "missing"
       /\ participants[c] \subseteq participants'[c]
       /\ Creator \in participants'[c] => Creator \in participants[c]

LEMMA RowsKept ==
  ASSUME TypeInv, NEW r \in Requests, requests[r].row \in Rows, [Next]_vars
  PROVE  members'[requests[r].row] \in {members[requests[r].row], NoOne}
<1> DEFINE m == requests[r].row
<1>1. ASSUME NEW S, NEW c, NEW active, NEW id \in NewIds(S), members' = Inserted(id, c, active)
      PROVE  members'[m] = members[m]
  <2>1. \A u \in DOMAIN id : id[u] # m
    BY DEF NewIds, NewRows
  <2> QED BY <1>1, <2>1 DEF Inserted
<1>2. ASSUME NEW p \in Requests, Resume(p)
      PROVE  members'[m] \in {members[m], NoOne}
  <2>1. CASE AddRows(p) \/ CommitGrant(p)
    BY <1>1, <2>1 DEF AddRows, CommitGrant
  <2>2. CASE DeleteRow(p)
    BY <2>2 DEF DeleteRow, TypeInv, TypeOK
  <2>3. CASE ~(AddRows(p) \/ CommitGrant(p) \/ DeleteRow(p))
    BY <1>2, <2>3 DEF Resume, FindMember, ReadPurchases, FindConversation,
       EnterConversation, CreateConversation, ConversationExists, ListParticipants,
       FillConversation
  <2> QED BY <2>1, <2>2, <2>3
<1>3. ASSUME NEW p \in Requests, Receive(p)
      PROVE  members' = members
  BY <1>3 DEF Receive, AddStudents, LeaveClass, RemoveStudent, FindRow, JoinClass, Checkout,
     StripeWebhook, VerifyEnrollment
<1>4. ASSUME NEW c \in Classes, NEW S \in SUBSET Users, BulkRemoveStudents(S, c)
      PROVE  members'[m] \in {members[m], NoOne}
  BY <1>4 DEF BulkRemoveStudents
<1> QED BY <1>2, <1>3, <1>4 DEF Next, Fail, Pay, DeleteConversation, vars

\* A handler that starts is neither finding, creating nor seating.
LEMMA ReceiveStarts ==
  ASSUME TypeInv, NEW r \in Requests, Receive(r)
  PROVE  /\ \A q \in Requests : q # r => requests'[q] = requests[q]
         /\ \/ requests' = requests
            \/ /\ requests[r] = Idle
               /\ requests'[r].at \in {"adding", "leaving", "reading", "enrolling"}
         /\ UNCHANGED chatVars
<1>0. DOMAIN requests = Requests
  BY DEF TypeInv, TypeOK
<1> PICK c \in Classes :
      \/ \E S \in SUBSET Users, active \in BOOLEAN : AddStudents(r, S, c, active)
      \/ \E u \in Users :
           \/ LeaveClass(r, u, c) \/ RemoveStudent(r, u, c)
           \/ JoinClass(r, u, c) \/ Checkout(r, u, c)
           \/ StripeWebhook(r, u, c) \/ VerifyEnrollment(r, u, c)
  BY DEF Receive
<1> DEFINE Done == /\ \A p \in Requests : p # r => requests'[p] = requests[p]
                   /\ \/ requests' = requests
                      \/ /\ requests[r] = Idle
                         /\ requests'[r].at \in {"adding", "leaving", "reading", "enrolling"}
                   /\ UNCHANGED chatVars
<1>1. ASSUME NEW q, Start(r, q), UNCHANGED chatVars,
             q.at \in {"adding", "leaving", "reading", "enrolling"}
      PROVE  Done
  BY <1>0, <1>1 DEF Start
<1>2. ASSUME NEW S \in SUBSET Users, NEW active \in BOOLEAN, AddStudents(r, S, c, active)
      PROVE  Done
  <2> DEFINE new == {u \in S : ~IsMember(u, c)}
             q == [Idle EXCEPT !.at = "adding", !.class = c, !.active = active,
                               !.students = new]
  <2>1. Start(r, q) /\ UNCHANGED chatVars
    BY <1>2 DEF AddStudents
  <2> HIDE DEF new
  <2>2. q.at = "adding"
    BY DEF Idle
  <2> HIDE DEF q
  <2> QED BY <1>1, <2>1, <2>2
<1>3. ASSUME NEW u \in Users, JoinClass(r, u, c)
      PROVE  Done
  <2> DEFINE q == [Idle EXCEPT !.at = "reading", !.join = TRUE, !.user = u, !.class = c,
                               !.students = {u}]
  <2>1. q.at = "reading"
    BY DEF Idle
  <2>2. Start(r, q) /\ UNCHANGED chatVars
    BY <1>3 DEF JoinClass
  <2> HIDE DEF q
  <2> QED BY <1>1, <2>1, <2>2
<1>4. ASSUME NEW u \in Users, FindRow(r, u, c)
      PROVE  Done
  <2>1. PICK m : Start(r, [Idle EXCEPT !.at = "leaving", !.row = m]) /\ UNCHANGED chatVars
    BY <1>4 DEF FindRow
  <2>2. [Idle EXCEPT !.at = "leaving", !.row = m].at = "leaving"
    BY DEF Idle
  <2> QED BY <1>1, <2>1, <2>2
<1>5. ASSUME NEW u \in Users,
             Checkout(r, u, c) \/ StripeWebhook(r, u, c) \/ VerifyEnrollment(r, u, c)
      PROVE  Done
  <2> DEFINE q == [Idle EXCEPT !.at = "enrolling", !.user = u, !.class = c]
  <2>1. q.at = "enrolling"
    BY DEF Idle
  <2>2. (Start(r, q) \/ requests' = requests) /\ UNCHANGED chatVars
    BY <1>5 DEF Checkout, StripeWebhook, VerifyEnrollment
  <2> HIDE DEF q
  <2> QED BY <1>1, <2>1, <2>2
<1> QED BY <1>2, <1>3, <1>4, <1>5 DEF LeaveClass, RemoveStudent

\* The row a join gets is the one it made.
LEMMA GrantedRowIsOwn ==
  ASSUME TypeInv, NEW r \in Requests, CommitGrant(r), requests[r].join
  PROVE  RowIsOwn(r)'
<1> DEFINE p == requests[r]
<1>0. p \in Request /\ RequestOK(p) /\ p.at = "committing"
  BY DEF TypeInv, TypeOK, CommitGrant, At
<1>1. p.students = {p.user}
  BY <1>0 DEF RequestOK, Inserting
<1>2. PICK id \in NewIds(p.students) :
        /\ members' = Inserted(id, p.class, TRUE)
        /\ requests' = [requests EXCEPT ![r].at = "finding", ![r].owned = {},
                                        ![r].row = id[p.user]]
  BY DEF CommitGrant
<1>3. requests'[r].row = id[p.user] /\ requests'[r].user = p.user /\ requests'[r].class = p.class
  BY <1>0, <1>2 DEF Request, TypeInv, TypeOK
<1>4. id[p.user] \in Rows /\ DOMAIN id = {p.user}
  BY <1>1 DEF NewIds, NewRows
<1>5. members'[id[p.user]] = [class |-> p.class, active |-> TRUE, student |-> p.user]
  <2>1. (CHOOSE u \in DOMAIN id : id[u] = id[p.user]) = p.user
    BY <1>4
  <2> QED BY <1>2, <1>4, <2>1 DEF Inserted
<1> QED BY <1>3, <1>4, <1>5 DEF RowIsOwn

LEMMA RowsStepHolds ==
  ASSUME TypeInv, [Next]_vars
  PROVE  RowsStep
<1> SUFFICES ASSUME NEW r \in Requests, requests'[r].at \in {"finding", "creating"}
             PROVE  \/ /\ requests[r].at \in {"finding", "creating"}
                       /\ requests'[r].row = requests[r].row
                       /\ requests'[r].user = requests[r].user
                       /\ requests'[r].class = requests[r].class
                    \/ RowIsOwn(r)'
  BY RowsKept DEF RowsStep
<1>0. requests[r] \in Request /\ DOMAIN requests = Requests /\ Idle.at = "idle"
  BY DEF TypeInv, TypeOK, Idle
<1>1. CASE requests'[r] = requests[r]
  BY <1>1
<1>2. ASSUME NEW p \in Requests, Receive(p)
      PROVE  requests'[r] = requests[r]
  BY <1>2, ReceiveStarts
<1>3. ASSUME NEW p \in Requests, Resume(p) \/ Fail(p), p # r
      PROVE  requests'[r] = requests[r]
  BY <1>0, <1>3 DEF Resume, AddRows, DeleteRow, FindMember, ReadPurchases, CommitGrant,
     FindConversation, EnterConversation, CreateConversation, ConversationExists,
     ListParticipants, FillConversation, Fail, Finish, GoTo
<1>4. CASE CommitGrant(r)
  <2>1. CASE requests[r].join
    BY <1>4, <2>1, GrantedRowIsOwn
  <2>2. CASE ~requests[r].join
    BY <1>0, <1>4, <2>2 DEF CommitGrant, Finish
  <2> QED BY <2>1, <2>2
<1>5. CASE FindConversation(r)
  BY <1>0, <1>5 DEF FindConversation, GoTo, At, Request
<1>6. ASSUME \/ AddRows(r) \/ DeleteRow(r) \/ EnterConversation(r) \/ ConversationExists(r)
             \/ FillConversation(r) \/ Fail(r)
      PROVE  FALSE
  BY <1>0, <1>6 DEF AddRows, DeleteRow, EnterConversation, ConversationExists,
     FillConversation, Fail, Finish
<1>7. ASSUME FindMember(r) \/ ReadPurchases(r) \/ CreateConversation(r) \/ ListParticipants(r)
      PROVE  FALSE
  BY <1>0, <1>7 DEF FindMember, ReadPurchases, CreateConversation, ListParticipants, GoTo,
     Request
<1>8. ASSUME NEW p \in Requests, Resume(p) \/ Fail(p), p = r
      PROVE  CommitGrant(r) \/ FindConversation(r)
  BY <1>6, <1>7, <1>8 DEF Resume
<1>9. ASSUME requests' # requests
      PROVE  \E p \in Requests : Receive(p) \/ Resume(p) \/ Fail(p)
  BY <1>9 DEF Next, Pay, BulkRemoveStudents, DeleteConversation, vars
<1> QED BY <1>1, <1>2, <1>3, <1>4, <1>5, <1>8, <1>9

\* The steps that make a conversation, or go on seating.
SeatingStep(r) ==
  \/ CreateConversation(r) \/ ListParticipants(r) \/ FillConversation(r)
  \/ Fail(r) /\ requests[r].at \in Seats

LEMMA SeatsStepHolds ==
  ASSUME TypeInv, [Next]_vars, \A r \in Requests : ~SeatingStep(r)
  PROVE  SeatsStep
<1>0. /\ DOMAIN requests = Requests /\ Idle.at = "idle" /\ Creator \notin Users
      /\ participants \in [Classes -> SUBSET (Users \cup {Creator})]
      /\ \A p \in Requests : requests[p] \in Request /\ RequestOK(requests[p])
  BY EnrollmentAssumption DEF TypeInv, TypeOK, Idle
<1>1. CASE UNCHANGED <<requests, chatVars>>
  BY <1>1 DEF SeatsStep, chatVars
<1>2. ASSUME NEW p \in Requests, UNCHANGED chatVars,
             \A q \in Requests : q # p => requests'[q] = requests[q],
             requests[p].at \notin Seats, requests'[p].at \notin Seats \cup {"creating"}
      PROVE  SeatsStep
  BY <1>2 DEF SeatsStep, chatVars
<1>3. ASSUME NEW p \in Requests, Receive(p)
      PROVE  SeatsStep
  BY <1>0, <1>1, <1>2, <1>3, ReceiveStarts DEF Seats
<1>4. ASSUME NEW p \in Requests,
             AddRows(p) \/ DeleteRow(p) \/ ConversationExists(p) \/ Fail(p)
      PROVE  SeatsStep
  <2>1. /\ UNCHANGED chatVars /\ requests'[p].at = "idle"
        /\ \A q \in Requests : q # p => requests'[q] = requests[q]
    BY <1>0, <1>4 DEF AddRows, DeleteRow, ConversationExists, Fail, Finish, chatVars
  <2>2. requests[p].at \notin Seats
    BY <1>4 DEF AddRows, DeleteRow, ConversationExists, At, Seats, SeatingStep
  <2> QED BY <1>2, <2>1, <2>2 DEF Seats
<1>5. ASSUME NEW p \in Requests, FindMember(p) \/ ReadPurchases(p) \/ CommitGrant(p)
      PROVE  SeatsStep
  <2>1. requests'[p].at \in {"idle", "reading", "committing", "finding"}
    <3>1. CASE FindMember(p) \/ ReadPurchases(p)
      BY <1>0, <3>1 DEF FindMember, ReadPurchases, Request
    <3>2. CASE CommitGrant(p) /\ Finish(p)
      BY <1>0, <3>2 DEF Finish
    <3>3. CASE \E m : requests' = [requests EXCEPT ![p].at = "finding", ![p].owned = {},
                                                   ![p].row = m]
      BY <1>0, <3>3 DEF Request
    <3> QED BY <1>5, <3>1, <3>2, <3>3 DEF CommitGrant
  <2>2. /\ UNCHANGED chatVars /\ \A q \in Requests : q # p => requests'[q] = requests[q]
    BY <1>0, <1>5 DEF FindMember, ReadPurchases, CommitGrant, Finish, chatVars
  <2>3. requests[p].at \notin Seats
    BY <1>5 DEF FindMember, ReadPurchases, CommitGrant, At, Seats
  <2> QED BY <1>2, <2>1, <2>2, <2>3 DEF Seats
<1>6. ASSUME NEW p \in Requests, FindConversation(p)
      PROVE  SeatsStep
  <2>1. /\ UNCHANGED chatVars /\ \A q \in Requests : q # p => requests'[q] = requests[q]
        /\ requests[p].at = "finding" /\ requests'[p].class = requests[p].class
        /\ \/ requests'[p].at = "entering"
           \/ requests'[p].at = "creating" /\ conversation[requests[p].class] # "open"
    BY <1>0, <1>6 DEF FindConversation, GoTo, At, Request
  <2>2. requests[p].class \in Classes
    BY <1>0, <2>1 DEF RequestOK
  <2> QED BY <2>1, <2>2 DEF SeatsStep, Seats, chatVars
<1>7. ASSUME NEW p \in Requests, EnterConversation(p)
      PROVE  SeatsStep
  <2> DEFINE c == requests[p].class
  <2>1. /\ conversation' = conversation /\ requests[p].at = "entering"
        /\ participants' = [participants EXCEPT ![c] = @ \cup {requests[p].user}]
        /\ requests' = [requests EXCEPT ![p] = Idle]
    BY <1>7 DEF EnterConversation, At, Finish
  <2>2. requests[p].user \in Users
    BY <1>0, <2>1 DEF RequestOK
  <2> QED BY <1>0, <2>1, <2>2 DEF SeatsStep, Seats
<1>8. ASSUME NEW d \in Classes, DeleteConversation(d)
      PROVE  SeatsStep
  BY <1>8 DEF DeleteConversation, SeatsStep, TypeInv, TypeOK
<1>9. ASSUME NEW p \in Requests, Resume(p)
      PROVE  SeatsStep
  BY <1>4, <1>5, <1>6, <1>7, <1>9 DEF Resume, SeatingStep
<1>10. ASSUME ~\E p \in Requests : Receive(p) \/ Resume(p) \/ Fail(p)
       PROVE  SeatsStep
  BY <1>1, <1>8, <1>10 DEF Next, Pay, BulkRemoveStudents, vars, chatVars
<1> QED BY <1>3, <1>4, <1>9, <1>10

\* A join that is overtaken after a step was so before, or its conversation is new.
LEMMA OvertakenBefore ==
  ASSUME SeatInv, TypeInv', RowsStep, NEW r \in Requests, Overtaken(r)',
         \/ requests'[r] = requests[r]
         \/ requests'[r].class \in Classes /\ conversation'[requests'[r].class] # "open"
  PROVE  /\ requests'[r] = requests[r]
         /\ requests[r].at = "creating"
         /\ requests[r].user \in Users /\ requests[r].class \in Classes
         /\ members[requests[r].row] =
              [class |-> requests[r].class, student |-> requests[r].user, active |-> TRUE]
         /\ requests[r].row \in Rows
         /\ members[requests[r].row] # NoOne
<1>1. requests'[r] = requests[r] /\ requests[r].at = "creating"
  BY DEF Overtaken
<1>2. RowIsOwn(r) /\ requests[r].row \in Rows
  BY <1>1 DEF SeatInv, RowIsOwn
<1>3. members[requests[r].row] # NoOne
  BY <1>1, <1>2 DEF RowsStep, Overtaken
<1> QED BY <1>1, <1>2, <1>3 DEF SeatInv, TypeInv, TypeOK, RequestOK, Inserting, RowIsOwn

LEMMA RowsOwnStep ==
  ASSUME SeatInv, RowsStep, NEW r \in Requests
  PROVE  RowIsOwn(r)'
<1>1. RowIsOwn(r)
  BY DEF SeatInv
<1> QED BY <1>1 DEF RowsStep, RowIsOwn

\* The steps that leave the seating alone.
LEMMA SeatInvQuiet ==
  ASSUME SeatInv, TypeInv', RowsStep, SeatsStep
  PROVE  SeatInv'
<1>1. \A c : Seating(c)' = Seating(c)
  BY DEF Seating, SeatsStep
<1>2. ASSUME NEW c \in Classes
      PROVE  SeatedOnce(c)'
  <2>1. SeatedOnce(c)
    BY DEF SeatInv
  <2> QED BY <1>1, <2>1 DEF SeatedOnce, SeatsStep
<1>3. ASSUME NEW r \in Requests, Overtaken(r)'
      PROVE  Seated(requests[r].user, requests[r].class)'
  <2>1. /\ requests'[r] = requests[r] /\ requests[r].at = "creating"
        /\ requests[r].class \in Classes /\ members[requests[r].row] # NoOne
    BY <1>3, OvertakenBefore DEF SeatsStep, Overtaken
  <2>2. conversation[requests[r].class] = "open"
    BY <1>3, <2>1 DEF SeatsStep, Overtaken
  <2>3. Seated(requests[r].user, requests[r].class)
    BY <2>1, <2>2 DEF SeatInv, Overtaken
  <2>4. \A q \in Seating(requests[r].class) : requests'[q] = requests[q]
    BY DEF SeatsStep, Seating
  <2> QED BY <1>1, <2>1, <2>3, <2>4 DEF Seated, SeatsStep
<1> QED BY <1>2, <1>3, RowsOwnStep DEF SeatInv

\* Making the conversation, listing its members, seating them and failing to.
LEMMA SeatInvSeating ==
  ASSUME SeatInv, TypeInv', RowsStep, NEW p \in Requests, SeatingStep(p)
  PROVE  SeatInv'
<1>d. PICK d : d = requests[p].class
  OBVIOUS
<1>0. /\ requests[p] \in Request /\ RequestOK(requests[p]) /\ DOMAIN requests = Requests
      /\ Idle.at = "idle" /\ \A c \in Classes : SeatedOnce(c)
      /\ DOMAIN participants = Classes /\ DOMAIN conversation = Classes
  BY DEF SeatInv, TypeInv, TypeOK, Idle
<1>1. requests[p].at \in Seats \cup {"creating"} /\ d \in Classes
  <2>1. requests[p].at \in Seats \cup {"creating"}
    BY DEF SeatingStep, CreateConversation, ListParticipants, FillConversation, At, Seats
  <2> QED BY <1>d, <1>0, <2>1 DEF RequestOK, Seats
<1>2. \A q \in Requests : q # p => requests'[q] = requests[q]
  BY <1>d, <1>0 DEF SeatingStep, CreateConversation, ListParticipants, FillConversation, Fail,
     Finish, GoTo
<1>3. \A c \in Classes : c # d => conversation'[c] = conversation[c] /\ participants'[c] = participants[c]
  BY <1>d, <1>0 DEF SeatingStep, CreateConversation, ListParticipants, FillConversation, Fail, chatVars
<1>4. \/ requests'[p].at \in Seats /\ requests'[p].class = d
      \/ requests'[p] = Idle
  BY <1>d, <1>0 DEF SeatingStep, CreateConversation, ListParticipants, FillConversation, Fail,
     Finish, GoTo, Request, Seats
<1>5. ASSUME NEW c \in Classes, c # d
      PROVE  Seating(c)' = Seating(c) /\ p \notin Seating(c)
  BY <1>d, <1>0, <1>2, <1>4, <1>5 DEF Seating, Seats
\* Only the class of the handler that moves is touched.
<1>6. ASSUME SeatedOnce(d)',
             \A r \in Requests : requests[r].class = d /\ r # p /\ Overtaken(r)'
               => Seated(requests[r].user, d)'
      PROVE  SeatInv'
  <2>1. ASSUME NEW c \in Classes
        PROVE  SeatedOnce(c)'
    <3>1. CASE c = d
      BY <1>6, <3>1
    <3>2. CASE c # d
      BY <1>0, <1>3, <1>5, <3>2 DEF SeatedOnce
    <3> QED BY <3>1, <3>2
  <2>2. ASSUME NEW r \in Requests, Overtaken(r)'
        PROVE  Seated(requests[r].user, requests[r].class)'
    <3>1. r # p
      BY <1>d, <1>0, <1>4, <2>2 DEF Overtaken, Seats
    <3>2. requests'[r] = requests[r]
      BY <1>2, <3>1
    <3>3. CASE requests[r].class = d
      BY <1>6, <2>2, <3>1, <3>2, <3>3 DEF Seated
    <3>4. CASE requests[r].class # d
      <4>0. PICK c : c = requests[r].class
        OBVIOUS
      <4>1. c \in Classes /\ requests[r].at = "creating" /\ members[requests[r].row] # NoOne
        BY <2>2, <3>2, <4>0, OvertakenBefore
      <4>2. Overtaken(r)
        BY <1>3, <2>2, <3>2, <3>4, <4>0, <4>1 DEF Overtaken
      <4>3. Seated(requests[r].user, c)
        BY <4>0, <4>2 DEF SeatInv
      <4>4. Seating(c)' = Seating(c) /\ \A q \in Seating(c) : requests'[q] = requests[q]
        BY <1>2, <1>5, <3>4, <4>0, <4>1 DEF Seating
      <4> QED BY <1>3, <3>2, <3>4, <4>0, <4>1, <4>3, <4>4 DEF Seated
    <3> QED BY <3>3, <3>4
  <2> QED BY <2>1, <2>2, RowsOwnStep DEF SeatInv
\* Only the handler that moves is seating for its class.
<1>7. ASSUME requests[p].at \in Seats
      PROVE  Seating(d) = {p} /\ Creator \notin participants[d] /\ conversation[d] # "missing"
  BY <1>d, <1>0, <1>1, <1>7 DEF Seating, SeatedOnce
<1>8. ASSUME NEW r \in Requests, requests[r].class = d, r # p, Overtaken(r)',
             conversation[d] = "open"
      PROVE  Seated(requests[r].user, d)
  <2>1. Overtaken(r)
    BY <1>2, <1>8, OvertakenBefore DEF Overtaken
  <2> QED BY <1>8, <2>1 DEF SeatInv
<1>9. CASE CreateConversation(p)
  <2>1. /\ conversation[d] = "missing" /\ conversation'[d] = "open" /\ participants' = participants
        /\ requests'[p].at = "listing" /\ requests'[p].class = d
    BY <1>d, <1>0, <1>1, <1>9 DEF CreateConversation, GoTo, Request
  <2>2. Seating(d)' = {p} /\ Creator \notin participants[d]
    BY <1>d, <1>0, <1>1, <1>2, <2>1 DEF Seating, SeatedOnce, Seats
  <2>3. SeatedOnce(d)'
    BY <2>1, <2>2 DEF SeatedOnce
  <2> QED BY <1>6, <2>1, <2>2, <2>3 DEF Seated
<1>10. CASE ListParticipants(p)
  <2>1. /\ UNCHANGED chatVars /\ requests[p].at = "listing" /\ members' = members
        /\ requests'[p].at = "filling" /\ requests'[p].class = d
        /\ requests'[p].students = {Creator} \cup
             {u \in Users : \E m \in RowsOf(u, d) : members[m].active}
    BY <1>d, <1>0, <1>10 DEF ListParticipants, Request, At
  <2>2. Seating(d)' = {p} /\ Seating(d) = {p} /\ Creator \notin participants[d]
        /\ conversation[d] # "missing"
    BY <1>2, <1>7, <2>1 DEF Seating, Seats
  <2>3. SeatedOnce(d)'
    BY <2>1, <2>2 DEF SeatedOnce, chatVars
  <2>4. ASSUME NEW r \in Requests, requests[r].class = d, r # p, Overtaken(r)'
        PROVE  requests[r].user \in requests'[p].students
    <3>1. /\ members[requests[r].row] =
               [class |-> d, student |-> requests[r].user, active |-> TRUE]
          /\ requests[r].row \in Rows /\ requests[r].user \in Users
          /\ members[requests[r].row] # NoOne
      BY <1>2, <2>4, OvertakenBefore
    <3>2. requests[r].row \in RowsOf(requests[r].user, d) /\ members[requests[r].row].active
      BY <3>1 DEF RowsOf
    <3> QED BY <2>1, <3>1, <3>2
  <2>5. \A r \in Requests : r # p => requests'[r].user = requests[r].user
    BY <1>2
  <2> QED BY <1>6, <2>2, <2>3, <2>4, <2>5 DEF Seated
<1>11. CASE FillConversation(p)
  <2>1. /\ requests[p].at = "filling" /\ conversation' = conversation
        /\ participants'[d] = participants[d] \cup requests[p].students
        /\ requests'[p] = Idle
    BY <1>d, <1>0, <1>1, <1>11 DEF FillConversation, At, Finish
  <2>2. Seating(d)' = {} /\ Seating(d) = {p} /\ Creator \notin participants[d]
        /\ conversation[d] # "missing"
    BY <1>d, <1>0, <1>2, <1>7, <2>1 DEF Seating, Seats
  <2>3. SeatedOnce(d)'
    BY <2>1, <2>2 DEF SeatedOnce
  <2>4. ASSUME NEW r \in Requests, requests[r].class = d, r # p, Overtaken(r)'
        PROVE  requests[r].user \in participants'[d]
    <3>1. conversation[d] = "open"
      BY <1>2, <2>1, <2>4 DEF Overtaken
    <3>2. Seated(requests[r].user, d)
      BY <1>8, <2>4, <3>1
    <3> QED BY <2>1, <2>2, <3>2 DEF Seated
  <2>5. \A r \in Requests : r # p => requests'[r].user = requests[r].user
    BY <1>2
  <2> QED BY <1>6, <2>3, <2>4, <2>5 DEF Seated
<1>12. CASE Fail(p) /\ requests[p].at \in Seats
  <2>1. UNCHANGED chatVars /\ requests'[p] = Idle /\ Failures
    BY <1>d, <1>0, <1>12 DEF Fail, Finish, chatVars
  <2>2. Seating(d)' = {} /\ Creator \notin participants[d] /\ conversation[d] # "missing"
    BY <1>d, <1>0, <1>2, <1>7, <1>12, <2>1 DEF Seating, Seats
  <2>3. SeatedOnce(d)'
    BY <2>1, <2>2 DEF SeatedOnce, chatVars
  <2> QED BY <1>6, <2>1, <2>2, <2>3 DEF Seated, chatVars
<1> QED BY <1>9, <1>10, <1>11, <1>12 DEF SeatingStep

LEMMA SeatInvInit == Init => SeatInv
<1> SUFFICES ASSUME Init PROVE SeatInv
  OBVIOUS
<1>1. \A r \in Requests : requests[r].at = "idle"
  BY DEF Init, Idle
<1>2. \A c \in Classes : SeatedOnce(c)
  BY <1>1 DEF Init, SeatedOnce, Seating, Seats
<1> QED BY <1>1, <1>2, TypeInit DEF SeatInv, RowIsOwn, Overtaken

LEMMA SeatInvStep == SeatInv /\ [Next]_vars => SeatInv'
<1> SUFFICES ASSUME SeatInv, [Next]_vars PROVE SeatInv'
  OBVIOUS
<1>1. TypeInv /\ TypeInv' /\ RowsStep
  BY TypeStep, RowsStepHolds DEF SeatInv
<1>2. CASE \E r \in Requests : SeatingStep(r)
  BY <1>1, <1>2, SeatInvSeating
<1>3. CASE ~\E r \in Requests : SeatingStep(r)
  BY <1>1, <1>3, SeatsStepHolds, SeatInvQuiet
<1> QED BY <1>2, <1>3

\* Whoever is overtaken at creating the class's conversation is seated in it by
\* the join that was faster.
THEOREM OvertakenJoinsAreSeated == Spec => []OvertakenJoinIsSeated
<1>1. SeatInv => OvertakenJoinIsSeated
  BY DEF SeatInv, OvertakenJoinIsSeated, Overtaken, Seated, Seating, Seats, At
<1> QED BY <1>1, SeatInvInit, SeatInvStep, PTL DEF Spec

-----------------------------------------------------------------------------
(* Rights                                                                  *)

MayEnter(u, c) == Earned(u, c) \/ c \in Managed

\* Whoever a handler works for has the right it will use; so do those it is to give a
\* row or a seat, and those whose list of purchases it has read own what is on it.
RequestEarned(q) ==
  /\ q.at \notin {"idle", "adding", "leaving"} => Earned(q.user, q.class)
  /\ q.at = "adding" => q.class \in Managed
  /\ q.at \in {"reading", "committing"} => q.students \subseteq {q.user}
  /\ q.at = "committing" => \A c \in q.owned : Earned(q.user, c)
  /\ q.at = "filling" => \A u \in q.students \cap Users : MayEnter(u, q.class)

EarnedInv ==
  /\ TypeInv
  /\ AccessIsEarned
  /\ \A r \in Requests : RequestEarned(requests[r])

\* No payment is taken back, so no right is.
LEMMA RightsStay ==
  ASSUME TypeInv, [Next]_vars, NEW u \in Users, NEW c \in Classes, Earned(u, c)
  PROVE  Earned(u, c)'
<1>1. checkouts[u][c] = "paid" => checkouts'[u][c] = "paid"
  <2>1. ASSUME NEW r \in Requests, Receive(r), checkouts[u][c] = "paid"
        PROVE  checkouts'[u][c] = "paid"
    <3>1. ASSUME NEW v \in Users, NEW d \in Classes, Checkout(r, v, d)
          PROVE  checkouts'[u][c] = "paid"
      BY <2>1, <3>1 DEF Checkout, TypeInv, TypeOK
    <3> QED BY <2>1, <3>1 DEF Receive, AddStudents, LeaveClass, RemoveStudent, FindRow,
         JoinClass, StripeWebhook, VerifyEnrollment
  <2>2. ASSUME NEW r \in Requests, Resume(r) PROVE checkouts' = checkouts
    BY <2>2 DEF Resume, AddRows, DeleteRow, FindMember, ReadPurchases, CommitGrant,
       FindConversation, EnterConversation, CreateConversation, ConversationExists,
       ListParticipants, FillConversation
  <2>3. ASSUME NEW v \in Users, NEW d \in Classes, Pay(v, d), checkouts[u][c] = "paid"
        PROVE  checkouts'[u][c] = "paid"
    BY <2>3 DEF Pay, TypeInv, TypeOK
  <2> QED BY <2>1, <2>2, <2>3 DEF Next, Fail, BulkRemoveStudents, DeleteConversation, vars
<1> QED BY <1>1 DEF Earned

\* What a handler stands on stays, and so does what others have.
LEMMA RequestStaysEarned ==
  ASSUME TypeInv, [Next]_vars, NEW q \in Request, RequestOK(q), RequestEarned(q)
  PROVE  RequestEarned(q)'
<1>1. q.at \notin {"idle", "adding", "leaving"} => q.class \in Classes /\ q.user \in Users
  BY DEF RequestOK
<1>2. q.owned \subseteq Classes
  BY DEF Request
<1> QED BY <1>1, <1>2, RightsStay DEF RequestEarned, MayEnter

\* A handler that starts has checked the right it will use.
LEMMA ReceiveEarned ==
  ASSUME EarnedInv, NEW r \in Requests, Receive(r)
  PROVE  requests' = requests \/ RequestEarned(requests'[r])
<1>0. DOMAIN requests = Requests
  BY DEF EarnedInv, TypeInv, TypeOK
<1> PICK c \in Classes :
      \/ \E S \in SUBSET Users, active \in BOOLEAN : AddStudents(r, S, c, active)
      \/ \E u \in Users :
           \/ LeaveClass(r, u, c) \/ RemoveStudent(r, u, c)
           \/ JoinClass(r, u, c) \/ Checkout(r, u, c)
           \/ StripeWebhook(r, u, c) \/ VerifyEnrollment(r, u, c)
  BY DEF Receive
<1>1. ASSUME NEW S \in SUBSET Users, NEW active \in BOOLEAN, AddStudents(r, S, c, active)
      PROVE  RequestEarned(requests'[r])
  <2> DEFINE new == {u \in S : ~IsMember(u, c)}
             q == [Idle EXCEPT !.at = "adding", !.class = c, !.active = active,
                               !.students = new]
  <2>1. requests' = [requests EXCEPT ![r] = q] /\ c \in Managed
    BY <1>1 DEF AddStudents, Start
  <2>2. q.at = "adding" /\ q.class = c
    <3> HIDE DEF new
    <3> QED BY DEF Idle
  <2> HIDE DEF q
  <2> QED BY <1>0, <2>1, <2>2 DEF RequestEarned
<1>2. ASSUME NEW u \in Users, JoinClass(r, u, c) PROVE RequestEarned(requests'[r])
  BY <1>0, <1>2 DEF JoinClass, Start, Idle, RequestEarned, Earned
<1>3. ASSUME NEW u \in Users, FindRow(r, u, c) PROVE RequestEarned(requests'[r])
  BY <1>0, <1>3 DEF FindRow, Start, Idle, RequestEarned
<1>4. ASSUME NEW u \in Users,
             Checkout(r, u, c) \/ StripeWebhook(r, u, c) \/ VerifyEnrollment(r, u, c)
      PROVE  requests' = requests \/ RequestEarned(requests'[r])
  <2>1. CASE Start(r, [Idle EXCEPT !.at = "enrolling", !.user = u, !.class = c]) /\ Earned(u, c)
    BY <1>0, <2>1 DEF Start, Idle, RequestEarned
  <2> QED BY <1>4, <2>1 DEF Checkout, StripeWebhook, VerifyEnrollment, Earned
<1> QED BY <1>1, <1>2, <1>3, <1>4 DEF LeaveClass, RemoveStudent

\* New rows are of the students they are made for.
LEMMA RowsAreMadeFor ==
  ASSUME TypeInv, NEW S \in SUBSET Users, NEW id \in NewIds(S), NEW d, NEW active,
         members' = Inserted(id, d, active),
         NEW u \in Users, NEW c \in Classes, IsMember(u, c)'
  PROVE  IsMember(u, c) \/ (c = d /\ u \in S)
<1>1. PICK m \in Rows : members'[m] # NoOne /\ members'[m].student = u /\ members'[m].class = c
  BY DEF IsMember, RowsOf
<1>2. DOMAIN id = S
  BY DEF NewIds
<1>3. CASE \E v \in DOMAIN id : id[v] = m
  <2> DEFINE w == CHOOSE v \in DOMAIN id : id[v] = m
  <2>1. w \in S
    BY <1>2, <1>3
  <2>2. members'[m] = [class |-> d, active |-> active, student |-> w]
    BY <1>3 DEF Inserted
  <2> HIDE DEF w
  <2> QED BY <1>1, <2>1, <2>2
<1>4. CASE ~\E v \in DOMAIN id : id[v] = m
  <2>1. members'[m] = members[m]
    BY <1>4 DEF Inserted
  <2> QED BY <1>1, <2>1 DEF IsMember, RowsOf
<1> QED BY <1>3, <1>4

\* Who comes to have a row has a right to it.
LEMMA MembersFrom ==
  ASSUME EarnedInv, [Next]_vars, NEW u \in Users, NEW c \in Classes, IsMember(u, c)'
  PROVE  IsMember(u, c) \/ MayEnter(u, c)
<1>0. members \in [Rows -> Null(Member)]
  BY DEF EarnedInv, TypeInv, TypeOK
<1>1. ASSUME NEW r \in Requests, AddRows(r)
      PROVE  IsMember(u, c) \/ MayEnter(u, c)
  <2>1. /\ requests[r].class \in Managed /\ requests[r].students \subseteq Users
    BY <1>1 DEF AddRows, At, EarnedInv, RequestEarned, TypeInv, RequestOK, Inserting
  <2>2. PICK id \in NewIds(requests[r].students) :
          members' = Inserted(id, requests[r].class, requests[r].active)
    BY <1>1 DEF AddRows
  <2> QED BY <2>1, <2>2, RowsAreMadeFor DEF MayEnter, EarnedInv
<1>2. ASSUME NEW r \in Requests, CommitGrant(r)
      PROVE  IsMember(u, c) \/ MayEnter(u, c)
  <2>1. /\ Earned(requests[r].user, requests[r].class)
        /\ requests[r].students \subseteq Users
        /\ requests[r].students \subseteq {requests[r].user}
    BY <1>2 DEF CommitGrant, At, EarnedInv, RequestEarned, TypeInv, RequestOK, Inserting
  <2>2. PICK id \in NewIds(requests[r].students), active \in BOOLEAN :
          members' = Inserted(id, requests[r].class, active)
    BY <1>2 DEF CommitGrant
  <2> QED BY <2>1, <2>2, RowsAreMadeFor DEF MayEnter, EarnedInv
<1>3. ASSUME \A m \in Rows : members'[m] \in {members[m], NoOne} PROVE IsMember(u, c)
  BY <1>3 DEF IsMember, RowsOf
<1>4. ASSUME NEW r \in Requests, Resume(r), ~AddRows(r), ~CommitGrant(r)
      PROVE  IsMember(u, c)
  <2>1. CASE DeleteRow(r)
    BY <1>0, <1>3, <2>1 DEF DeleteRow
  <2>2. CASE ~DeleteRow(r)
    BY <1>3, <1>4, <2>2 DEF Resume, FindMember, ReadPurchases, FindConversation,
       EnterConversation, CreateConversation, ConversationExists, ListParticipants,
       FillConversation
  <2> QED BY <2>1, <2>2
<1>5. ASSUME NEW r \in Requests, Receive(r) PROVE IsMember(u, c)
  <2>1. members' = members
    BY <1>5 DEF Receive, AddStudents, LeaveClass, RemoveStudent, FindRow, JoinClass, Checkout,
       StripeWebhook, VerifyEnrollment
  <2> QED BY <1>3, <2>1
<1>6. ASSUME NEW d \in Classes, NEW S \in SUBSET Users, BulkRemoveStudents(S, d)
      PROVE  IsMember(u, c)
  BY <1>3, <1>6 DEF BulkRemoveStudents
<1>7. CASE UNCHANGED members
  BY <1>3, <1>7
<1> QED BY <1>1, <1>2, <1>4, <1>5, <1>6, <1>7 DEF Next, Fail, Pay, DeleteConversation, vars

\* What is written to a list of purchases was earned.
LEMMA PurchasesFrom ==
  ASSUME EarnedInv, [Next]_vars, NEW u \in Users, NEW c \in Classes, c \in purchases'[u]
  PROVE  Earned(u, c)
<1>1. CASE purchases' = purchases
  BY <1>1 DEF EarnedInv, AccessIsEarned
<1>2. CASE purchases' # purchases
  <2>1. PICK r \in Requests : CommitGrant(r)
    BY <1>2, OnlyGrantWrites
  <2>2. /\ Earned(requests[r].user, requests[r].class)
        /\ \A d \in requests[r].owned : Earned(requests[r].user, d)
    BY <2>1 DEF CommitGrant, At, EarnedInv, RequestEarned
  <2>3. \/ c \in purchases[u]
        \/ u = requests[r].user /\ c \in requests[r].owned \cup {requests[r].class}
    BY <2>1 DEF CommitGrant, Grant, EarnedInv, TypeInv, TypeOK
  <2> QED BY <2>2, <2>3 DEF EarnedInv, AccessIsEarned
<1> QED BY <1>1, <1>2

\* Who comes to be seated has a right to it.
LEMMA SeatsFrom ==
  ASSUME EarnedInv, [Next]_vars, NEW u \in Users, NEW c \in Classes, u \in participants'[c]
  PROVE  u \in participants[c] \/ MayEnter(u, c)
<1>1. ASSUME NEW r \in Requests, EnterConversation(r)
      PROVE  u \in participants[c] \/ MayEnter(u, c)
  <2>1. Earned(requests[r].user, requests[r].class)
    BY <1>1 DEF EnterConversation, At, EarnedInv, RequestEarned
  <2> QED BY <1>1, <2>1 DEF EnterConversation, MayEnter, EarnedInv, TypeInv, TypeOK
<1>2. ASSUME NEW r \in Requests, FillConversation(r)
      PROVE  u \in participants[c] \/ MayEnter(u, c)
  <2>1. \A v \in requests[r].students \cap Users : MayEnter(v, requests[r].class)
    BY <1>2 DEF FillConversation, At, EarnedInv, RequestEarned
  <2> QED BY <1>2, <2>1 DEF FillConversation, EarnedInv, TypeInv, TypeOK
<1>3. ASSUME NEW r \in Requests, Resume(r), ~EnterConversation(r), ~FillConversation(r)
      PROVE  participants' = participants
  BY <1>3 DEF Resume, AddRows, DeleteRow, FindMember, ReadPurchases, CommitGrant,
     FindConversation, CreateConversation, ConversationExists, ListParticipants, chatVars
<1>4. ASSUME NEW r \in Requests, Receive(r) PROVE participants' = participants
  BY <1>4, ReceiveStarts DEF EarnedInv, chatVars
<1> QED BY <1>1, <1>2, <1>3, <1>4
    DEF Next, Fail, Pay, BulkRemoveStudents, DeleteConversation, vars, chatVars

\* A handler that goes on keeps the right it stands on, and one that lists the class lists
\* who may be there.
LEMMA ResumeEarned ==
  ASSUME EarnedInv, NEW r \in Requests, Resume(r)
  PROVE  RequestEarned(requests'[r])
<1> DEFINE p == requests[r]
<1>0. /\ requests \in [Requests -> Request] /\ p \in Request
      /\ RequestOK(p) /\ RequestEarned(p)
      /\ RequestEarned(Idle)
  BY DEF EarnedInv, TypeInv, TypeOK, RequestEarned, Idle
<1>1. ASSUME Finish(r) PROVE RequestEarned(requests'[r])
  BY <1>0, <1>1 DEF Finish
<1>2. CASE AddRows(r) \/ DeleteRow(r) \/ EnterConversation(r) \/ ConversationExists(r)
           \/ FillConversation(r)
  BY <1>1, <1>2 DEF AddRows, DeleteRow, EnterConversation, ConversationExists, FillConversation
<1>3. CASE FindMember(r)
  <2>1. /\ requests'[r].at = "reading" /\ requests'[r].user = p.user
        /\ requests'[r].class = p.class /\ requests'[r].students \subseteq {p.user}
    BY <1>0, <1>3 DEF FindMember, Request
  <2> QED BY <1>0, <1>3, <2>1 DEF RequestEarned, FindMember, At
<1>4. CASE ReadPurchases(r)
  <2>1. /\ requests'[r].at = "committing" /\ requests'[r].user = p.user
        /\ requests'[r].class = p.class /\ requests'[r].students = p.students
        /\ requests'[r].owned = purchases[p.user]
    BY <1>0, <1>4 DEF ReadPurchases, Request
  <2>2. p.user \in Users /\ purchases[p.user] \subseteq Classes
    BY <1>0, <1>4 DEF ReadPurchases, At, RequestOK, EarnedInv, TypeInv, TypeOK
  <2> QED BY <1>0, <1>4, <2>1, <2>2 DEF RequestEarned, ReadPurchases, At, EarnedInv, AccessIsEarned
<1>5. CASE CommitGrant(r)
  <2>1. CASE ~p.join
    BY <1>1, <1>5, <2>1 DEF CommitGrant
  <2>2. CASE p.join
    <3>1. /\ requests'[r].at = "finding" /\ requests'[r].user = p.user
          /\ requests'[r].class = p.class
      BY <1>0, <1>5, <2>2 DEF CommitGrant, Request
    <3> QED BY <1>0, <1>5, <3>1 DEF RequestEarned, CommitGrant, At
  <2> QED BY <2>1, <2>2
<1>6. ASSUME NEW step \in {"entering", "creating", "listing"}, GoTo(r, step),
             p.at \in {"finding", "creating"}
      PROVE  RequestEarned(requests'[r])
  <2>1. requests'[r].at = step /\ requests'[r].user = p.user /\ requests'[r].class = p.class
    BY <1>0, <1>6 DEF GoTo, Request
  <2> QED BY <1>0, <1>6, <2>1 DEF RequestEarned
<1>7. CASE FindConversation(r) \/ CreateConversation(r)
  BY <1>6, <1>7 DEF FindConversation, CreateConversation, At
<1>8. CASE ListParticipants(r)
  <2> DEFINE listed == {u \in Users : \E m \in RowsOf(u, p.class) : members[m].active}
  <2>1. /\ requests'[r].at = "filling" /\ requests'[r].user = p.user
        /\ requests'[r].class = p.class /\ requests'[r].students = {Creator} \cup listed
    BY <1>0, <1>8 DEF ListParticipants, Request
  <2>2. p.class \in Classes /\ Earned(p.user, p.class)
    BY <1>0, <1>8 DEF ListParticipants, At, RequestOK, RequestEarned
  <2>3. \A u \in listed : MayEnter(u, p.class)
    BY <2>2 DEF EarnedInv, AccessIsEarned, IsMember, MayEnter
  <2>4. Creator \notin Users
    BY EnrollmentAssumption
  <2> HIDE DEF listed
  <2> QED BY <2>1, <2>2, <2>3, <2>4 DEF RequestEarned
<1> QED BY <1>2, <1>3, <1>4, <1>5, <1>7, <1>8 DEF Resume

LEMMA EarnedStep == EarnedInv /\ [Next]_vars => EarnedInv'
<1> SUFFICES ASSUME EarnedInv, [Next]_vars PROVE EarnedInv'
  OBVIOUS
<1>1. TypeInv /\ TypeInv'
  BY TypeStep DEF EarnedInv
<1>2. AccessIsEarned'
  <2> SUFFICES ASSUME NEW u \in Users, NEW c \in Classes
               PROVE  /\ c \in purchases'[u] => Earned(u, c)'
                      /\ IsMember(u, c)' \/ u \in participants'[c] => MayEnter(u, c)'
    BY DEF AccessIsEarned, MayEnter
  <2>1. c \in purchases'[u] => Earned(u, c)
    BY PurchasesFrom
  <2>2. IsMember(u, c)' \/ u \in participants'[c] => MayEnter(u, c)
    BY MembersFrom, SeatsFrom DEF EarnedInv, AccessIsEarned, MayEnter
  <2> QED BY <1>1, <2>1, <2>2, RightsStay DEF MayEnter
<1>3. ASSUME NEW r \in Requests
      PROVE  requests'[r] = requests[r] \/ RequestEarned(requests'[r])
  <2>0. requests \in [Requests -> Request] /\ RequestEarned(Idle)
    BY DEF EarnedInv, TypeInv, TypeOK, RequestEarned, Idle
  <2>1. ASSUME NEW q \in Requests, Resume(q), q # r PROVE requests'[r] = requests[r]
    BY <2>0, <2>1 DEF Resume, AddRows, DeleteRow, FindMember, ReadPurchases, CommitGrant,
       FindConversation, EnterConversation, CreateConversation, ConversationExists,
       ListParticipants, FillConversation, GoTo, Finish
  <2>2. ASSUME NEW q \in Requests, Receive(q)
        PROVE  requests'[r] = requests[r] \/ RequestEarned(requests'[r])
    BY <2>2, ReceiveStarts, ReceiveEarned DEF EarnedInv
  <2>3. ASSUME NEW q \in Requests, Fail(q)
        PROVE  requests'[r] = requests[r] \/ RequestEarned(requests'[r])
    BY <2>0, <2>3 DEF Fail, Finish
  <2> QED BY <2>1, <2>2, <2>3, ResumeEarned
      DEF Next, Pay, BulkRemoveStudents, DeleteConversation, vars
<1>4. ASSUME NEW r \in Requests PROVE RequestEarned(requests[r])'
  <2>1. requests'[r] \in Request /\ RequestOK(requests'[r]) /\ RequestEarned(requests'[r])
    BY <1>1, <1>3 DEF TypeInv, TypeOK, EarnedInv
  <2>2. PICK q \in Request : q = requests'[r]
    BY <2>1
  <2>3. RequestEarned(q)'
    BY <1>1, <2>1, <2>2, RequestStaysEarned
  <2> QED BY <2>2, <2>3 DEF RequestEarned
<1> QED BY <1>1, <1>2, <1>4 DEF EarnedInv

\* Nobody owns, or has a row or a seat in, a class without a right to it, through any
\* overlap of payments, joins, webhooks and teachers.
THEOREM AccessStaysEarned == Spec => []AccessIsEarned
<1>1. Init => EarnedInv
  <2>1. Init => TypeInv
    BY TypeInit
  <2>2. Init => AccessIsEarned /\ \A r \in Requests : RequestEarned(requests[r])
    BY EnrollmentAssumption DEF Init, AccessIsEarned, IsMember, RowsOf, RequestEarned, Idle
  <2> QED BY <2>1, <2>2 DEF EarnedInv
<1>2. EarnedInv => AccessIsEarned
  BY DEF EarnedInv
<1> QED BY <1>1, <1>2, EarnedStep, PTL DEF Spec

-----------------------------------------------------------------------------
(* One handler after the other                                             *)

\* What the overlaps above are to blame for does not happen without them.
OneAtATime == \A p, q \in Requests : p = q

\* With nobody beside it, a grant writes back what the student still owns, and a join
\* that is to create the conversation still finds none open.
InOrderInv ==
  OneAtATime => \A r \in Requests :
    /\ requests[r].at = "committing" => requests[r].owned = purchases[requests[r].user]
    /\ requests[r].at = "creating" => conversation[requests[r].class] # "open"

LEMMA InOrderStep == TypeInv /\ InOrderInv /\ [Next]_vars => InOrderInv'
<1> SUFFICES ASSUME TypeInv, InOrderInv, [Next]_vars, OneAtATime, NEW r \in Requests
             PROVE  /\ requests'[r].at = "committing" =>
                         requests'[r].owned = purchases'[requests'[r].user]
                    /\ requests'[r].at = "creating" =>
                         conversation'[requests'[r].class] # "open"
  BY DEF InOrderInv, OneAtATime
<1> DEFINE p == requests[r]
           Now == /\ requests'[r].at = "committing" =>
                       requests'[r].owned = purchases'[requests'[r].user]
                  /\ requests'[r].at = "creating" =>
                       conversation'[requests'[r].class] # "open"
<1>0. /\ requests \in [Requests -> Request] /\ p \in Request
      /\ p.at \notin {"idle", "adding", "leaving"} => p.class \in Classes /\ p.user \in Users
      /\ conversation \in [Classes -> {"missing", "open", "deleted"}]
      /\ \A q \in Requests : q = r
  BY DEF TypeInv, TypeOK, RequestOK, OneAtATime
<1>1. CASE Receive(r)
  BY <1>1, ReceiveStarts, OnlyGrantWrites DEF InOrderInv, Receive, AddStudents, LeaveClass,
     RemoveStudent, FindRow, JoinClass, Checkout, StripeWebhook, VerifyEnrollment, chatVars
<1>2. ASSUME Finish(r) PROVE Now
  BY <1>0, <1>2 DEF Finish, Idle
<1>3. CASE AddRows(r) \/ DeleteRow(r) \/ EnterConversation(r) \/ ConversationExists(r)
           \/ FillConversation(r) \/ Fail(r)
  BY <1>2, <1>3 DEF AddRows, DeleteRow, EnterConversation, ConversationExists,
     FillConversation, Fail
<1>4. CASE FindMember(r) \/ ListParticipants(r)
  BY <1>0, <1>4 DEF FindMember, ListParticipants, Request
<1>5. CASE ReadPurchases(r)
  BY <1>0, <1>5 DEF ReadPurchases, Request
<1>6. CASE CommitGrant(r)
  <2>1. CASE ~p.join
    BY <1>2, <1>6, <2>1 DEF CommitGrant
  <2>2. CASE p.join
    BY <1>0, <1>6, <2>2 DEF CommitGrant, Request
  <2> QED BY <2>1, <2>2
<1>7. CASE FindConversation(r)
  BY <1>0, <1>7 DEF FindConversation, GoTo, At, Request, chatVars
<1>8. CASE CreateConversation(r)
  BY <1>0, <1>8 DEF CreateConversation, GoTo, Request
<1>9. ASSUME NEW c \in Classes, DeleteConversation(c) PROVE Now
  BY <1>0, <1>9 DEF DeleteConversation, InOrderInv
<1>10. CASE (\E u \in Users, c \in Classes : Pay(u, c)) \/ UNCHANGED vars
           \/ \E S \in SUBSET Users, c \in Classes : BulkRemoveStudents(S, c)
  BY <1>10 DEF Pay, BulkRemoveStudents, InOrderInv, vars, chatVars
<1> QED BY <1>0, <1>1, <1>3, <1>4, <1>5, <1>6, <1>7, <1>8, <1>9, <1>10 DEF Next, Resume

LEMMA InOrder == Spec => [](Inv /\ InOrderInv)
<1>1. Init => Inv /\ InOrderInv
  BY InvInit DEF Init, InOrderInv, Idle
<1>2. Inv /\ InOrderInv /\ [Next]_vars => Inv' /\ InOrderInv'
  BY InvStep, InOrderStep DEF Inv
<1> QED BY <1>1, <1>2, PTL DEF Spec

\* One handler after the other, a student has one row in a class at most.
THEOREM InOrderOneRowEach ==
  Spec => [](OneAtATime =>
               \A u \in Users, c \in Classes : \A m, n \in RowsOf(u, c) : m = n)
<1>1. Inv /\ OneAtATime => \A u \in Users, c \in Classes : \A m, n \in RowsOf(u, c) : m = n
  <2> SUFFICES ASSUME Inv, OneAtATime, NEW u \in Users, NEW c \in Classes,
                      NEW m \in RowsOf(u, c), NEW n \in RowsOf(u, c), m # n
               PROVE  FALSE
    OBVIOUS
  <2>1. IsFiniteSet(RowsOf(u, c))
        /\ Cardinality(RowsOf(u, c)) <= Cardinality(Requests)
    <3>1. IsFiniteSet(RowsOf(u, c)) /\ IsFiniteSet(Pending(u, c))
          /\ Cardinality(RowsOf(u, c)) + Cardinality(Pending(u, c)) <= Cardinality(Requests)
      BY EnrollmentAssumption, FS_Subset DEF Inv, CountedFor, Pending
    <3> QED BY <3>1, EnrollmentAssumption, FS_CardinalityType
  <2>2. Cardinality({m, n}) = 2 /\ IsFiniteSet({m, n})
    <3>1. IsFiniteSet({m}) /\ Cardinality({m}) = 1
      BY FS_Singleton
    <3>2. IsFiniteSet({m} \cup {n}) /\ Cardinality({m} \cup {n}) = 2
      BY <3>1, FS_AddElement
    <3>3. {m} \cup {n} = {m, n}
      OBVIOUS
    <3> QED BY <3>2, <3>3
  <2>3. 2 <= Cardinality(RowsOf(u, c))
    BY <2>1, <2>2, FS_Subset
  <2>4. Cardinality(Requests) <= 1
    <3>1. CASE Requests = {}
      BY <3>1, FS_EmptySet
    <3>2. CASE Requests # {}
      <4>1. PICK r : r \in Requests
        BY <3>2
      <4>2. Requests = {r}
        BY <4>1 DEF OneAtATime
      <4> QED BY <4>2, FS_Singleton
    <3> QED BY <3>1, <3>2
  <2>5. Cardinality(RowsOf(u, c)) \in Nat /\ Cardinality(Requests) \in Nat
    BY <2>1, EnrollmentAssumption, FS_CardinalityType
  <2> QED BY <2>1, <2>3, <2>4, <2>5
<1> QED BY <1>1, InOrder, PTL

\* One handler after the other, no purchase is ever lost.
THEOREM InOrderNothingIsLost ==
  Spec => [][OneAtATime => \A u \in Users : purchases[u] \subseteq purchases'[u]]_vars
<1> DEFINE Kept == OneAtATime => \A u \in Users : purchases[u] \subseteq purchases'[u]
<1>1. Inv /\ InOrderInv /\ [Next]_vars => [Kept]_vars
  <2> SUFFICES ASSUME Inv, InOrderInv, [Next]_vars, OneAtATime, NEW u \in Users
               PROVE  purchases[u] \subseteq purchases'[u]
    OBVIOUS
  <2>1. CASE purchases' # purchases
    <3>1. PICK r \in Requests : CommitGrant(r)
      BY <2>1, OnlyGrantWrites
    <3>2. requests[r].owned = purchases[requests[r].user]
      BY <3>1 DEF CommitGrant, At, InOrderInv
    <3> QED BY <3>1, <3>2 DEF CommitGrant, Grant, Inv, TypeInv, TypeOK
  <2> QED BY <2>1
<1> QED BY <1>1, InOrder, PTL DEF Spec

\* One handler after the other, a join that is to create the conversation fails only
\* where one was deleted: nobody else has opened one meanwhile.
THEOREM InOrderNoJoinIsBeaten ==
  Spec => [](OneAtATime =>
               \A r \in Requests : At(r, "creating") => conversation[requests[r].class] # "open")
<1>1. InOrderInv => (OneAtATime =>
        \A r \in Requests : At(r, "creating") => conversation[requests[r].class] # "open")
  BY DEF InOrderInv, At
<1> QED BY <1>1, InOrder, PTL
=============================================================================

------------------------------ MODULE Enrollment ------------------------------
(***************************************************************************)
(* Getting into a class and out of it: by its invite code, by paying, or   *)
(* through a teacher.  Membership is a ClassMember row, ownership an entry *)
(* of User.purchases, and the seat in the class's conversation a           *)
(* ConversationParticipant row; nothing in the schema ties them together,  *)
(* and nothing keeps a student from having two rows in one class.          *)
(*                                                                         *)
(* The handlers of ClassMembershipService and StripeService look before    *)
(* they write, and the database runs them in READ COMMITTED transactions:  *)
(* what a handler saw may be stale when it writes.  A handler is a slot of *)
(* requests; what it does between two queries is one action, and what a    *)
(* transaction writes appears at its end.                                  *)
(***************************************************************************)
EXTENDS Naturals, FiniteSets

CONSTANTS
  Users,      \* students
  Classes,
  Creator,    \* who created the classes
  Rows,       \* ids of ClassMember rows: how many there may be at a time
  Requests,   \* slots for running handlers: how many may overlap
  NoOne,      \* null
  Invites,    \* <<user, class>>: who was given an invite code
  Buyers,     \* <<user, class>>: who means to buy it
  Free,       \* classes without a price
  Managed,    \* classes whose teachers and creator act
  Unfinished, \* classes whose creation failed before they got a conversation
  Failures    \* whether a query may fail, or the server crash in a handler

ASSUME EnrollmentAssumption ==
  /\ Creator \notin Users
  /\ NoOne \notin Users \cup Classes \cup Rows \cup [class : Classes, student : Users, active : BOOLEAN]
  /\ Invites \subseteq Users \X Classes
  /\ Buyers \subseteq Users \X Classes
  /\ Free \subseteq Classes
  /\ Managed \subseteq Classes
  /\ Unfinished \subseteq Classes
  /\ IsFiniteSet(Requests)
  /\ Failures \in BOOLEAN

VARIABLES
  members,        \* the ClassMember rows, by id
  purchases,      \* User.purchases
  conversation,   \* the Conversation row of each class
  participants,   \* the ConversationParticipant rows of that conversation
  checkouts,      \* Stripe's checkout sessions of a user for a class
  requests        \* running handlers

chatVars == <<conversation, participants>>
vars == <<members, purchases, conversation, participants, checkouts, requests>>

Null(S) == S \cup {NoOne}

Member == [class : Classes, student : Users, active : BOOLEAN]

\* Where a handler is:
\*   adding      addStudent or bulkAddStudents, creating the rows
\*   leaving     leaveClass or removeStudent, deleting the row found
\*   enrolling   recordPurchaseAndEnrollment, looking for a row
\*   reading     a transaction that grants a class, reading the purchases
\*   committing  the same, writing them
\*   finding     joinClass, looking for the conversation
\*   entering    joinClass, joining the conversation found
\*   creating    joinClass, creating the conversation
\*   listing     joinClass, reading who belongs in the new conversation
\*   filling     joinClass, adding them
Steps == {"idle", "adding", "leaving", "enrolling", "reading", "committing", "finding",
          "entering", "creating", "listing", "filling"}

Idle == [at |-> "idle", join |-> FALSE, user |-> NoOne, class |-> NoOne, row |-> NoOne,
         active |-> TRUE, students |-> {}, owned |-> {}]

\* students: who is to get a row, or a seat; owned: the purchases that were read.
Request == [at : Steps, join : BOOLEAN, user : Null(Users), class : Null(Classes),
            row : Null(Rows), active : BOOLEAN, students : SUBSET (Users \cup {Creator}),
            owned : SUBSET Classes]

TypeOK ==
  /\ members \in [Rows -> Null(Member)]
  /\ purchases \in [Users -> SUBSET Classes]
  /\ conversation \in [Classes -> {"missing", "open", "deleted"}]
  /\ participants \in [Classes -> SUBSET (Users \cup {Creator})]
  /\ checkouts \in [Users -> [Classes -> {"none", "open", "paid"}]]
  /\ requests \in [Requests -> Request]

\* createClass makes the class, its conversation and the creator's seat one after
\* the other, in no transaction: some classes were left without a conversation.
Init ==
  /\ members = [m \in Rows |-> NoOne]
  /\ purchases = [u \in Users |-> {}]
  /\ conversation = [c \in Classes |-> IF c \in Unfinished THEN "missing" ELSE "open"]
  /\ participants = [c \in Classes |-> IF c \in Unfinished THEN {} ELSE {Creator}]
  /\ checkouts = [u \in Users |-> [c \in Classes |-> "none"]]
  /\ requests = [r \in Requests |-> Idle]

-----------------------------------------------------------------------------
(* Rows and handlers                                                       *)

RowsOf(u, c) ==
  {m \in Rows : members[m] # NoOne /\ members[m].student = u /\ members[m].class = c}

IsMember(u, c) == RowsOf(u, c) # {}

\* An id is new, to the table and to every running handler.
NewRows == {m \in Rows : members[m] = NoOne /\ \A r \in Requests : requests[r].row # m}

\* id: the new row of each student in the class.
Inserted(id, c, active) ==
  [m \in Rows |-> IF \E u \in DOMAIN id : id[u] = m
                  THEN [class |-> c, active |-> active,
                        student |-> CHOOSE u \in DOMAIN id : id[u] = m]
                  ELSE members[m]]

NewIds(S) == {id \in [S -> NewRows] : \A u, v \in S : id[u] = id[v] => u = v}

At(r, step) == requests[r].at = step

Start(r, request) ==
  /\ requests[r] = Idle
  /\ requests' = [requests EXCEPT ![r] = request]

GoTo(r, step) == requests' = [requests EXCEPT ![r].at = step]
Finish(r) == requests' = [requests EXCEPT ![r] = Idle]

-----------------------------------------------------------------------------
(* Mutated forms of handlers, each with the slip its name says.              *)

AddStudents_Unchecked(r, S, c, active) ==
  /\ c \in Managed
  /\ S # {}
  /\ Start(r, [Idle EXCEPT !.at = "adding", !.class = c, !.active = active,
                           !.students = S])
  /\ UNCHANGED <<members, purchases, chatVars, checkouts>>

Grant_Replaces(r) ==
  purchases' = [purchases EXCEPT ![requests[r].user] = {requests[r].class}]

ListParticipants_Rows(r) ==
  /\ At(r, "listing")
  /\ requests' = [requests EXCEPT
                    ![r].at = "filling",
                    ![r].students = {Creator} \cup
                      {m \in Rows : members[m] # NoOne /\ members[m].class = requests[r].class}]
  /\ UNCHANGED <<members, purchases, chatVars, checkouts>>

ListParticipants_Joiner(r) ==
  /\ At(r, "listing")
  /\ requests' = [requests EXCEPT ![r].at = "filling",
                                  ![r].students = {Creator, requests[r].user}]
  /\ UNCHANGED <<members, purchases, chatVars, checkouts>>

StripeWebhook_NewStudents(r, u, c) ==
  /\ checkouts[u][c] = "paid"
  /\ ~IsMember(u, c)
  /\ Start(r, [Idle EXCEPT !.at = "enrolling", !.user = u, !.class = c])
  /\ UNCHANGED <<members, purchases, chatVars, checkouts>>

VerifyEnrollment_Unpaid(r, u, c) ==
  /\ checkouts[u][c] # "none"
  /\ c \notin purchases[u]
  /\ Start(r, [Idle EXCEPT !.at = "enrolling", !.user = u, !.class = c])
  /\ UNCHANGED <<members, purchases, chatVars, checkouts>>

-----------------------------------------------------------------------------
(* By a teacher: addStudent, bulkAddStudents, removeStudent and            *)
(* bulkRemoveStudents; and leaveClass                                      *)

\* addStudent is for one student, with a status of the teacher's choice;
\* bulkAddStudents for several, all active.
AddStudents(r, S, c, active) ==
  LET new == {u \in S : ~IsMember(u, c)}
  IN /\ c \in Managed
     /\ new # {}
     /\ active \/ Cardinality(S) = 1
     /\ Start(r, [Idle EXCEPT !.at = "adding", !.class = c, !.active = active,
                              !.students = new])
     /\ UNCHANGED <<members, purchases, chatVars, checkouts>>

AddRows(r) ==
  /\ At(r, "adding")
  /\ \E id \in NewIds(requests[r].students) :
       members' = Inserted(id, requests[r].class, requests[r].active)
  /\ Finish(r)
  /\ UNCHANGED <<purchases, chatVars, checkouts>>

\* One row is looked for, any of the student's in the class.
FindRow(r, u, c) ==
  /\ \E m \in RowsOf(u, c) : Start(r, [Idle EXCEPT !.at = "leaving", !.row = m])
  /\ UNCHANGED <<members, purchases, chatVars, checkouts>>

LeaveClass(r, u, c) == FindRow(r, u, c)
RemoveStudent(r, u, c) == c \in Managed /\ FindRow(r, u, c)

\* delete throws when the row is gone.
DeleteRow(r) ==
  /\ At(r, "leaving")
  /\ members' = [members EXCEPT ![requests[r].row] = NoOne]
  /\ Finish(r)
  /\ UNCHANGED <<purchases, chatVars, checkouts>>

BulkRemoveStudents(S, c) ==
  /\ c \in Managed
  /\ \E u \in S : IsMember(u, c)
  /\ members' = [m \in Rows |-> IF \E u \in S : m \in RowsOf(u, c) THEN NoOne ELSE members[m]]
  /\ UNCHANGED <<purchases, chatVars, checkouts, requests>>

-----------------------------------------------------------------------------
(* By paying: StripeService                                                *)

\* Free or not, a class that is owned is not sold again.
Checkout(r, u, c) ==
  /\ <<u, c>> \in Buyers
  /\ c \notin purchases[u]
  /\ IF c \in Free
     THEN /\ Start(r, [Idle EXCEPT !.at = "enrolling", !.user = u, !.class = c])
          /\ UNCHANGED checkouts
     ELSE /\ checkouts[u][c] = "none"
          /\ checkouts' = [checkouts EXCEPT ![u][c] = "open"]
          /\ UNCHANGED requests
  /\ UNCHANGED <<members, purchases, chatVars>>

\* The student pays on Stripe's page.
Pay(u, c) ==
  /\ checkouts[u][c] = "open"
  /\ checkouts' = [checkouts EXCEPT ![u][c] = "paid"]
  /\ UNCHANGED <<members, purchases, chatVars, requests>>

\* checkout.session.completed, however late or repeated.
StripeWebhook(r, u, c) ==
  /\ checkouts[u][c] = "paid"
  /\ Start(r, [Idle EXCEPT !.at = "enrolling", !.user = u, !.class = c])
  /\ UNCHANGED <<members, purchases, chatVars, checkouts>>

\* verifyAndCompleteEnrollment, called by the page the student returns to: the
\* purchase stands for the enrolment.
VerifyEnrollment(r, u, c) ==
  /\ checkouts[u][c] = "paid"
  /\ c \notin purchases[u]
  /\ Start(r, [Idle EXCEPT !.at = "enrolling", !.user = u, !.class = c])
  /\ UNCHANGED <<members, purchases, chatVars, checkouts>>

\* recordPurchaseAndEnrollment: a row of any status will do.
FindMember(r) ==
  /\ At(r, "enrolling")
  /\ requests' = [requests EXCEPT
                    ![r].at = "reading",
                    ![r].students = IF IsMember(requests[r].user, requests[r].class)
                                    THEN {} ELSE {requests[r].user}]
  /\ UNCHANGED <<members, purchases, chatVars, checkouts>>

-----------------------------------------------------------------------------
(* By the invite code: joinClass                                           *)

JoinClass(r, u, c) ==
  /\ <<u, c>> \in Invites
  /\ ~IsMember(u, c)
  /\ Start(r, [Idle EXCEPT !.at = "reading", !.join = TRUE, !.user = u, !.class = c,
                           !.students = {u}])
  /\ UNCHANGED <<members, purchases, chatVars, checkouts>>

\* Both transactions that grant a class read the whole list of purchases ...
ReadPurchases(r) ==
  /\ At(r, "reading")
  /\ requests' = [requests EXCEPT ![r].at = "committing",
                                  ![r].owned = purchases[requests[r].user]]
  /\ UNCHANGED <<members, purchases, chatVars, checkouts>>

\* ... and write it back with the class, unless it was there.
Grant(r) ==
  purchases' = [purchases EXCEPT ![requests[r].user] =
                  IF requests[r].class \in requests[r].owned
                  THEN @ ELSE requests[r].owned \cup {requests[r].class}]

CommitGrant(r) ==
  /\ At(r, "committing")
  /\ Grant(r)
  /\ \E id \in NewIds(requests[r].students) :
       /\ members' = Inserted(id, requests[r].class, TRUE)
       /\ IF requests[r].join
          THEN requests' = [requests EXCEPT ![r].at = "finding", ![r].owned = {},
                                            ![r].row = id[requests[r].user]]
          ELSE Finish(r)
  /\ UNCHANGED <<chatVars, checkouts>>

FindConversation(r) ==
  /\ At(r, "finding")
  /\ GoTo(r, IF conversation[requests[r].class] = "open" THEN "entering" ELSE "creating")
  /\ UNCHANGED <<members, purchases, chatVars, checkouts>>

EnterConversation(r) ==
  LET c == requests[r].class
  IN /\ At(r, "entering")
     /\ participants' = [participants EXCEPT ![c] = @ \cup {requests[r].user}]
     /\ Finish(r)
     /\ UNCHANGED <<members, purchases, conversation, checkouts>>

CreateConversation(r) ==
  LET c == requests[r].class
  IN /\ At(r, "creating")
     /\ conversation[c] = "missing"
     /\ conversation' = [conversation EXCEPT ![c] = "open"]
     /\ GoTo(r, "listing")
     /\ UNCHANGED <<members, purchases, participants, checkouts>>

\* The class has a conversation, open or deleted: classId is unique, the query
\* fails, and so does the join, after the student has become a member.
ConversationExists(r) ==
  /\ At(r, "creating")
  /\ conversation[requests[r].class] # "missing"
  /\ Finish(r)
  /\ UNCHANGED <<members, purchases, chatVars, checkouts>>

\* getClassConversationParticipants: the creator and the active students.
ListParticipants(r) ==
  /\ At(r, "listing")
  /\ requests' = [requests EXCEPT
                    ![r].at = "filling",
                    ![r].students = {Creator} \cup
                      {u \in Users : \E m \in RowsOf(u, requests[r].class) : members[m].active}]
  /\ UNCHANGED <<members, purchases, chatVars, checkouts>>

FillConversation(r) ==
  LET c == requests[r].class
  IN /\ At(r, "filling")
     /\ participants' = [participants EXCEPT ![c] = @ \cup requests[r].students]
     /\ Finish(r)
     /\ UNCHANGED <<members, purchases, conversation, checkouts>>

\* ConversationService.deleteConversation by the class's creator, who must be a
\* participant: the row stays.
DeleteConversation(c) ==
  /\ c \in Managed
  /\ conversation[c] = "open"
  /\ Creator \in participants[c]
  /\ conversation' = [conversation EXCEPT ![c] = "deleted"]
  /\ UNCHANGED <<members, purchases, participants, checkouts, requests>>

\* A query fails, or the server crashes: the handler ends where it is.
Fail(r) ==
  /\ Failures
  /\ requests[r] # Idle
  /\ Finish(r)
  /\ UNCHANGED <<members, purchases, chatVars, checkouts>>

-----------------------------------------------------------------------------
Resume(r) ==
  \/ AddRows(r) \/ DeleteRow(r)
  \/ FindMember(r) \/ ReadPurchases(r) \/ CommitGrant(r)
  \/ FindConversation(r) \/ EnterConversation(r)
  \/ CreateConversation(r) \/ ConversationExists(r)
  \/ ListParticipants(r) \/ FillConversation(r)

Receive(r) ==
  \E c \in Classes :
    \/ \E S \in SUBSET Users, active \in BOOLEAN : AddStudents(r, S, c, active)
    \/ \E u \in Users :
         \/ LeaveClass(r, u, c) \/ RemoveStudent(r, u, c)
         \/ JoinClass(r, u, c) \/ Checkout(r, u, c)
         \/ StripeWebhook(r, u, c) \/ VerifyEnrollment(r, u, c)

Next ==
  \/ \E r \in Requests : Resume(r) \/ Receive(r) \/ Fail(r)
  \/ \E c \in Classes :
       \/ \E u \in Users : Pay(u, c)
       \/ \E S \in SUBSET Users : BulkRemoveStudents(S, c)
       \/ DeleteConversation(c)

Spec == Init /\ [][Next]_vars

\* Node resumes a handler whose query has returned.  Stripe repeats a webhook it
\* has no good answer for, often enough to find the server ready to take it.
Fairness ==
  /\ \A r \in Requests : WF_vars(Resume(r))
  /\ \A u \in Users, c \in Classes : SF_vars(\E r \in Requests : StripeWebhook(r, u, c))

FairSpec == Spec /\ Fairness

-----------------------------------------------------------------------------
(* Safety                                                                  *)

\* Checks that overlap can give a student several rows in a class, and a leave
\* or a removal takes one away.  There are never more of them than handlers that
\* ran at the same time, whatever mix of joins, payments, webhooks, retries and
\* teachers made them: one handler after the other makes one.
DuplicatesBounded ==
  \A u \in Users, c \in Classes : Cardinality(RowsOf(u, c)) <= Cardinality(Requests)

\* A right to the class of one's own: an invite code, a free class one means to
\* have, or a payment that Stripe knows of.
Earned(u, c) ==
  \/ <<u, c>> \in Invites
  \/ <<u, c>> \in Buyers /\ c \in Free
  \/ checkouts[u][c] = "paid"

\* However webhooks, verifications, joins and teachers overlap, and whichever list
\* of purchases, of rows or of seats is written back late: a student owns a class
\* only if invited to it or charged for it, and has a row in it or a seat in its
\* conversation only then, or where teachers add students.
AccessIsEarned ==
  \A u \in Users, c \in Classes :
    /\ c \in purchases[u] => Earned(u, c)
    /\ IsMember(u, c) \/ u \in participants[c] => Earned(u, c) \/ c \in Managed

\* A join that another one overtook at creating the conversation will fail, with
\* the student a member already; but the one that was faster has listed, or will
\* list, this student among those it seats.
OvertakenJoinIsSeated ==
  \A r \in Requests :
    LET u == requests[r].user
        c == requests[r].class
    IN /\ At(r, "creating")
       /\ conversation[c] = "open"
       /\ members[requests[r].row] # NoOne
       => \/ u \in participants[c]
          \/ \E q \in Requests : /\ requests[q].class = c
                                 /\ \/ At(q, "listing")
                                    \/ At(q, "filling") /\ u \in requests[q].students
          \/ Failures /\ Creator \notin participants[c]

\* A class that a student owns is lost only to a grant of another class to the
\* same student, whose transaction had read the purchases before the class was
\* among them; leaving, being removed and paying again leave it alone.
GrantLostOnlyToOverlap ==
  [][\A u \in Users, c \in Classes :
       c \in purchases[u] /\ c \notin purchases'[u] =>
         \E r \in Requests : /\ At(r, "committing") /\ requests'[r] # requests[r]
                             /\ requests[r].user = u
                             /\ requests[r].class # c
                             /\ c \notin requests[r].owned
    ]_vars

-----------------------------------------------------------------------------
(* Liveness                                                                *)

CallsRecover == <>[][\A r \in Requests : ~Fail(r)]_vars

\* A student who has paid comes to own the class, even one who never returns to
\* the page that verifies the payment: when calls stop failing, a repeated
\* webhook gets through.
PaidIsGranted ==
  CallsRecover =>
    \A u \in Users, c \in Classes : checkouts[u][c] = "paid" ~> c \in purchases[u]

-----------------------------------------------------------------------------
(* What a comment of the code says, and the code does not do               *)

\* "Auto-join the class group conversation (create if missing)", where a deleted
\* one counts as missing: a join that finds it deleted makes another.
DeletedIsRecreated ==
  [][\A r \in Requests :
       At(r, "creating") /\ conversation[requests[r].class] = "deleted"
         => requests'[r] # Idle
    ]_vars
=============================================================================

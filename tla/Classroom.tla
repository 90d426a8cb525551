------------------------------ MODULE Classroom ------------------------------
(***************************************************************************)
(* Who may run a class: creating it, its teachers, its invite code, and    *)
(* deleting it, by users who come and go as Accounts says.                 *)
(*                                                                         *)
(* createClass makes the class, its conversation and the first teacher     *)
(* one after the other, with no transaction; addTeacher looks for the      *)
(* teacher's row in one query and inserts it in another, and no constraint *)
(* keeps a second one out; the foreign keys of teachers and students keep  *)
(* the class from being deleted.  Students and payment are in Enrollment,  *)
(* and who sits in the conversation in Conversations.                      *)
(***************************************************************************)
EXTENDS Accounts

CONSTANTS
  Classes,    \* names of classes
  Rows,       \* ids of ClassTeacher rows: how many there may be
  Codes,      \* invite codes
  Calls       \* slots for running handlers of classes: how many may overlap

Class == [creator : Ids, code : Codes]
Teacher == [class : Classes, teacher : Ids]

ASSUME ClassroomAssumption == NoOne \notin Class \cup Teacher \cup Classes \cup Rows

VARIABLES
  classes,    \* the Class rows, by name
  teachers,   \* the ClassTeacher rows, by id
  students,   \* who has a ClassMember row in each class
  chats,      \* the classes with a Conversation row
  calls       \* running handlers

classVars == <<classes, teachers, students, chats>>
vars == <<accountVars, classVars, calls>>

\* Where a handler is, and what it does next:
\*   creating    createClass, inserting the class; opening: its conversation;
\*               enrolling: the creator
\*   permitting  regenerateInviteCode, at checkClassManagementPermission; coding
\*   finding     addTeacher, at the class and the teacher's row; vetting: at the
\*               teacher's User row; hiring: inserting
\*   looking     removeTeacher, at the class and the teacher's row; dismissing
\*   disposing   deleteClass, at the class; dropping
CallSteps == {"idle", "creating", "opening", "enrolling", "permitting", "coding",
              "finding", "vetting", "hiring", "looking", "dismissing", "disposing",
              "dropping"}

NoCall == [at |-> "idle", caller |-> NoOne, role |-> NoOne, class |-> NoOne,
           teacher |-> NoOne, row |-> NoOne, overtaken |-> FALSE]

\* role: as the guard read it.  overtaken: a row that the handler looks at was
\* written by another one since it began; the code has no such thing.
Call == [at : CallSteps, caller : Null(Ids), role : Null(Roles), class : Null(Classes),
         teacher : Null(Ids), row : Null(Rows), overtaken : BOOLEAN]

TypeOK ==
  /\ AccountsTypeOK
  /\ classes \in [Classes -> Null(Class)]
  /\ teachers \in [Rows -> Null(Teacher)]
  /\ students \in [Classes -> SUBSET Ids]
  /\ chats \in SUBSET Classes
  /\ calls \in [Calls -> Call]

Init ==
  /\ AccountsInit
  /\ classes = [c \in Classes |-> NoOne]
  /\ teachers = [x \in Rows |-> NoOne]
  /\ students = [c \in Classes |-> {}]
  /\ chats = {}
  /\ calls = [k \in Calls |-> NoCall]

-----------------------------------------------------------------------------
(* Rows and handlers                                                       *)

Doing(k, step) == calls[k].at = step

Exists(c) == c # NoOne /\ classes[c] # NoOne

RowsOf(c, i) == {x \in Rows : teachers[x] = [class |-> c, teacher |-> i]}

NewRows == {x \in Rows : teachers[x] = NoOne /\ \A k \in Calls : calls[k].row # x}

\* checkClassManagementPermission
MayManage(c, i) == Exists(c) /\ (classes[c].creator = i \/ RowsOf(c, i) # {})

GoTo(k, step) == calls' = [calls EXCEPT ![k].at = step]

\* A handler goes on to step after it has written to class c.
WroteAndGoesTo(k, step, c) ==
  calls' = [l \in Calls |->
    IF l = k THEN (IF step = "idle" THEN NoCall ELSE [calls[k] EXCEPT !.at = step])
    ELSE IF calls[l].class = c THEN [calls[l] EXCEPT !.overtaken = TRUE]
    ELSE calls[l]]

-----------------------------------------------------------------------------
(* Mutated forms of operations, each with the slip its name says.           *)

FindTeacher_Anew(k) ==
  /\ Doing(k, "finding")
  /\ Exists(calls[k].class)
  /\ classes[calls[k].class].creator = calls[k].caller
  /\ GoTo(k, "vetting")
  /\ UNCHANGED <<accountVars, classVars>>

CheckPermission_Class(k) ==
  /\ Doing(k, "permitting")
  /\ Exists(calls[k].class)
  /\ GoTo(k, "coding")
  /\ UNCHANGED <<accountVars, classVars>>

InsertClass_NoCreator(k) ==
  LET c == calls[k].class
  IN /\ Doing(k, "creating")
     /\ classes[c] = NoOne
     /\ \E code \in Codes : classes' = [classes EXCEPT ![c] =
          [creator |-> NoOne, code |-> code]]
     /\ GoTo(k, "opening")
     /\ UNCHANGED <<accountVars, teachers, students, chats>>

-----------------------------------------------------------------------------
(* The guards, and the handlers                                            *)

\* A handler for teachers and admins.
Admit(k, i, step, c, j) ==
  /\ calls[k] = NoCall
  /\ Admitted(i, {"TEACHER", "ADMIN"})
  /\ calls' = [calls EXCEPT ![k] =
       [NoCall EXCEPT !.at = step, !.caller = i, !.role = users[i].role, !.class = c,
                      !.teacher = j]]
  /\ UNCHANGED <<accountVars, classVars>>

\* The name and the code are looked for first; the table has them unique anyhow.
InsertClass(k) ==
  LET c == calls[k].class
  IN /\ Doing(k, "creating")
     /\ classes[c] = NoOne
     /\ \E code \in Codes :
          /\ \A d \in Classes : classes[d] # NoOne => classes[d].code # code
          /\ classes' = [classes EXCEPT ![c] = [creator |-> calls[k].caller, code |-> code]]
     /\ GoTo(k, "opening")
     /\ UNCHANGED <<accountVars, teachers, students, chats>>

\* A class has one conversation: who opened it first has it.
InsertConversation(k) ==
  LET c == calls[k].class
  IN /\ Doing(k, "opening")
     /\ Exists(c) /\ c \notin chats
     /\ chats' = chats \cup {c}
     /\ GoTo(k, "enrolling")
     /\ UNCHANGED <<accountVars, classes, teachers, students>>

\* A teacher teaches the class, an admin becomes a member.
EnrollCreator(k) ==
  LET c == calls[k].class
      i == calls[k].caller
  IN /\ Doing(k, "enrolling")
     /\ Exists(c)
     /\ IF calls[k].role = "TEACHER"
        THEN /\ \E x \in NewRows :
                  teachers' = [teachers EXCEPT ![x] = [class |-> c, teacher |-> i]]
             /\ UNCHANGED students
        ELSE /\ students' = [students EXCEPT ![c] = @ \cup {i}]
             /\ UNCHANGED teachers
     /\ WroteAndGoesTo(k, "idle", c)
     /\ UNCHANGED <<accountVars, classes, chats>>

CheckPermission(k) ==
  /\ Doing(k, "permitting")
  /\ MayManage(calls[k].class, calls[k].caller)
  /\ GoTo(k, "coding")
  /\ UNCHANGED <<accountVars, classVars>>

\* regenerateInviteCode, a code that no class has.
SaveCode(k) ==
  LET c == calls[k].class
  IN /\ Doing(k, "coding")
     /\ Exists(c)
     /\ \E code \in Codes :
          /\ \A d \in Classes : classes[d] # NoOne => classes[d].code # code
          /\ classes' = [classes EXCEPT ![c].code = code]
     /\ WroteAndGoesTo(k, "idle", c)
     /\ UNCHANGED <<accountVars, teachers, students, chats>>

FindTeacher(k) ==
  LET c == calls[k].class
  IN /\ Doing(k, "finding")
     /\ Exists(c)
     /\ classes[c].creator = calls[k].caller
     /\ RowsOf(c, calls[k].teacher) = {}
     /\ GoTo(k, "vetting")
     /\ UNCHANGED <<accountVars, classVars>>

VetTeacher(k) ==
  LET j == calls[k].teacher
  IN /\ Doing(k, "vetting")
     /\ users[j] # NoOne /\ users[j].role = "TEACHER"
     /\ GoTo(k, "hiring")
     /\ UNCHANGED <<accountVars, classVars>>

HireTeacher(k) ==
  LET c == calls[k].class
  IN /\ Doing(k, "hiring")
     /\ Exists(c)
     /\ \E x \in NewRows : teachers' = [teachers EXCEPT ![x] =
          [class |-> c, teacher |-> calls[k].teacher]]
     /\ WroteAndGoesTo(k, "idle", c)
     /\ UNCHANGED <<accountVars, classes, students, chats>>

\* removeTeacher, by any teacher or admin: whose class it is, is not asked.
FindRow(k) ==
  LET c == calls[k].class
  IN /\ Doing(k, "looking")
     /\ Exists(c)
     /\ \E x \in RowsOf(c, calls[k].teacher) :
          calls' = [calls EXCEPT ![k].at = "dismissing", ![k].row = x]
     /\ UNCHANGED <<accountVars, classVars>>

DismissTeacher(k) ==
  LET x == calls[k].row
  IN /\ Doing(k, "dismissing")
     /\ teachers[x] # NoOne
     /\ teachers' = [teachers EXCEPT ![x] = NoOne]
     /\ WroteAndGoesTo(k, "idle", calls[k].class)
     /\ UNCHANGED <<accountVars, classes, students, chats>>

ReadClass(k) ==
  LET c == calls[k].class
  IN /\ Doing(k, "disposing")
     /\ Exists(c) /\ classes[c].creator = calls[k].caller
     /\ GoTo(k, "dropping")
     /\ UNCHANGED <<accountVars, classVars>>

\* No row may refer to it; the conversation stays, without its class.  A class created
\* by the same name later is another one.
DeleteClass(k) ==
  LET c == calls[k].class
  IN /\ Doing(k, "dropping")
     /\ Exists(c)
     /\ students[c] = {} /\ \A i \in Ids : RowsOf(c, i) = {}
     /\ classes' = [classes EXCEPT ![c] = NoOne]
     /\ chats' = chats \ {c}
     /\ calls' = [l \in Calls |->
          IF l = k THEN NoCall
          ELSE IF calls[l].class = c /\ ~Doing(l, "creating")
          THEN [calls[l] EXCEPT !.class = NoOne, !.overtaken = TRUE]
          ELSE calls[l]]
     /\ UNCHANGED <<accountVars, teachers, students>>

\* A check that does not hold, a query that fails; what is written stays.
Abandon(k) ==
  /\ calls[k] # NoCall
  /\ calls' = [calls EXCEPT ![k] = NoCall]
  /\ UNCHANGED <<accountVars, classVars>>

-----------------------------------------------------------------------------
(* What else goes on in a class                                            *)

JoinClass(i, c) ==
  /\ Admitted(i, Roles)
  /\ Exists(c) /\ i \notin students[c]
  /\ students' = [students EXCEPT ![c] = @ \cup {i}]
  /\ UNCHANGED <<accountVars, classes, teachers, chats, calls>>

LeaveClass(i, c) ==
  /\ Admitted(i, Roles)
  /\ i \in students[c]
  /\ students' = [students EXCEPT ![c] = @ \ {i}]
  /\ UNCHANGED <<accountVars, classes, teachers, chats, calls>>

\* createConversation and joinClass open the conversation of a class that has none.
OpenConversation(i, c) ==
  /\ Admitted(i, Roles)
  /\ Exists(c) /\ c \notin chats
  /\ MayManage(c, i) \/ i \in students[c]
  /\ chats' = chats \cup {c}
  /\ UNCHANGED <<accountVars, classes, teachers, students, calls>>

-----------------------------------------------------------------------------
\* A handler of Accounts; the handlers of classes that go by a row it has written
\* have been overtaken.
AccountStep ==
  /\ AccountsNext
  /\ calls' = [k \in Calls |->
       IF \E i \in {calls[k].caller, calls[k].teacher} \cap Ids : users'[i] # users[i]
       THEN [calls[k] EXCEPT !.overtaken = TRUE] ELSE calls[k]]
  /\ UNCHANGED classVars

Proceed(k) ==
  \/ InsertClass(k) \/ InsertConversation(k) \/ EnrollCreator(k)
  \/ CheckPermission(k) \/ SaveCode(k)
  \/ FindTeacher(k) \/ VetTeacher(k) \/ HireTeacher(k)
  \/ FindRow(k) \/ DismissTeacher(k)
  \/ ReadClass(k) \/ DeleteClass(k)
  \/ Abandon(k)

Next ==
  \/ AccountStep
  \/ \E k \in Calls :
       \/ Proceed(k)
       \/ \E i \in Ids, c \in Classes :
            \/ \E step \in {"creating", "permitting", "disposing"} : Admit(k, i, step, c, NoOne)
            \/ \E step \in {"finding", "looking"}, j \in Ids : Admit(k, i, step, c, j)
  \/ \E i \in Ids, c \in Classes : JoinClass(i, c) \/ LeaveClass(i, c) \/ OpenConversation(i, c)

Spec == Init /\ [][Next]_vars

-----------------------------------------------------------------------------
(* Safety                                                                  *)

Twins(x, y) == x # y /\ teachers[x] # NoOne /\ teachers[x] = teachers[y]

\* The same teacher comes to be in a class twice, and to stay in it when removed, only
\* by a handler that another one overtook between the query for the row and the insertion.
TwinTeacherNeedsOverlap ==
  [][\A x, y \in Rows :
       ~Twins(x, y) /\ Twins(x, y)' =>
         \E k \in Calls :
           /\ calls[k].at \in {"hiring", "enrolling"}
           /\ calls'[k] = NoCall
           /\ calls[k].overtaken
    ]_vars

\* What the handler that writes may do, by its rules, to the rows as they are.
HasRight(call) ==
  LET c == call.class
  IN /\ users[call.caller] # NoOne
     /\ users[call.caller].active /\ users[call.caller].role \in {"TEACHER", "ADMIN"}
     /\ call.at = "coding" => MayManage(c, call.caller)
     /\ call.at \in {"hiring", "enrolling", "dropping"} => classes[c].creator = call.caller
     /\ call.at = "hiring" => users[call.teacher].role = "TEACHER"

Writing == {"creating", "opening", "enrolling", "coding", "hiring", "dismissing", "dropping"}

\* A class, its code and its teachers are changed by who has the right to at that very
\* moment, unless the caller, the teacher or the class was written since it was asked.
ClassWriteNeedsRight ==
  [][<<classes, teachers>>' # <<classes, teachers>> =>
       \E k \in Calls :
         /\ calls[k].at \in Writing
         /\ calls'[k].at # calls[k].at
         /\ HasRight(calls[k]) \/ calls[k].overtaken
    ]_vars
=============================================================================

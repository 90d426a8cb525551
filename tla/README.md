# Verification of idest-server

This directory keeps TLA+ models of the parts of the server in `src/` (NestJS, Prisma/PostgreSQL,
Socket.IO, LiveKit, Stripe) whose correctness depends on what overlaps, fails or comes late; the TLC
configurations that check them on small instances; and proofs, checked by TLAPS, of what holds for
every instance. `PROJECT.json` lists components, runs, findings, hazards and theorems, and maps each
definition to the lines it translates.

    tlc -workers 2 -config MeetGateway_stage.cfg MCMeetGateway     # any run of PROJECT.json
    tlapm MeetGatewayProofs.tla                                    # any proof module

## 1. The system

The server is one Node process. Handlers (HTTP requests, socket messages, webhooks, timers) run one at a
time up to their next `await`; there any other may run. The state is in three places: PostgreSQL
(queries, and transactions at the default isolation READ COMMITTED), memory (lost on a restart), and
services (LiveKit, Stripe, Supabase) that are called and that call back.

| Component | Source (`src/src/...`) | State | Operations |
|---|---|---|---|
| Connected users | `meet/utils/connected-users-manager.ts` | `sessionUsers`, `socketToUser`: two maps in memory | addUser, removeUserBySocket, getUser, getUserBySocket, getUserSocketId |
| Meet gateway | `meet/meet.gateway.ts`, `meet/meet.service.ts` | the roster; `activeScreenSharers`, `activeCanvasSessions`; `attendanceTimers` | join-room, leave-room, disconnect, start/stop-screen-share, open/close-canvas, kick-participant, the five-minute timer; media controls |
| Whiteboard, canvas and meeting chat | the same two files | `whiteboardStates`, the canvas's holder; `Session.whiteboard_data`, the messages of the meeting; what each client shows | whiteboard-update, get-whiteboard-state; open/close/clear-canvas, canvas-draw, get-canvas-state; chat-message, get-message-history |
| Recording | `meet/meet.service.ts`, `meet/utils/livekit.service.ts`, `meet/meet.webhook.controller.ts` | `Recording` rows, `Session.metadata.recordingEgressId`, `Session.recording_url`; egresses at LiveKit | startRecording, stopRecording, listRecordings, getRecordingUrl, webhook |
| Enrolment and payment | `class/service/class-membership.service.ts`, `class/service/class-CRUD.service.ts`, `stripe/*` | `ClassMember` rows, `User.purchases`, the class's `Conversation` and its participants; Stripe's checkout sessions | joinClass, addStudent, bulkAddStudents, removeStudent, bulkRemoveStudents, leaveClass, checkout, webhook, verification |
| Classes and their teachers | the same services, `class/class.util.ts` | `Class` and `ClassTeacher` rows, invite codes | createClass, regenerateInviteCode, addTeacher, removeTeacher, deleteClass; updateClass, settings |
| Users and accounts | `user/*`, `common/guard/*`, `../scripts/seed.ts` | `User` rows; logins at Supabase | register, update, ban, unban, delete; AuthGuard and RolesGuard before every handler |
| Session scheduling | `session/session.service.ts` | `Session` rows: start, end, host | create, update, delete, endSession, the clean-up cron, the overlap check |
| Attendance records | `session/session.service.ts` | `SessionAttendance` rows | recordAttendance, markAsAttended, recordLeave (nobody calls it), queries |
| Conversations | `conversation/*` | `Conversation`, `ConversationParticipant`, `Message` rows; socket rooms; what each client shows | create, direct, send, add/remove participant, update, delete, open, page, join and leave the room |
| Class queries, AI, grading, HTTP, DTOs, Supabase client | elsewhere | none, or a queue that is only sent to | reads, stateless calls |

How they interact:

* The gateway calls the connected-users manager for every membership question, the meet service for the
  stage, and the session service for attendance. The manager has no checks of its own.
* Sharing and drawing exclude each other by agreement of two handlers; each closes the other tool and
  *awaits* a LiveKit broadcast before it takes the stage.
* A recording is an egress at LiveKit and a row here. The row learns of the egress through the starting
  call, the stopping call, a webhook, or a backfill when somebody looks at it.
* Invite, payment, webhook, success page and teacher all create `ClassMember` rows; two of them also
  write `purchases`; joinClass also enters the class's conversation, or creates it.
* Enrolment decides who may enter a session, but it is asked when a socket joins and not again (`RoomAccess`).
* The guards read the caller's row before a handler runs, and the handler goes by what they read.
* The conversation service answers its request and leaves a push running, which reads again who is to
  get it; a client shows what it has read and what was pushed to it since.
* Whiteboard, canvas and chat share the clients' sockets, which keep the order of events, and nothing else.

What is hard about it: handlers that check, await and act (the stage, a kick, starting a recording,
enrolment, the overlap of sessions in time); a disconnect that overtakes its own join; reconnections, where two
sockets stand for one user; timers that race clearing; webhooks that are late, lost or repeated;
crashes between a call and the row that records it; lists, boards and drawings that are read and written
back whole; answers to a late joiner among the events that everybody gets.

What makes each component correct:

* Connected users: a user who is found is found under the socket of that user; a socket that is gone is
  forgotten.
* Meet gateway: only who passed the access check is present; screen and canvas have one user each and
  not both; a kick hits its target only; who stays five minutes is marked.
* Whiteboard, canvas, chat: clients come to show the same, and what is stored; nothing drawn, saved or
  said is lost to somebody who did not know of it.
* Recording: a row never claims more than its egress has done; a URL has a file; one recording at a time.
* Enrolment: a payment is honoured, and stays so; a member has one row and a seat in the conversation.
* Classes: a teacher has one row; a class is changed by who has the right to.
* Accounts: every row has a login and every login a row; an admin is left to ban and appoint.
* Scheduling: sessions of a class, or of a host, do not overlap; Attendance: one row per user and
  session, marked once.
* Conversations: one direct conversation per pair; nobody writes without a seat; what nobody takes part
  in is deleted; a message reaches every client that shows the conversation.

## 2. Modules

| Module | Models | Extends / uses |
|---|---|---|
| `ConnectedUsers` | the two maps of the manager and its methods, as actions on them | |
| `MeetGateway` | the live room: every handler that touches roster, stage or timers | EXTENDS `ConnectedUsers`, INSTANCE `CanvasLock` |
| `RoomAccess` | the live room while students lose and gain access to it; implements `MeetGateway` | EXTENDS `MeetGateway` |
| `CanvasLock` | the abstract specification of the canvas: a lock per session | |
| `AttendanceSheet` | the abstract specification of attendance: signed in once, marked after | |
| `Recording` | recordings: handlers, LiveKit's egresses and webhooks, crashes; implements `Archive` | INSTANCE `Archive` |
| `Archive` | the abstract specification of recordings: an archive that trails after LiveKit | |
| `Enrollment` | membership, purchases, payment, the class's conversation | |
| `SessionSchedule` | the sessions of classes: booking, moving, ending, deleting, the cron, over a small clock | |
| `Calendar` | the abstract specification of the schedule: what checking and writing in one step would do | |
| `Boards` | whiteboard, canvas and chat of one meeting: the stores, the sockets in both directions, what clients show | |
| `Conversations` | conversations, their participants and messages, the pushes, the clients | |
| `Accounts` | users, their logins, roles and bans, and the guards | |
| `Classroom` | classes, their teachers and codes, by users whose accounts change; implements `Accounts` | EXTENDS `Accounts` |
| `MC...` | the instance of each for TLC: who may do what, bounds, symmetry | EXTENDS the model, `TLC` |
| `...Proofs` | the theorems about each | EXTENDS the model, `TLAPS` |

All models have the same shape. A handler in progress is a slot of `requests`: a record with the
place it stands at (`at`) and what it remembers from before its await. *Receive* actions take a free slot
(or none, when the handler does not await), *Resume* actions go on from `at`; the code between two awaits
is one action. The number of slots is the number of handlers that can overlap. Awaits that nothing reads
or writes shared state around are merged. With `Failures` a query or call may fail wherever the code
awaits it; what a `catch` that only logs does is to go on.

Definitions keep the names of the code: `JoinTrack` is `join-room` up to `addConnectedUser`, `JoinRecord`
its call of `recordAttendance`, `JoinArm` the setting of the timer; `StartScreenShare` goes up to the
broadcast and `ResumeScreenShare` on from it; `CheckActive`, `LaunchEgress`, `CreateRow` and `NameRecording`
are the four steps of `startRecording`; `FindMember`, `ReadPurchases` and `CommitGrant` are
`recordPurchaseAndEnrollment`, whose transaction appears at its end. Below the heading "Mutated forms" each
model keeps variants of handlers with one plausible slip (a dropped check, a missing reset). They are no
part of the specification; they show that a property would notice the slip.

### MeetGateway

Memory: the roster, `activeScreenSharers`, `activeCanvasSessions`, `attendanceTimers` (the registry that
maps a user of a session to a handle), `timers` (what each handle's callback is for and whether it has
started), `attendance` (the row), and `connected` (open transports). Constants say who the queries let
in: `MayEnter` is `validateUserSessionAccess`, `Teachers` is `isTeacherInSession`, `Recorders` those for
whom `recordAttendance` does not throw. A socket never comes back: a reconnection is another socket.

`RoomAccess` composes the room with what a class does to it. `access` is who passes
`validateUserSessionAccess` now; `LoseAccess` and `GainAccess` are all that a room can tell of the handlers that
`Enrollment` has in detail (removing, leaving, joining, paying). `ValidateAccess` is that check as a step of its own,
as `join-room` awaits two more things between it and the roster. Every other step is one of `MeetGateway`,
in which a `join-room` only reaches the roster when it was `validated`; `MayEnter` is there who may ever have
access, and a refusal is a handler that failed. `overtaken`, not of the code, are the validated handlers whose user has
lost access since.

### Recording

`egresses` and `events` are LiveKit's: an egress goes STARTING, ACTIVE, ENDING and to an end, each change
adding a webhook; webhooks are delivered in any order, again, late or never. `recordings` is the status in
the row; `located` the rows that have a file; `recordingId` the session's metadata; `recordingUrl` the egress
whose file the session names. A backfill (from listing or opening a recording) asks LiveKit and writes what it
said, which may be old by then. `Crash` ends every handler where it stands.

`Archive` is what remains of that when handlers, webhooks and crashes are left out: an egress goes forward, and what
the server says of it is only ever written with something that has been true of it. `TrailsLiveKit` is its
specification, with the rows as `entries`, `located` as `filed`, `recordingId` as `current` and `recordingUrl` as `shown`.

### Enrollment

`members` are rows by id, so that a student can have two; the rows have no unique key in
`prisma/schema.prisma`. `checkouts` is what Stripe knows. A class whose creation failed halfway
(`Unfinished`) has no conversation, because `createClass` makes the class, its conversation and its seats in
separate queries. `Fail` is a failing query or a crash: the handler ends where it is, and a transaction that
had not committed leaves nothing.

### SessionSchedule

`sessions` are the rows, with class, host, start and end (`NoOne` for an open session); `now` is the clock. A
handler that moves or books a session goes through the two queries of `checkSessionConflicts` (class, then
host) and the write, each a step of its own. `updateSession` writes only the fields it was given, so a request
remembers which (`sets`) and whether the end was taken away (`opens`). The field `overtaken` is not of the
code: it collects the rows others have written since the handler began, so that a property can say what a
handler could not have seen. The week of the cron is the constant `Week`.

`Calendar` books and moves in one step, and only to where there is room. `SessionSchedule` does not implement it, as two
handlers may book the same time (TLC shows it at once with two slots). What is proved is that each step in which no running
handler has been overtaken is one of the calendar's, and that with one slot for handlers `SessionSchedule` implements it.

### Boards

`up[u]` are the whiteboard messages on their way from a client, `down[u]` the events on their way to it; a
socket keeps the order of both. `Shows` is what an event makes a client show, and `Ahead` what it will show
when it has got all that is in its queue: properties speak of that, as no client can show what is still on its
way. A handler that does not await (`HandleWhiteboardUpdate`, `HandleDraw`) is one action; one that reads or
writes the database is a slot. `HandleOpenCanvas` takes the canvas, `GetCanvasState` reads what is saved,
`ShowCanvas` sends it to all; `HandleCloseCanvas`, `SaveClosing` and `CloseCanvas` are close-canvas around its
save, and `DropCanvas` the close that saves nothing, of a client or for a shared screen. The code has nothing
like the following, which properties need to say what somebody could not have known: `blind` marks an update
that was made without having seen another, `crossed` the clients that show something else than the board;
`behind` and `stale` mark clients and handlers whose strokes may not be all that is saved, `following` the
clients that got every event of the canvas since the last that made all of them show the same; `unread`
those whose history could not be read. Elements have no versions here: a client sends *all* it shows, and the
code stores it as it comes.

### Conversations

`seats` are the participants' rows, `rooms` the sockets in a conversation's room, and `views` what a client
shows of a conversation it has open (null if it has not). One handler is up to six steps: `RemoveParticipant`,
`FindSeat`, `RemoveSeat`, `CountSeats`, `CloseConversation` and `TellRemoved` are the queries of
`removeParticipant` and the push at its end. After the write the request is answered while the push goes on;
to everybody else the two are one handler that is still busy. `overtaken` marks a handler that looks at a row
another handler has written since it began, `lost` the conversations a handler failed on after it had written;
neither is in the code. `members` and `JoinClass`, `LeaveClass` are as much of enrolment as `checkClassAccess`
and the class's conversation ask for; the rest is in `Enrollment`.

### Accounts and Classroom

An account is a login at Supabase (`logins`, by email) and a row (`users`) with the login's id, made one after
the other: `Register`, `SignUp`, `InsertUser`; the seed script does the same. Supabase answers a second
sign-up for a confirmed email with a made-up id, which is why `SignUp` may return one. `Admitted` is `AuthGuard`
and `RolesGuard`; each handler starts with it and ends by writing one row. `Classroom` adds the class: its
handlers keep the caller's role as the guard read it (`calls`), go through the queries of `createClass`,
`addTeacher`, `removeTeacher`, `regenerateInviteCode` and `deleteClass`, and never write an account.
`AccountStep` is any step of `Accounts`, so that users are banned or demoted under a handler's feet. Ghosts:
`overtaken` as above; `spoilt`, the emails whose account was deleted or registered in part.

## 3. Runs

| Run | What it checks | What it shows |
|---|---|---|
| `stage` | `TypeOK`, `EntryBacked`, `KickHitsTarget`, `ConflictNeedsOverlap`, `CanvasIsLock`, `GhostNeedsOvertakenJoin`, `ShareStolenOnlyAfterCanvas` | A teacher and an assistant with two sockets: the maps agree in one direction; a kick that awaited twice still hits its target; screen and canvas come to be used together *only* through an overlap inside an await or against an owner that cannot be reached; a dead socket is tracked *only* when its disconnect overtook its join; a share passes to another user *only* in a suspended start; the room implements `CanvasLock`. |
| `rooms` | `RegistryLive`, `EntryNeedsAccess` | Sockets moving between two sessions, one closed to the student, the other open while it is a member of the class: who is not in the room gets in only with access, or in a `join-room` that was let in before it was lost, so that a removed student stays while inside and does not come back; a registered timer is alive and of its own user. |
| `attendance` | `StayedIsMarked` (liveness), `OrphanNeedsOverlap` | Whoever's timer runs and who stays without joining again is marked, with two sockets and two timers in each other's way; a running timer loses its registration *only* to the end of a callback that was marking when it was set, or of another such orphan. |
| `recording` | `TypeOK`, `CheckSeesUnfinished`, `TrailsLiveKit` | Under failures, crashes and any order of webhooks, rows and sessions implement `Archive`: what they say is true, if late, and is not taken back. A start passes the check beside an unfinished egress only for the two reasons the property names. |
| `enrollment` | `TypeOK`, `DuplicatesBounded`, `AccessIsEarned`, `OvertakenJoinIsSeated`, `GrantLostOnlyToOverlap` | Rows of a student in a class are never more than handlers can overlap; who has a row, a purchase or a seat was invited, has paid, buys a free class or was put there by a teacher; a join that lost the race for the conversation has its student seated by the winner; a purchase is lost only to an overlapping grant. |
| `paid` | `PaidIsGranted` (liveness) | Once calls stop failing, every payment ends in ownership, without the success page. |
| `schedule` | `TypeOK`, `ClashNeedsOverlap`, `InvertedNeedsCause` | Two sessions of a class or host come to overlap *only* in a write that another overtook, that takes an end away, or that ends a session already over; a session comes to end before it starts *only* by an early `endSession`, an update of the start alone, or an update that was overtaken. |
| `boards` | `TypeOK`, `InStep`, `FollowersAgree`, `ChatNotMissed`, `ElementLostNeedsCrossing`, `SavedDrawingKept` | Two clients who draw, write, come and go while queries fail and the server restarts: a client comes to show the stored whiteboard unless its own update crossed another; an element is wiped out *only* by an update made without having seen all others; clients that were there at the last opening, wiping or closing of the canvas show the same; saved strokes go *only* by clear-canvas or a close-canvas from a client that did not show them; a stored message is on its way to everybody who does not show it. |
| `conversations` | `TypeOK`, `NobodysIsDeleted`, `RemovedIsTold`, `NothingMissed`, `StaleWriteNeedsOverlap`, `TwinsNeedOverlap` | What is written was allowed at that very moment *unless* another write came between check and write; a second direct conversation of two users takes overlapping creations, a conversation meant for more, or a removal; a conversation without participants is deleted or about to be; whoever was removed is told; a message reaches each client that shows the conversation, pushed or read. |
| `classroom` | `TypeOK`, `AccountHasLogin`, `AdminsGoneNeedsOverlap`, `TwinTeacherNeedsOverlap`, `ClassWriteNeedsRight` | A row has a login unless its email was used before; the last admin goes *only* by its own hand or between two handlers that overlap; a teacher gets a second row, and a class is changed without the right to, *only* in a handler that another one overtook. |
| `still_connected`, `deleted_conversation` | one property each, from a comment of the code | The code does otherwise: section 5. |

### Bounds

| Bound | Value | Why it is enough |
|---|---|---|
| `Requests` | 2 | Each known hazard is a race of two handlers; a third may be a disconnect, a timer, a webhook or LiveKit itself, none of which takes a slot. The theorems of section 6 need no such bound. |
| `Sockets` | 3 (`stage`), 2 elsewhere | Two users, one of whom reconnects; or one user with two tabs. |
| `Sessions` | 1, 2 in `rooms` | Sessions share nothing but sockets, and `rooms` moves sockets. Its student has access to one, which it loses and gets back without a bound; it has no teachers, as the canvas has no part in its properties. |
| `Timers` | 1, 2 in `attendance` | An old callback still marking while a new timer is set. A handle is free again when it is done. |
| `Egresses` | 2 | One running and one more. |
| `Rows` | 3, 4 in `paid` | One more than two overlapping handlers can make in one class; rows are reused once no handler remembers them. |
| Users, classes | 2 and 2 (`enrollment`), 1 and 2 (`paid`) | Two students race for a conversation; two classes race for one student's purchases. |
| `Ids` (sessions) | 2 | A clash is of two sessions. |
| `Starts`, `Ends`, `Horizon` | {0, 1}, {1}, 2 | Sessions before, after and across each other, open ones, and an end that comes while `endSession` is on its way. The theorems need no bound on times. |
| `Bookings` | one host, two classes | Any two bookings share the host, some the class too. |

| `Users` of `boards` | 2 | One whose update, join or close crosses another's. A third would see what the second sees. |
| `Edits`, `Strokes`, `Msgs` of `boards` | 2, 1, 1 | One element to lose and one to draw over it. A stroke is saved, sent and wiped on its own, and so is a message; once gone it may be drawn again. |
| Events on their way | 2 per client and direction; 3 in all for the whiteboard, 2 for the canvas | An update, and one that follows or crosses it. |
| `Bound` of `boards` | whiteboard, canvas or chat at a time; beside the first two, one reading of what a client missed | The three share only the order of the sockets, which the properties of each do not compare. |
| `Users`, `Ids`, `Msgs` of `conversations` | 3, 2, 1 | Two of a pair and somebody else; two conversations to be twins. |
| `Bound` of `conversations` | one conversation, of two users, with all that clients do; or two direct ones, of three users, with creations and removals | Handlers of different conversations meet in nothing but the search for a direct one, which the second half has. |
| `Ids`, `Emails`, `Rows`, `Codes` of `classroom` | 2 each, one class | Two admins at each other; a creator and another teacher; twin rows; an old code and a new one. |
| `Bound` of `classroom` | two handlers in all; accounts are made before the class, which has one student at most; beside it, one account is updated at a time; emails are confirmed while no class is there | To the handlers of a class an update of role and activity is any change of an account there is. |

Slots, timers, egresses and rows are interchangeable, and runs without liveness use that as symmetry.
Deadlock is checked in `schedule`, `conversations` and `boards`. The others may stop: every socket has closed, everything
was bought, everybody is banned and every email taken. No handler waits for another anywhere.

The three bounds above are constraints on states: TLC does not go on from a state outside, but checks it.
The runs of `boards`, `classroom` and `conversations` are the largest, of 1.0, 1.2 and 2.0 million distinct states,
beside `recording` with 1.4 million, which has no bound but its constants; their theorems need none of the bounds.

### Fairness

* `MeetGateway`: WF of each slot's `Resume` (Node resumes a handler whose promise has settled), of
  `TimerFire` and `TimerDone` (timers that are not cleared fire, callbacks end). Clients owe nothing.
* `Enrollment`: WF of each `Resume`; SF of `StripeWebhook` for each payment. Stripe repeats a webhook that
  was not answered with success; strong fairness says that some repetition finds a slot free, which it does
  again and again. `PaidIsGranted` assumes `CallsRecover`, that failures stop at some time; otherwise every
  repetition could fail.

## 4. Mutants

Each property of a passing run has a mutant in `PROJECT.json`, a handler replaced by one of the mutated
forms, under which the run finds the property violated.

## 5. What the code does not keep

Two sentences of comments have a run that shows the code doing otherwise.

1. **Reconnected users vanish** (`still_connected`). The disconnect of the old socket removes the entry the
   new socket has written. The user is connected, not found, and not marked as attended.
2. **A deleted conversation blocks joining** (`deleted_conversation`). `joinClass` takes a soft-deleted
   conversation for a missing one, and the unique `classId` refuses the new one, after the student has been
   enrolled.

More follows from the models, in which the properties name it as the exception, or was met while they were
written (paths below `src/src/`).

* Live room: access is asked for when joining only (`meet/meet.service.ts:332`), so that a student removed from the class
  stays as long as one of its sockets does (`EntryNeedsAccess`). Screen and canvas come to be used at once, as either start frees the other tool, awaits the
  broadcast and takes its own without looking again (`ConflictNeedsOverlap`). `leave-room` clears the share and not
  the canvas, a disconnect both. `recordAttendance` loads the class without teachers and members
  (`session/session.service.ts:910`), so that it refuses all but the host (the constant `Recorders`).
* Canvas: `closeCanvas` asks who has the canvas, awaits the save, and then frees whoever has it
  (`meet/meet.service.ts:863`). "Get current canvas state (for late joiners)" (`meet/meet.gateway.ts:1500`)
  answers with what was last saved, which has none of the strokes since. An entry of `whiteboardStates` is
  never deleted.
* Recordings: two starts both pass the check, as the row is written after the call that starts the egress
  (`CheckSeesUnfinished`).
* Payment: a purchase outlives the membership. Checkout answers that the class is owned, and the verification that
  the student is enrolled (`stripe/stripe.service.ts:43`, 165), to one who has left or was removed.
* Conversations: "in group chats, the first participant (creator) can remove others"
  (`conversation/conversation.service.ts:571`), but the kind of conversation is not asked, and whoever comes first
  without an order counts. The last participant cannot be removed according to the API's documentation
  (`conversation/conversation.controller.ts:393`); the service removes it and deletes the conversation.
  `participant-removed` does not say from which conversation, and the removed socket stays in the room.
  `emitConversationDeleted` reads participants "before deletion" (`conversation/conversation.gateway.ts:92`), after it.
* Classes: "Remove a teacher from the class (only creator)" (`class/service/class-membership.service.ts:278`) asks for no
  creator; `updateClass` asks for the role only. `deleteClass` fails while the class has a teacher, a student or a
  session (foreign keys are RESTRICT), and every class created whole has a teacher. `DELETE :id/students/bulk`
  (`class/class.controller.ts:746`) is never reached: `DELETE :id/students/:studentId` (205) comes first.
  `createClass` fails half-way when somebody opens the class's conversation before it does.
* Accounts: `POST /user` inserts the row that the guard has just required to exist, and so always fails. A deleted account
  keeps its login, its role and its memberships, and its email cannot be used again. The last admin may demote
  or deactivate itself in `updateUser`, or delete itself, but not ban itself (`AdminsGoneNeedsOverlap`).

The other properties state exactly how far things hold in spite of these: what an overlap is needed for,
and what no overlap can do.

## 6. Proofs

All theorems are for arbitrary constants, from the named assumptions of the models only
(`NoOneAssumption`, `GatewayAssumption`, `RecordingAssumption`, `EnrollmentAssumption`,
`ScheduleAssumption`, `BoardsAssumption`, `ConversationAssumption`, `AccountsAssumption`,
`ClassroomAssumption`): null is not an
id or a row, permissions are of known users; in `RoomAccess` that handlers may fail (`AccessAssumption`); in `Enrollment`, too, that finitely many handlers overlap and that
the creator is not a student. A few theorems have a hypothesis of their own, which they name: that a socket stays in one
room (`OneRoomPerSocket`), that finitely many handlers overlap, or that only one runs at a time (`OneAtATime`). The last
ones say what the code promises when nothing overlaps, so that what the other theorems excuse is due to overlap alone.

| Theorem | Property | Argument |
|---|---|---|
| `MeetGatewayProofs!TypeCorrect` | `TypeOK` | Typing is not inductive alone: a resumed handler writes what it remembers. `BasicInv` adds what each step of a handler and each phase of a timer knows (`RequestOK`, `TimerOK`). |
| `MeetGatewayProofs!Admission` | `AdmittedOnly`, of `MeetGateway`; no run of its own | `AdmittedInv` adds that a handler past its check is of a user who passed it, so what it writes when it resumes is admitted. `RosterStep`, `CanvasStep` and the like list the few ways in which a step can touch each part of the state. |
| `MeetGatewayProofs!CanvasLocked` | `CanvasIsLock` | Refinement: the initial states agree, and by `CanvasStep` each step opens a free canvas for a teacher, closes one, or stutters. |
| `MeetGatewayProofs!MapsAgree` | `EntryBacked` | Under `OneRoomPerSocket`; tracked sockets and joining handlers stand in `JoinRequests`, so a socket is not written over by another user. |
| `MeetGatewayProofs!RegistryIsLive` | `RegistryLive` | A handle that is free, or another's, is under no key: a timer is registered when it is armed, and every step that frees its handle drops or replaces the key of its user and session. |
| `MeetGatewayProofs!GhostsNeedOvertakenJoin` | `GhostNeedsOvertakenJoin` | Only a disconnect closes a socket, and it forgets it (`ClosedByDisconnect`, `DisconnectForgets`); `RosterStep` leaves the join as the one that tracks it. |
| `MeetGatewayProofs!KicksHitTarget` | `KickHitsTarget` | Under `OneRoomPerSocket`, by `RosterInv`: the socket a kick removes is tracked for its target in its session. |
| `MeetGatewayProofs!SharesStolenOnlyAfterCanvas`, `ConflictsNeedOverlap` | `ShareStolenOnlyAfterCanvas`, `ConflictNeedsOverlap` | `ScreenTaken` and `CanvasTaken` say in which steps a tool passes to somebody, and what that step saw of the other tool. |
| `RoomAccessProofs!RoomAccessImplementsMeetGateway`, `RegistryStaysLive`, `CanvasStaysLocked` | `Spec` of `MeetGateway`; `RegistryLive`; `CanvasIsLock` | Refinement: a step of the room is one of `MeetGateway`, the rest stutters; every theorem above then holds of `RoomAccess`, of which two are stated. |
| `RoomAccessProofs!EntriesNeedAccess`, `AccessType` | `EntryNeedsAccess`, `AccessTypeOK` | `AccessInv`: a validated handler stands at the same `join-room` still, of a user with access unless overtaken. `EnteredByJoin`, from `RosterStep`, leaves that handler as the only one that can bring somebody in. |
| `MeetGatewayProofs!OrphansNeedOverlap` | `OrphanNeedsOverlap` | By cases on what a step does to the registry: arming replaces the timer it clears, a disconnect stops the one it drops, and the end of a callback is the one step that drops a key it does not own. |
| `MeetGatewayProofs!AttendanceIsSheet`, `TimersHaveRows` | `Spec` of `AttendanceSheet`; no run of its own | Refinement: only `JoinRecord` signs in, for a user past the access check (`AdmittedInv`), and only the end of a timer marks; as rows stay, the timer that was set after one still finds it (`AttendanceInv`). |
| `RecordingProofs!TypeCorrect`, `CheckIsSound`, `RowsNeverAhead`, `FilesAreThere`, `NamesHaveRows` | `TypeOK`, `CheckSeesUnfinished`; `NeverAhead`, `FileIsThere`, `NamedHasRow`, which need no run of their own (see `ArchiveKeepsItsWord`) | One inductive invariant: statuses only go forward, and everything said of an egress, in a webhook, a handler or a row, has been reached by it (`Reached`). Lemmas show that LiveKit's moves and the three kinds of writes keep that. |
| `RecordingProofs!RecordingImplementsArchive` | `TrailsLiveKit` | Refinement, on the same invariant: each write to a row is with a status that was `Reached`, which is what `Enter` asks for; one lemma for each of the abstract steps that a handler's may be. |
| `RecordingProofs!ArchiveKeepsItsWord` | `NeverAhead`, `FileIsThere`, `NamedHasRow`, of `Archive` | The three are inductive for the abstract specification as they stand: it says all that they do. |
| `EnrollmentProofs!TypeCorrect` | `TypeOK` | With what each step knows of its request. |
| `EnrollmentProofs!DuplicatesStayBounded` | `DuplicatesBounded` | Rows alone are not inductive. A handler that is about to insert has seen the student without a row: rows and such handlers *together* are at most the number of slots (`CountedFor`). Each step empties the rows, adds none, or turns a handler into a row. |
| `EnrollmentProofs!AccessStaysEarned` | `AccessIsEarned` | With what a handler that is about to insert, grant or seat knows of why it was let in: an invite or a payment is not taken back. |
| `EnrollmentProofs!InOrderOneRowEach`, `InOrderNothingIsLost`, `InOrderNoJoinIsBeaten` | no run of its own | Under `OneAtATime`, that only one handler runs at a time: what it has read is what is there when it writes (`InOrderInv`), so that what the three properties excuse does not happen. |
| `EnrollmentProofs!OvertakenJoinsAreSeated` | `OvertakenJoinIsSeated` | `SeatInv`: a conversation is made once, by one handler, and its creator has no seat before the others; a join's row is its student's or gone, as ids are not used again; so the maker, who lists after it made the conversation, lists every join that was on its way. |
| `EnrollmentProofs!GrantsLostOnlyToOverlap` | `GrantLostOnlyToOverlap` | Only a committing grant writes purchases (`OnlyGrantWrites`). |
| `SessionScheduleProofs!TypeCorrect`, `ClashesNeedOverlap`, `InversionsNeedCause` | the three of `schedule` | What a handler has found stays true of the rows no other handler has written since (`Knows`): the row it read, the answers of the two queries, the order of its times. One lemma (`StillKnows`) shows that others' writes and deletions keep it; then each kind of write (`InsertClash`, `SaveClash`, `EndClash`) is excused or makes no clash. |
| `SessionScheduleProofs!UnovertakenIsCalendar`, `InOrderIsCalendar` | `Next` and `Spec` of `Calendar`; no run of its own | `Knows` again: a handler that was not overtaken has looked at the rows as they are, so that its queries and its write come to one step. Under `OneAtATime` nobody is overtaken. |
| `ClassroomProofs!AccountsType`, `AccountsKeepAdmin` | `AccountsTypeOK`, `AdminsGoneNeedsOverlap` | `AccountsInv`: a handler that has not been overtaken was let in by a row that still says so (`Entitled`); so an admin is at work, and it is not the one that is written unless it writes itself. Both are about `AccountsSpec`, without classes. |
| `ClassroomProofs!AccountsHaveLogin` | `AccountHasLogin` | `LoginsInv`: every login is of a row with its email, or of a request about to insert that row, unless its email is spoilt (`LoginOK`). |
| `ClassroomProofs!ClassroomImplementsAccounts` | `AccountsSpec` | Refinement: handlers of classes stutter, every other step is one of `Accounts`. `KeepAdmin` and `HaveLogin` then hold of `Classroom` for nothing. |
| `ClassroomProofs!ClassroomType`, `TwinsNeedOverlap`, `ClassWritesNeedRight` | the other three of `classroom` | `ClassInv`: what a handler has found of the caller, the class and the teacher's row holds until it is overtaken (`CallEntitled`); rows belong to classes that exist, which is the foreign key, and ids of rows are not used while a handler remembers them. |
| `ClassroomProofs!TwinsStayBounded` | no run of its own | If finitely many handlers overlap, which `Calls` says: the rows of a teacher in a class and the handlers that are about to insert one *together* are at most the slots, by the same counting as for `DuplicatesStayBounded`. With one slot there is one row. |
| `ConversationsProofs!ConversationsType`, `StaleWritesNeedOverlap`, `SecondDirectNeedsOverlap` | `TypeOK`, `StaleWriteNeedsOverlap`, `TwinsNeedOverlap` | `Inv`: each step knows what it has checked (`Known`), the kind of a conversation never changes (`RequestOK`), and one that does not exist has no seats and no views (`NothingYet`). |
| `ConversationsProofs!InOrderOneDirect` | no run of its own | Under `OneAtATime` and `DirectsAreForTwo`, that a direct conversation is asked for with one other user: a creation under way knows that the two have none yet (`PairInv`); nobody is added to a direct conversation, so those that are there only lose participants. |
| `ConversationsProofs!NobodysConversationGoes`, `RemovedHearOfIt`, `MessagesArrive` | `NobodysIsDeleted`, `RemovedIsTold`, `NothingMissed` | With `Inv` each is inductive. Every step either leaves the handler that stands for the promise alone (`Bears`, `Leaving`), moves it to the next step that does, keeps the promise, or fails and marks the conversation `lost`. |
| `BoardsProofs!BoardsType`, `MessagesReachAll` | `TypeOK`, `ChatNotMissed` | `TypeInv` adds what each step of a handler remembers and that a client outside has empty queues; `ChatInv` is the property, shown step by step. |
| `BoardsProofs!FollowersShowTheSame`, `SavedDrawingsStay` | `FollowersAgree`, `SavedDrawingKept` | `CanvasInv`: a client that is not `behind` comes to show all that is saved, a handler that is not `stale` holds it. Two lemmas on queues, that an event at the end adds to `Ahead` what it shows (`AheadAppend`) and that a delivery leaves `Ahead` as it is (`AheadTail`), turn each event into a change of what clients will show. |
| `BoardsProofs!CanvasIsRoomsLock` | `Spec` of `CanvasLock`; no run of its own | Refinement: `HandleOpenCanvas` takes a free canvas, `CloseCanvas`, `DropCanvas` and a restart free it, all else leaves the holder alone. So the two models of the room agree on it. |
| `BoardsProofs!ClientsInStep`, `ElementsLostByCrossing` | `InStep`, `ElementLostNeedsCrossing` | `BoardInv`: the updates on their way from a client grow, an update that is not blind contains the board, and its sender has not crossed; while there is no board nobody has. |

Only model-checked: the liveness properties `StayedIsMarked` and `PaidIsGranted`, as fairness is beyond the
prover.

## 7. Not modelled

* Media controls: they check once and relay a wish to a client, or call LiveKit; no state depends on them. Nor is the
  list of participants, which only reads.
* Inside modelled components: who may record or change a session (decided before anything is read); the texts of
  messages and errors; names and avatars; a class's other fields, which `updateClass` and `updateClassSettings` write;
  a session's fields that are not times; `removeUser`, `recordLeave` and the class chat of `MeetService`, which nothing
  calls, and with `recordLeave` the duration of attendance.
* What is sent over LiveKit beside the socket: the same events, which clients are free to ignore.
* A restart in `MeetGateway`: nothing in the code recovers the roster and the timers, so there is nothing to hold.
  `Boards`, whose clients and database outlive the memory, has it.
* Teachers who lose a class while they teach, and sessions deleted while people are in them: `Teachers` does not change, and
  only students lose access.
* Queries, AI, grading, HTTP, DTOs and the Supabase client: no state of their own, or a queue that is only sent to.

## 8. Plan

1. `RoomAccess` with teachers who are removed and sessions that are deleted.
2. An abstract specification of ownership ("granted once paid, never taken") for `Enrollment`.
3. What `Classroom` and `Boards` promise of one handler after the other, as for `Enrollment`, `SessionSchedule` and
   `Conversations`.
4. The remaining fields of classes, and the duration of attendance once something calls `recordLeave`.

Runs to come are to be merged with existing ones where they ask the same question of the same instance.

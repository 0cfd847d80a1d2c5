# OKS Manager backend: TLA+ models and proofs

OKS Manager is the backend of a system for driving schools: an Express service
in TypeScript that keeps everything in one Postgres database through Prisma and
delegates passwords and tokens to Supabase Auth. Several instances of it may
run against one database, and every request is a sequence of awaited database
and Auth calls, so any two handlers interleave between two calls. What the
program guarantees rests on what it does inside which transaction, and that is
what the modules of this directory model.

Paths below are relative to `src/src/` of the repository unless they start with
`context/`, `docs/` or `prisma/`.

## The system: components, state, operations

| Component | State it keeps | Operations that change it | What is hard |
|---|---|---|---|
| Schedule write transaction (`services/schedule-validation/transaction.ts`) | none of its own | `runScheduleWriteTransaction`: SERIALIZABLE, three attempts, then 409 | retries must start over from a new snapshot and must end |
| Lessons (`services/lesson`, `lib/lesson-scheduling.ts`) | `lessons` rows: student, instructor, vehicle, course, window, status | `bookLesson`, `bookOwnLesson`, `updateLesson`, `cancelLesson`, `cancelOwnLesson` | no instructor, vehicle or student twice at one time; no more hours than the package; nothing in the database backs this up |
| Events and participants (`services/event`) | `instructor_events`, `event_participants` | create, patch, bulk status, soft delete; assign, replace, remove participants | event rows are read before the transaction that relies on them |
| Instructor availability (`services/instructor-availability`) | weekly hours, exceptions, leaves, blocks | weekly and exception upserts; `computeDayWindows` is the pure algorithm every write consults | interval subtraction at its boundaries, minutes against instants, days and time zones |
| Schedule preflight and options (`services/schedule-validation` except the transaction) | none | read-only copies of the write checks, and the matrix of bookable slots | must agree with the write path |
| Vehicles (`services/vehicle`) | `vehicles`, `driving_schools.default_vehicle_id` | create, patch, status, delete; expired unavailability is repaired on read | deleting a vehicle races booking it, adding others and making it the default; the repair races a new status; two calendars decide whether an unavailability is over |
| Driving schools (`services/driving-school`, `services/oskContext.ts`) | `driving_schools`, `users.default_osk_id`, settings | create, update, delete, set default school and vehicle, reconcile the default | counting schools outside the transaction; the default must name a live school |
| Courses (`services/course`) | `courses`, `course_participants` | create, patch (serializable), delete when empty, enrol, participant status | a course may change kind or be deleted while someone enrols or books |
| Students (`services/students`) | `student_profiles`, `student_schools`, `payment_plans`, `payments` | transfer to another school, PKK and notes, payments | transfers race account changes and payments: all lock the user's row |
| Instructors (`services/instructor`) | `instructor_profiles`, `instructor_schools`, qualifications | patch, qualifications, change of school, soft delete | obligations are checked against a schedule that keeps changing |
| Manager accounts (`services/managerAccounts.service.ts`, `services/manager-accounts`) | `users`, `account_actions`, Supabase Auth | profile, block/unblock, archive, password reset, two-phase e-mail change, reconciliation | local state and Auth change in separate steps, either may fail, handlers die in between |
| Account sessions and authentication (`lib/accountSessions.ts`, `middleware/auth.middleware.ts`, `controllers/auth`) | `account_sessions` | login registers a session; refresh and every request consult it; logout, recovery and account changes revoke | a session registered after the revocation that should have ended it |
| Registration (`controllers/auth/register.*`) | `users`, profiles, Supabase Auth | create in Auth, then persist locally with role profile and school | an Auth user whose local row was never written; two registrations of one e-mail |
| Login rate limit (`services/loginRateLimit.ts`) | `login_rate_limit_buckets` | reserve an attempt in the account's and the client's bucket | both budgets or neither, across instances |
| Security events (`services/security-events`) | `security_events`, `security_detection_states`, `security_monitor_health` | record, detect repeated failures, prune, health reports | events commit out of order, workers skip locked states, retention deletes underneath, a failure that could not be reported must not be forgotten |
| Security event list (`services/security-events/list*.ts`) | none; a signed cursor in the client's hands | read a page, older or newer | rows arrive and disappear between two pages |
| Lesson ratings (`services/lesson-rating`) | `lesson_ratings` | create once per completed lesson | none that is reached: only the development seed completes lessons |
| Read models (`services/schedule`, `services/school-availability`, `services/manager-attention`, list and detail queries, `services/meContext.service.ts`) | none | none | queries only |
| Audit reset (`services/auditReset*`, `services/auditFixtures.service.ts`) | every table; a signed confirmation in the client's hands | preview, partial and full reset, fixture seed | what is deleted is decided minutes after it was shown, on a database in use |
| Development seed (`services/devResetSeed*`) | demonstration data | wipe and seed | not part of the running product |
| HTTP shell (`routes`, `schemas`, `swagger`, `middleware`, `lib/http`) | none | validation and mapping of errors | none that a state machine shows |

How they interact: lessons and events meet in one schedule, because each checks
the other's rows for the same instructor, vehicle and student; both depend on
courses (package and kind), vehicles (active, supported categories) and
availability (working windows). Account changes, transfers and payments meet on
the lock of the `users` row; vehicles, default vehicles and courses on the lock
of their own rows, and on the foreign keys of what refers to them. Login meets account changes on `account_sessions`
and `account_actions`, and feeds the security events, from which a worker
derives alarms. There are no queues besides the detection states, no events
between components, and no callbacks other than Prisma's transaction bodies.

`PROJECT.json` lists every component with its status and, under `hazards`, each
place where this code could go wrong in a way a test would hardly reach.

## Modules

| Module | What it is |
|---|---|
| `Schedule` | lessons, events and participants, with the transactions they run in |
| `Reservations` | the abstract specification lessons implement: owners holding resources in windows, never two at once |
| `Options` | the read side of the schedule: free windows, the options of the forms, a student's slots, the preflight of an edit |
| `MCSchedule` | instances of `Schedule` and `Options` for TLC, one request mix for each question |
| `ScheduleProofs` | the theorems about the lessons of `Schedule` |
| `EventProofs` | the theorems about the events of `Schedule` and about `Options`: free windows, forms, slots, preflights |
| `Accounts` | accounts, sessions and what a manager changes about them, with Supabase Auth as the second store of the e-mail |
| `MCAccounts` | instances of `Accounts` |
| `AccountsProofs` | the theorems about `Accounts` |
| `Detection` | recording of failed logins, the workers that turn them into alarms, and the retention sweep |
| `MCDetection` | instances of `Detection` |
| `DetectionProofs` | the theorems about `Detection` |
| `Office` | the tables, row locks and handlers the parts of a school's office share |
| `Fleet` | vehicles, driving schools, default vehicle, default school |
| `Courses` | courses and enrolments |
| `Booking` | who may book what with whom, the preflights and the lists of the forms; extends `Fleet` and `Courses` |
| `Staff` | qualifications, moves between schools, archiving, payments |
| `DrivingSchool` | their composition and the properties between them |
| `MCSchool` | the scenes of `DrivingSchool` for TLC |
| `FleetProofs` | the theorems about the default vehicle |
| `CourseProofs` | the theorems about deleted courses, the category of a course, the vehicle of a lesson, and preflights and lists |
| `PeopleProofs` | the theorems about moves between schools, the default school, payments, and the types of all tables of the office |
| `Desk` | the clock the next five share |
| `LoginLimit` | the two budgets of the login rate limit |
| `Health` | health reports of the security log |
| `SecurityLog` | paging through the security events |
| `Registration` | registration in Auth and in the database |
| `AuditReset` | previews, confirmations and resets of an audit database |
| `DeskParts` | the five side by side, a scene for each |
| `MCDesk` | a small instance of each |
| `DeskProofs` | the theorems about the five parts of the desk |

### Schedule

A *client* is one request handler. Its `phase` is where it stands: `idle`,
`received` (about to make the reads the code makes before its transaction),
`ready` (about to run the transaction's body, or its single statement) and
`open` (the body ran, its commit is pending). `prep[c]` is what those early
reads returned; the body uses it exactly where the code uses a variable
captured before the transaction: `updateInstructorEvent` merges into
`current`, `assignStudentsToEvent` compares with `event.capacity` and
`event.startTime`. `updateLesson` re-reads everything inside, and `prep` holds
only the row the user had on the screen, which `expectedLessonState` quotes.

A transaction body is one action, evaluated on the state at which it begins:
that is its snapshot. It either answers with the error a check throws
(`Rejected`) or leaves in `tx[c]` the rows it will write together with a
footprint: the predicate reads its checks made and the claims its rows make,
as resources (a student, an instructor, a vehicle, a package, the seats of an
event, the row of an event) with windows. `since[c]` collects the footprints
committed by others after the snapshot. `Commit` is enabled unless `MustAbort`:
a row it writes was changed since the snapshot, or the two transactions each
read what the other wrote. `SerializationConflict` is P2034: allowed
whenever another transaction is around, retried up to three times
(`attempt`), then answered. `Fail` is any other error or a crash: nothing is
written.

Postgres is external and is under-constrained on purpose. The commit rule
allows everything Postgres' SERIALIZABLE allows and more: it forbids a cycle
of two read-write dependencies, and leaves longer cycles, which Postgres
breaks, to the model's freedom. A safety property that holds here
holds under Postgres. `cancelLesson`, `deleteInstructorEvent` and
`removeStudentFromEvent` are single READ COMMITTED statements in the code, so
they take effect at once and leave only the rows they changed in the footprints
of others.

Times are instants: `z.string().datetime()` accepts seconds (`schemas/eventWrite.schemas.ts:9`,
`schemas/lesson.schemas.ts:25`) and nothing removes them. A tick of the model is
the finest instant it tells apart, and `Minute` ticks make a minute. Each part of the
code is modelled with the scale it computes on. The overlap queries of lessons,
events, participants and vehicles compare instants (`Overlaps`, `Busy`), and so
do the checks of lengths and of the past. `assertInstructorTimeWindowAvailable` and
everything computed from `timeWindowFromDates` drop the seconds
(`MinuteOf`, `TimeWindow`, `InHours`). A package counts each lesson rounded to a minute
(`Minutes`, `Booked`). Settings, working hours and the forms are in whole minutes.

What is abstracted: windows lie in one day; roles,
ownership, qualifications, course membership and vehicle categories are reduced
to which requests exist; the working hours of an instructor are one window
(`Hours`), from which `computeDayWindows` also subtracts what is used already: that the
overlap queries beside it refuse all it would refuse is one direction of
`FreeToTheMinute` of `Options`; a lesson that is not
cancelled is SCHEDULED, because no operation of the code writes COMPLETED or
NO_SHOW on a lesson.

### Reservations and the refinement

`Reservations` knows neither handlers nor transactions: `held` is a set of
`[owner, res, win]`, and a step lets one owner change what it holds so that no
two owners hold the same resource in overlapping windows. `Schedule` maps each
uncancelled lesson to the reservations of its student, instructor and vehicle;
`LessonsAreReservations` says every step of the system is one such change or a
stutter.

### Options

`Options` extends `Schedule` and adds no variable: what a form offers
(`LessonOptions`, `NewEventOptions`, `EventOptions`), what a student is shown
(`SchoolSlots`) and what the preflight of a filled-in form answers
(`LessonEditAvailable`, `EventEditAvailable`) are functions of the tables and
the clock. The code computes each of them apart from the write path: it
subtracts used windows from working hours (`Subtract`, the loop of
`subtractWindows` with its cursor, a local recursive function) where the write path asks for overlapping
rows, and it repeats the conditions of an edit in a second file. It also
computes on another scale: used windows lose their seconds before they are subtracted
(`UsedMinutes`), a lesson hides slots from its minute on for its exact length
(`BusyInterval`), and only the vehicles of a slot are looked up by instants
(`VehicleFits`). The properties compare the two in the same state: `UpdateLessonAllowed`,
`UpdateEventAllowed`, `CreateAllowed` and `LessonWindowAvailable` are the very
operators the actions of `Schedule` are guarded by.

An answer does not depend on the handlers under way, and each of them may end
at any time without a trace, so every combination of tables and clock is
also reached with all of them idle; the properties are evaluated there
(`Quiet`). The preflight of a new lesson, a new event and an own booking is not
a definition of its own, because it calls the functions the write path calls
(`assertLessonSchedulingWindowAvailable` and its like). What an answer is worth
once the state has changed is the matter of `Schedule`: saving checks
everything again.

The exceptions are written into the properties because the code has them:

* an offer begins at a minute, and a row that ends some seconds into that minute is not in
  its way but in that of saving (`RunsOver`): an event until 11:00:30 leaves 11:00 on
  offer. It is the only difference the seconds make, because a row that begins
  within a minute is used from the beginning of that minute;
* the options keep a start at the current minute, saving refuses it (`w.from > now`);
* preflight refuses a lesson under way, saving still lets it change its vehicle
  (`NotStarted`);
* the forms of an event do not look at its capacity, saving does (`FitsCapacity`);
* the slots look at the lessons of a student, not at the seats in events, a booking at both;
* a theory event that was made a drive keeps its participants: the form of a drive
  does not ask about them, saving does;
* an event that was edited may lie across a lesson of its instructor, its vehicle or a participant
  (which is why `UneditedEventsHold` has its condition), and then hides the lesson's own window
  from its form (`Untangled`).

The last two came to light when the properties were to be proved: the stronger
statements held in the instance of the time, which edited no event. In the other
direction seconds hide nothing: what is left of a row without them is no more
than the row (`SavableLessonsAreOffered`), and the edit forms, whose own windows are in
minutes (`FormWindows`), ask the overlap queries themselves (`PreflightAgreesWithSave`).

Abstracted: one day, so no leave or exception chooses the hours and no clock
changes; vehicles are all active and of the right category; time blocks of
instructors, which only the development seed writes; filters, sorting and
paging of the slots; that a form without a vehicle lists those that have an
option.

### Accounts

A client is one request handler again, `phase[c]` the step it has reached and
`prep[c]` what it carries from one step to the next. An action is what the code
makes atomic:

* one transaction under the row lock of the user, which is what serializes
  `registerAccountSession` (`Register`), blocking and unblocking (`SetActive`),
  `Archive`, the opening of a reset or an e-mail change (`BeginReset`,
  `BeginChange`) and `finishEmailAction` (`FinishChange`);
* one statement outside any transaction: `Logout`, `RevokeSessions` of a
  password recovery, the soft delete of an instructor by an administrator
  (`Deactivate`), each status written to an action
  (`NoteAnswer`, `FinishFails`, `MarkFailed`, `CloseReset`), and each of the
  three reads of `authMiddleware` (`ReadUser`, `ReadSession`, `ReadPending`),
  which `refresh` makes in the same order;
* one call of Auth: `CallAuth`, `SendReset`, `AskAuth`.

`Fail` ends a handler between any two steps and undoes nothing: it stands for a
refusal the model leaves out (role, scope, obligations), an error, and a crash
of the server. Auth keeps `authEmail` and refuses an e-mail another of its
users has. `LossyAuth` says whether its answer may be lost after it did what
was asked; `CarefulRepair` whether managers only reconcile a change whose own
request is over. `Expire` is the passing of the five minutes after which
`requireAvailable` ignores a password reset; the model lets it happen only when
the reset's own handler is gone, that is, it assumes that Auth answers or fails
within five minutes. `seen` and `stale` are history variables: whether the
session of a request was usable at some moment of it, and the sessions that
were open when their account was deactivated.

Two unique indexes of the database are part of the model: one open e-mail
change per account (`OnlyPending`), and one unarchived user per e-mail
(`EmailFree`).

### Detection

A *writer* is one `recordSecurityEvent` of a failed login. `Receive` computes
its keys (`detectionKeys`: the account and the address, globally and for each
school), `LockState` is one upsert of the loop over the sorted keys, seen from
outside: it waits for the row and holds it until the end of the transaction.
What the transaction writes is visible to nobody before, so `Record` makes
the event, the upserts and the rewinds in one step, at the commit. A *worker*
is `processOne` on one instance of the server, and a *key* one row of
`security_detection_states`. `Pick` takes the pending state with the oldest
activity among those nobody holds (`SKIP LOCKED`), with the 20 (`BatchSize`)
oldest logins after its cursor; `Examine` is one round of the loop, and
`Finish` the update of the state with the commit. The rounds are separate steps
although nobody sees them, because the sweep deletes events of a state a worker
holds, so what a count finds depends on when it is made. The *sweep* is
`pruneExpiredSecurityEvents`: batches of events, then the one `DELETE` of idle
states, which is three kinds of steps: `FindIdle` (its snapshot), `LockIdle`
(a row is locked when it is free and looked at again if it changed) and
`Forget`. `RecordFails`, `WorkerFails` and `SweepFails` are errors, time-outs
and crashes; each rolls back what its transaction did.

A login has the keys it queues (`detectionKeys`) and the keys whose queries find it
(`subjectWhere` with the projection of schools): `Announced(k)` are the logins that
queued `k`, `Of(k)` those its worker loads and counts. They are the same for
the keys of accounts and addresses. For the hash of an e-mail they are not: the hash
finds every login with that e-mail (`detection.ts:40`), and a login of a known account
queues only the account (`record.ts:89`). Such a login is committed without the lock
of the hash, while a worker may hold it, and neither rewinds nor wakes it; the worker
counts it, and may raise an alarm for it, when some other login has woken it.
`NothingForgotten` and `BurstsRaiseAlarm` are therefore about logins that queued the
key, and a burst that only a login of a known account completes may stay without an alarm
of the hash: four failures for an unknown e-mail and a fifth when it has its
account. Nothing in the repository promises that alarm; the account counts that login
by itself. Identifiers are numbers in place of random UUIDs; only their
order among logins of one moment matters, and the instances mix it with the
order of time. A moment before the first is `-1`, and `Start` is the missing
cursor of a new state. Duplicates (`P2002`) concern events without keys. A
login is received at most `Window` after what the sweep may already have
deleted: retention is 90 days, a window ten minutes, and `occurredAt` is the
clock of the server.

### The office: Office, Fleet, Courses, Booking, Staff, DrivingSchool

Most handlers of the office are READ COMMITTED: they check something, perhaps
lock a row, check again, and write. A handler is therefore a record `[req, step,
saw]`, a step one statement, and `saw` what the handler remembers of earlier
statements. `locked` holds the row locks: `Take` is `SELECT ... FOR UPDATE` (or
the first update of a row that is held to the end), `Free` says that a row can
be updated or referenced by a new row, `Finish` ends the transaction. All
effects of a transaction are made by its last step, so `Fail`, any refusal,
error or lost connection, only drops the handler and its locks. What a handler
does before its transaction is in its `...Begin` action, together with the
arrival of the request.

Four handlers are serializable instead: a booking, a change of a vehicle, a
patch of a course, the insert of an event. They look at one snapshot (`...Check`), and
their write is enabled only while what they read and what others may write
agree (`...Stale` negated; otherwise `...Retry`). Only a serializable writer is
seen that way: an enrolment or the deletion of a vehicle is none, and meets
the others only by the row locks and the trigger
`assert_course_is_active_for_reference` (`GuardCourse`).

`archivedIn` of a student is the school the last archive was made in: the code
keeps it as the `school_id` of the ARCHIVE row of `account_actions`. It is there
because an archived student need not stay where the archive happened:
`moveStudentToDrivingSchool` asks whether the student is active before its
transaction only (`services/students/profileMutations.ts:28`), so a move that
was under way can carry an archived student to another school, or back to the one
that is still owed money. `PaymentsSettleable` therefore speaks of the school of
the archive: a student lost to an open payment was archived by *another* school,
whose debts were the only ones the archive asked for.

`Booking` has the eligibility of a lesson or an event: owner, membership,
qualification, category, place in the course, vehicle. The time is free is the
subject of `Schedule`. Beside the actions are the preflights and lists, which the
code writes a second time: `LessonPreflight`, `SelfBookPreflight`,
`EventPreflight`, `OfferedPairs`, `OfferedVehicles`. Half a day is one tick,
because the code has two calendars: the day in UTC (`UtcDay`) and the day in Poland
(`PolishDay`), which begins earlier.

An edit of a lesson (`updateLesson`) is no request of the office: it writes instructor,
vehicle and window in a serializable transaction of its own, which is `Schedule`, where
vehicles are always active and suit every course. `LessonsKeepVehicle` is therefore about
lessons as they were booked, not about a vehicle chosen in an edit.

Abstracted: one link per person to a school (the schema has a unique index for
it); hours, dates and names of a course are the flag `plan` of a structural
change; time blocks and places on events are no obligations here; a payment has
the course of its plan from the start; names, plates, photos, PKK numbers and notes.

### The desk: LoginLimit, Health, SecurityLog, Registration, AuditReset

Five parts that share a clock and nothing else, each with its own `Spec`.

* `LoginLimit`: a try locks its budgets in the order of their hashes, takes from
  each in memory of the transaction, and commits both or none. `CommitTry` may lose
  its answer, `BreakTry` is a timeout or an error, and no transaction outlives
  `LoginTimeout` (1.5 s).
* `Health`: a report remembers a failure in its process first and writes it with an
  upsert that keeps the latest of each time; several may be under way. A process
  in `Restarting` may lose its memory; a manager's question reads the rows and
  then the memory, in two steps, as the code does.
* `SecurityLog`: events are taken a time from at their beginning and become visible
  at their commit, so they may appear behind a reader; `LogPrune` removes the
  oldest. `Found` is the query of a page, `Page` the cursors made from it.
* `Registration`: the steps of `register.handler.ts` in both stores, beside
  deletions of schools and an e-mail change (whose own protocol is `Accounts`).
  A registration may stop after any step, and an answer of Auth may be lost.
* `AuditReset`: preview, confirmation, the advisory lock tried once, the preview
  made again under it, the two halves of a partial reset (what is to be kept is read
  before the deletions, users go last) and the `TRUNCATE` of a full one, which
  waits for every other transaction. `EditLimit` bounds what other users do meanwhile.
  Previews compare numbers of rows, and so does `PreviewHonoured`. A reset asks for an
  active administrator before it starts (`services/auditReset.service.ts:153`); accounts are
  not blocked in this module, so `AdminRemains` is about the rows of administrators.

## Runs

There are twelve. A run answers several questions: its MC module holds a *mix* of
requests (or a *scene*, which is also what the tables hold at first) for each
question, and a behaviour draws its requests from one of them. In that way each
question keeps an instance of its own, as small as it allows, and one state
space holds them all.

| Run | Questions | Answer |
|---|---|---|
| `schedule` | can bookings, own bookings, moves, vehicle and instructor changes and cancellations of three lessons double-book anyone, overrun a package, revive a cancelled lesson, or change an instructor nobody looked at? can creations, patches, cancellations and deletions of two events, changes of their participants and a competing lesson overlap or overfill what was never patched? | no |
| `forms` | do the free windows, options, slots and preflights agree with what saving would do, for every instructor, vehicle, student and window? is every request answered although transactions conflict? | yes, with the exceptions listed under *Options* |
| `capacity` | does an event never have more participants than its capacity, as `context/events-schedule-api.md:429` says? | no: a PATCH that lowers `capacity` between the read of the event and the transaction of an assignment is missed |
| `moved` | is a student never in two places at once, as `lib/lesson-scheduling.ts:72` says? | no: an event moved between that read and the transaction takes the new participant to a window nobody checked |
| `accounts` | can a session survive a deactivation of its account, or a request get in whose session was never usable while it was checked? can Auth and the database disagree about an e-mail with nothing on record, or a reset mail go to an address Auth no longer has? | no, as long as a repair waits for the change it repairs and no answer of Auth is lost |
| `repair_race` | and if the repair does not wait? | a repair that finds the old e-mail in Auth, because the call is still under way, sets the action to FAILED; the call then succeeds, its handler dies, and the two e-mails differ with no open change |
| `detection` | can a burst of failures stay without an alarm, or get two, because its logins are committed out of order and cut into batches? can a login be taken for examined that was not, with failures and sweeps in between? can writers and the worker wait for each other? is every waiting key worked off? | no, no, no, yes |
| `sweep_stuck` | can normal writes continue while the sweep deletes, as `services/security-events/retention.ts:5` says? | not always: the `DELETE` of states locks rows in the order of its scan, a writer in the order of its keys |
| `office` | do twenty-two scenes of two handlers each, see below, keep what `DrivingSchool` states? | yes |
| `left_behind` | is an instructor with obligations never moved, as `docs/ONE_SCHOOL_MEMBERSHIP.md:64` says? | no: they are counted before the transaction, and nothing that creates one takes the lock of the move |
| `changed` | does the refusal "Instructor school changed; retry the operation" mean what it says? | no: an instructor whose only school was deleted can never be moved |
| `desk` | do the five parts of the desk keep what their modules state? | yes |

### Schedule and forms

`schedule` uses three handlers, `forms` two, both one course and a day of five or six
minutes. A minute has two ticks, which is enough for seconds to matter: every window
begins and ends on a minute or within one, and dropping the seconds and rounding to a
minute differ. The mixes have a lesson and an event of each kind that begin or end within a
minute. The clock jumps to the ticks of `Moments`, on a minute and within one, which
lie before, inside and after what is booked. That is enough for the hazards at hand: each needs two handlers that
overlap, or a third that commits between the snapshot and the commit of another,
on the same or on overlapping windows (the mixes contain equal, nested,
overlapping and touching ones). At most four requests are submitted in a
behaviour (`MaxRequests`), and the clock ends with the last of `Moments`; both bounds stop the
behaviour, which is why the configurations set `CHECK_DEADLOCK FALSE`. That no
handler gets stuck before that is what `EveryRequestAnswered` checks.

`forms` has two lessons of two students that can share an instructor or
follow each other, a theory event with a participant and a drive, instructors
with different hours, and a package of five minutes, so that moves, the package
and each kind of conflict restrict what is offered; the windows asked for are
all 78 of the day for the free windows and the options, and the 21 in whole minutes a
form can hold for the preflights. Its second mix is for liveness: requests whose transactions
all conflict, with two attempts (`MaxAttempts`) instead of the code's three, so
that the last one is reached early. In the third a theory event is moved and made
a drive while a student takes a seat and books a lesson for the time it moves to; without
the last two exceptions of *Options* the properties fail there.

The two properties of events in `schedule` are stated for events that were not
updated since their creation (`touched`), which is the strongest form that
holds. `capacity` and `moved` are violations of what the repository says of
itself. Both come from the same pattern, an event row captured before
`runScheduleWriteTransaction`: the retry re-runs the body with the captured row
and the serializable isolation cannot see the dependency, because the read is
not part of the transaction. `context/events-schedule-api.md:222` accepts
races between two PATCHes as a limit of the first version; it says nothing of
participants.

### Accounts

`accounts` has two accounts, three handlers, two session ids, two action rows,
three e-mails and five requests: a sign-in that overlaps a block, an unblock and
a third handler is the longest chain the properties of sessions need; a change,
its failure, its repair, a second change and a reset the longest of e-mails.
`repair_race` needs only three requests. Both stop at `MaxRequests`, hence
`CHECK_DEADLOCK FALSE`. With `LossyAuth = TRUE` the property `DivergenceIsRecorded`
fails as well: when only the answer of Auth is lost, the handler takes the
error for a refusal (`services/manager-accounts/emailChange.ts:90`) and sets the
action to FAILED although Auth has the new e-mail. `AdmittedWasUsable` asks for
one moment at which the session and the account were usable together. The three
reads happen in an order (account, session, open changes), so a stronger claim,
that a request is admitted only while no e-mail change is open *and* its session
is live, does not hold: a change that finishes between the second and the third
read has revoked the session already.

### Detection

The first mix has four logins against one account, two of them at one moment and
two from one address, a window of two ticks and a threshold of two: each login
makes a burst with the one before it, the last is a window after the first, so
an alarm of one can wrongly stand for another or be raised beside it. Batches of
one make every examination a transaction others can come between, and the two
writers share both keys. The second mix has failures for an e-mail one of which is made when the
e-mail has its account: it queues the account, counts for the hash as well, and makes a burst
with each of its neighbours, of which the one with the last would be none without it.
In these two mixes the sweep sleeps. In the third it may
start again with a later cutoff, with three logins of two keys and one failure
anywhere; only one of the two idle keys is used again, because with both the
writer and the sweep can wait for each other, which is `sweep_stuck`. Every
login is reported once and time ends at `Latest`, so a behaviour ends when all
is done: `CHECK_DEADLOCK FALSE`. That nobody waits for a lock for ever before
that is `WritersGoOn`.

### Office and desk

A scene of the office is a set of tables and three or four requests that arrive
in any order on two handlers, so each scene has every interleaving of every two of
them, followed by the rest. The scenes put together the requests that meet in a row: vehicles
added, chosen and retired with the school itself deleted; a vehicle booked,
cancelled, retired and changed; a course enrolled in, booked, changed and
deleted; the default school while schools come and go; an instructor and a
student moved by an administrator and by their manager, archived and paid for. The
clock runs over three ticks, so an unavailability ends in one calendar before it
ends in the other. Requests are bounded by the scene, hence `CHECK_DEADLOCK FALSE`. Its properties are about
two tables each, except `MovesFromOwnSchool` and `DeletionMovesDefault`, which
relate what a handler saw to what it writes.

In one direction only do preflight and write agree for staff, and
`PreflightNotStricter` (a part of `FormsAgreeWithWrites`) states that one: a form the write would take is never
refused. The other fails by design of the queries: the preflight of a lesson
does not ask whether the place is ACTIVE, that of an event looks at the course
of a theory event only. For a student's own booking both directions hold.

`desk` takes the five parts side by side (`DeskParts`): a behaviour moves the part
whose scene it is. `LoginLimit`: four tries on
limits of one and two over two windows. `Health`: two processes, one of which
restarts, three reports. `SecurityLog`: five events, one hidden, in pages of two, with ranks
that disagree with times. `Registration`: four registrations that want the address a member leaves, the one
it takes (twice) and one that is held; two schools that may be deleted.
`AuditReset`: an administrator, two managers, two instructors and a student in two schools, three resets
(partial, wider partial, fixture), one edit. All clocks end at `LastTick`.
`AddressesAgree` and `RegisteredWhole`, the parts of `RegistrationsHold`, do not claim that a failed registration leaves nothing: an
account in Auth without rows is left over by the code, and its address cannot be registered again.

### Fairness

`Schedule` (`FairMixedSpec`): weak fairness of each handler's own steps. Node
runs every handler whose promise has settled, and Postgres ends every
transaction it was given, with a commit or an error. Nothing is assumed of
users, the clock or failures. Answering is not trivial: without the counter of
`runScheduleWriteTransaction` two handlers could make each other retry forever,
which is the mutant of that property. `Detection`: weak fairness of the steps of
each writer and worker. The timer in `server.ts` calls
`processSecurityDetectionQueue` again every five seconds whatever happened, and
a promise that has settled is run. Failures are not fair and bounded by
`MaxFaults`; nothing is assumed of the sweep. The office and the desk promise
nothing that must eventually happen beyond that a handler's promise settles, so
they have no fairness.

Each property of a passing run has a mutant in `PROJECT.json`: an operator
beside the original, marked `mutant`, with a plausible bug (a dropped predicate
read, a check moved outside the transaction, a missing comparison, a lost
counter). With it TLC finds the property violated.

## Theorems

Every theorem is about the specification the runs check, for every value of the
constants that the named assumptions allow. In each module the same three facts
are proved of an inductive invariant: it holds at first, every action keeps it,
and it implies the property. The comments beside the invariants say what each
conjunct is for.

`ScheduleProofs` proves, for any sets of clients, lessons, events, students,
instructors, vehicles and courses, any requests and any number of attempts:

* `TypeCorrect`: `Spec => []TypeOK`. `TypeOK` alone is not inductive: a handler
  that is past its first reads relies on what they returned, so `TypeInv` adds
  that the row an update, a bulk change or a deletion of an event relies on
  exists (`PrepType`).
* `NoOverlap`: `Spec => []LessonsNeverOverlap`. No two uncancelled lessons
  that share an instructor, a vehicle or a student overlap.
* `Refinement`: `Spec => LessonsAreReservations`.
* `CancelledStays`: `Spec => CancelledIsFinal`, and `NoBlindReassignment`: `Spec =>
  InstructorChangeIsInformed`.
* `NoOverbooking`: `Spec => []PackageWithinLimit`.
* `HoursKept`: `Spec => []LessonsInHours`. Every lesson that stands lies, to the minute, in
  the hours of its instructor. No run checks it by itself; `SavableLessonsAreOffered`, which
  the runs check, needs it, because a form could not offer a lesson a window outside the hours.

Assumptions: the named `ASSUME`s of `Schedule` (a positive horizon, `None`
distinct from rows, requests and ids, requests well formed, at least one attempt, a
minute has at least one tick, a package is a number or absent, the settings of a school are
whole minutes, the hours of an instructor are a window of whole minutes, empty on a day off, finitely many lessons and
students). Row ids are uuids, so no two tables share one: lessons and events have
different ids, and students none of an instructor or a vehicle. That a lesson id is fresh when a booking is
submitted is a guard of `Submit`.

The argument of `NoOverlap`. `LessonsNeverOverlap` is not inductive: nothing in
it says why an open transaction may commit. `OpenWritesProtected` does: for
every resource that the row to be written takes and does not already hold
there, either the transaction is bound to abort, or it has read that resource
in that window *and no other lesson holds it*, and it claims the window in
turn. When another transaction commits a lesson into such a window, its claim
hits this one's read; and, because the committed row was itself protected, its
read hits this one's claim, so this one must abort from now on
(`CommitOverlap`). A row changed underneath makes it abort as well, and a
cancellation only frees resources (`CancelStep`). Then a commit that is still
allowed writes a row into windows no other lesson holds. `OverlapInv`, the type
invariant with both, is inductive. `updateLesson` skips the checks of student
and instructor when neither moves: that is the case `Keeps`, and the reason why
`Keeps` needs the row unchanged since the snapshot.

The two action properties follow from `LandInv`. It says of the row that an open
transaction is about to write: it belongs to a booking with an id nobody else has
(`IdsFresh`), or to an edit that is bound to abort, or the lesson is still
SCHEDULED and, where the instructor changes, still what the user had on the screen
(`Informed`). A cancellation puts the row it changed into everybody's `since`,
which is why an edit of it can no longer commit (`RowsAbort`).

`PaidInv` is the counterpart of `OpenWritesProtected` for a sum: a row about to be
written fits the package beside all other lessons (`FitsPackage`), takes what it
takes already (`InPackage`), or its transaction must abort. Two bookings of one
package read and claim the same resource, so that the second is doomed by the
first. Its lemmas are about cardinalities: what a lesson takes is an interval
(`Taken`), and booking one adds at most its rounded length to the minutes of the others.

`HoursInv` adds to `LandInv` that what an open transaction is about to write lies in
the hours of the instructor it names (`RowsInHours`): `updateLesson` asks
`assertInstructorTimeWindowAvailable` only if the window or the instructor changes,
and where it does not ask, the row it found was in the hours already.

`EventProofs` proves of events and of what the forms foretell:

* `PromisesKept`: `Spec => []UneditedEventsHold`. `EvInv` has again what an
  open transaction is about to add (`Gained`, `Reserved`), here for lessons,
  events and participants at once, and of the capacity that the participants, with
  those about to come and go, fit it (`Fits`). The rows of an event are read
  before the transaction; that they still say the same is `SeenAsIs`, which holds
  exactly as long as nobody edits the event, the condition of the property
  (`touched`).
* `PreflightAgreement`: `Spec => []PreflightAgreesWithSave`, for any schedule
  that can be reached. It needs of the state only its types, from
  `TypeCorrect`; `LessonPreflight` and `EventPreflight` write each of the two
  sides as a condition on the form and compare. `KeepAssumption` (what stands for
  an omitted field is not a value) is the one assumption it adds.
* `FreeWindows`: `Spec => []FreeToTheMinute`. What the loop of `subtractWindows`
  returns is described without a loop (`Gaps`): the windows between two used ones, or
  between one and an end of the day, that meet none. A round adds the gap before
  its window (`RoundGaps`), so the loop returns the gaps of what is left to it
  (`SubtractGaps`). The induction theorems of the library cannot be instantiated for the
  provers; in their place stands a least counterexample (`LeastNumber`, from the
  well-foundedness of the naturals), which the round before it refutes. That a
  window is free exactly if it lies in one of the gaps (`SubtractExact`) then uses
  that a finite set of windows has an earliest one (`EarliestFirst`). From windows in
  minutes to rows in instants leads `CutOverlap`: a window of at least a minute meets
  what is left of a row without its seconds exactly if its inner part (`InnerPart`) meets
  the row.
* `OffersHold`: `Spec => []OffersCanBeSaved`, and `NothingIsHidden`: `Spec =>
  []SavableLessonsAreOffered`. With `SubtractExact` each list of options comes to one
  condition on a window (`LessonOffer`, `NewEventOffers`, `EventOffers`, `SlotOffers`), and
  each check of the write path to another (`LessonSavedIs`); the two are compared.
  What is offered lies in whole minutes, as the hours, steps and lengths it is made of
  (`OnGridWhole`, `SlotsWhole`); such a window meets a row that it did not meet without
  seconds only where the row runs over (`InnerFree`). So what is offered can be saved
  in every well-typed state, the exceptions apart. That a lesson can
  always stay where it is rests on the history: it lies in the hours of its
  instructor (`HoursKept`), nothing lies across it (`NothingAcross`, from `PromisesKept`), and its package has room for it without itself (`OwnPackage`, from
  `NoOverbooking`).

`AccountsProofs` proves, for any sets of handlers, accounts, sessions, actions
and e-mails, with or without lost answers and careless repairs where nothing
else is said:

* `TypesHold`: `Spec => []TypeOK`. The strengthening `TypeInv` says what a
  handler that talks to Auth carries: an action of the kind its request opened
  or found (`PrepOK`).
* `SessionsEnd`: `Spec => []StaleNeverUsable`. `SessionInv` adds that stale
  sessions are registered, so that nothing can register them again, and that
  two sign-ins never hold one session id. Each step then keeps three facts
  (`StepKeeps`): a session keeps its user and stays revoked once it is
  (`SessionsKept`), a step that makes an account active revokes its sessions
  (`ActivationRevokes`), and the sign-ins stay distinct.
* `OnlyUsableAdmitted`: `Spec => []AdmittedWasUsable`. `AdmissionInv` follows a
  request through its three reads: a request that has found its account
  active was usable at that moment if its session is live now, because a revoked
  session stays revoked and activation revokes what was there before.
* `DivergenceShows`: if no answer of Auth is lost and repairs are careful,
  `Spec => []DivergenceIsRecorded`.
* `ResetsReach`: under the same two conditions `Spec => ResetReachesAccount`.

The last two rest on `ChangeInv`. An account has at most one open change, which
starts from the e-mail it still has, and without one its two e-mails agree
(`AccountOK`). Who changes an e-mail knows what Auth has: the new one exactly when
it was told so (`ChangeOK`); what a repair read of Auth still holds (`RepairOK`),
because no change of that account is under way beside it (`Alone`); a reset about
to be sent keeps every change away (`ResetOK`). The conditions are the two switches
of the model, and `DivergenceShows` needs both: `repair_race` is the counterexample without the
second, and *Accounts* above tells that of the first.

Assumptions: the named `ASSUME`s of `Accounts` (`None` is no row, no request and
nothing a handler carries, requests are well formed, no two users start with one e-mail), and the guard of `Submit`
that Auth draws each session id once.

`DetectionProofs` proves, for any numbers of writers, workers, keys and logins,
any window, thresholds and batch sizes, with failures and sweeps:

* `DetectionTypes`: `Spec => []TypeOK`, with `done <= queued` for every state.
* `LoginsAreRemembered`: `Spec => []NothingForgotten`. The generations never
  lose the wake-up of a login that queued the key.
* `NoAlarmTwice`: `Spec => []AlarmsApart`.
* `EveryBurstAlarms`: `Spec => []BurstsRaiseAlarm`, for every burst of logins that queued
  the key.
* `WritersKeepGoing`: `Spec => [](sweep.phase # "locking" => WritersGoOn)`. The
  condition is what `sweep_stuck` shows to be needed: while the sweep locks states, it can be part of a ring.

`NothingForgotten` is not inductive, because `Finish` writes what the worker
decided earlier. `QueueInv` adds that no two transactions hold one state
(`LocksOK`) and that a worker has loaded every login behind its place that queued its
key, or knows that there are more (`JobsOK`); while it holds the state no login that queues
its key can be committed, so that stays true (`JobKept`), one login fewer after each round
(`JobGoesOn`). Logins that only count for the key are committed meanwhile and are none
of these. That a batch that is not full is all there is needs the
cardinality of finite sets (`BatchCovers`). `AlarmInv` says of the alarms a
worker has not yet committed what `AlarmsApart` says of the table; two workers
never hold one key, so their alarms cannot meet.

`BurstInv` is the converse of `AlarmInv`: up to the cursor of a state, and up to
the place of a worker with the alarms it has not committed, every burst still
owed (of logins that queued the key, each of which the worker finds to be a burst as
well, `OwedIsBurst`) has an alarm nearby (`ServedUpTo`); the moment until which a detector keeps
quiet is a window after an alarm, or long past (`QuietUntil`); and a worker
examines what it loaded oldest first (`Oldest`). A late login takes the cursor
back before every burst it may be part of, so nothing in front of the cursor
changes; a sweep only removes bursts that are no longer owed.

Writers hold only keys that precede those they still want (`OrderInv`). If all
were blocked, the last of the wanted keys would be held by one that wants a later
one still (`LastKey`, `NoRingOfWriters`); the sweep is no part of such a ring while it is
not locking (`SweepHolds`).

Assumptions: the named `ASSUME`s of `Detection` (positive sizes, finitely many
keys in a strict order, a finite set of logins with distinct ids, each of which is found by
the keys it queues).

`FleetProofs` proves, for any sets of handlers, schools, vehicles, courses and
people, any openings and any interleaving of every handler of the office:

* `DefaultVehicle`: `Spec => []DefaultVehicleIsLive`.
* `FleetKeepsDefault`: `Spec => []FleetHasDefault`.

Neither is inductive, because a handler writes what it decided some statements
earlier. `FleetInv` says which rows a handler holds at each step and what, because
of them, is still true of what it saw: who adds a vehicle holds the school and
knows whether it had one (`Adding`); who retires one holds the vehicle and then
the school, and knows whether it is the default (`Retiring`); who chooses one
holds the vehicle it found live in the school (`Choosing`); who deletes the school
holds it (`Closing`). Any other step is `Steady` (it takes no lock from others and
leaves their handlers alone) and `Gentle` (no vehicle changes its school or is retired),
and then every part of the invariant is kept.

`CourseProofs` builds on it:

* `CoursesDieEmpty`: `Spec => []DeletedCoursesAreEmpty`.
* `CategoriesStay`: `Spec => CoursesKeepCategory`.
* `LessonsKeepTheirVehicle`: `Spec => []LessonsKeepVehicle`, that is
  `RetiredVehicleIsFree` and `LessonsSuitVehicles`.
* `FormsAgree`: if there is a vehicle at all, `Spec => []FormsAgreeWithWrites`. It
  needs nothing of the state: both sides are taken apart and compared.

`CourseInv` strengthens the first to every course without a live row
(`OnlyLiveUsed`): only then does `createCourse` start with an empty course. Who deletes a course
holds it while it counts, and what was empty stays empty (`Emptying`), because
a new row that names the course waits for that lock. Who changes a place has
found it (`Seating`). What a patch is about to write differs from what it read in
kind and category only if it is structural, and never in its school (`Patching`); a structural patch is
retried when the course or what hangs on it has changed, so it meets no lesson.
What others rely on is `Modest`: places are never given back, and no row appears
in an empty course somebody else holds.

Four writers meet in `LessonsKeepTheirVehicle`. Booking writes what it saw: `Chosen` says that
the vehicle of its snapshot was in service and suited the course of its snapshot,
and the commit compares both rows with the tables. Retiring knows that nothing to
come is booked on the vehicle (`Retired`); no booking can appear while it holds
the vehicle (`Spared`), because a new row references the vehicle and waits for
the lock. A change of categories looks at the bookings once more when it writes.
A patch of the course cannot change a category lessons depend on, which is
`CategoryKept`. Every other step leaves live vehicles in service with their
categories (`CarsKept`), and time only makes fewer lessons those to come.

`PeopleProofs`:

* `MovesAreOwn`: `Spec => MovesFromOwnSchool`. Who moves a person holds the
  person's row from before the last check, so the school checked is the school
  left (`MovingInstructor`, `MovingStudent`), and a school never changes owner.
* `DeletionMovesOn`: `Spec => DeletionMovesDefault`. A deleted school stays deleted
  (`GoneStays`), so the list of the owner's schools read after it does not contain
  it, nor does the heir chosen from that list (`Closed`). That an oldest school
  exists (`EarliestIsOne`) is the well-foundedness of the naturals.
* `PaymentsStaySettleable`: `Spec => []PaymentsSettleable`.
* `OfficeTypes`: `Spec => []TypeOK`.

`PaymentsSettleable` is not inductive, because an archive is written after the
debts were counted. `PayInv` says for each open payment that one of the course's
students is active with no archive in the payment's school about to be written,
or was archived by another school (`Answered`, `Answers`, `Leaving`). Who archives and who settles both
hold the student's row (`Archiving`, `Settling`), so no payment is opened between
the count and the archive; a student who moves stays enrolled, a course with
students keeps its school (`Patching`), and nothing activates an archived student. `OfficeTypes` comes last,
because what the handlers write is of the right type only for the reasons the
other invariants give: `TableInv` adds what handlers remember of schools (`Notes`).

Assumptions of the office: `OfficeAssumption` (`None` is no row, handler or status;
finitely many schools; the clock's bound is a number), `HandlerAssumption` (a handler at work is not `None`) and
`OpeningsAssumption`: the tables a scene starts with are well typed, agree on vehicles and their
schools, hold nothing of a course that is not live, have lessons only on
vehicles in service that suit the course, no active student who is archived, and for every
open payment a student of the course who is active or was archived elsewhere.

`DeskProofs` proves of the parts of the desk, each for its own specification:

* `LimitsHold`: `LimitSpec => []LimitHolds`. `LimitInv` ties the number in a
  budget's row to the set of tries its window has counted, and says of a try in
  its transaction that there is room for it in every budget it has locked; that
  windows of a budget are a whole window apart gives the bound on any stretch of time
  (`Bursts`).
* `FailuresAreSeen`: `HealthSpec => []FailuresShow`. `HealthInv`: a failure is in
  the table, or what its process remembers is at least as recent, so that a write that forgets
  has covered it; what an answer is made of shows every failure written
  before it.
* `PagesFit`: `LogSpec => []PagesAdjoin`. `LogInv` says of a reader that the rows
  seen descend, that a row still due and not among them comes after the last of them, and that
  the cursor at the foot of the page names that last row. A page is a set in its order, so
  the proof needs that a finite set can be listed by rank: a row has as many rows before it as
  are newer (`Places`), no two rows have the same number and every number up to
  the size of the set occurs (`EveryPlace`, by counting, without an induction).
* `RegisteredStayWhole`: `RegistrationSpec => []RegistrationsHold`.
  `RegistrationInv` says what a registration has established at each step: the
  school its role asks for, and the address in Auth.
* `AdminsStay`: `AuditSpec => []AdminRemains`, and `ConfirmedIsRemoved`: `AuditSpec
  => PreviewHonoured`. `AuditInv`: a reset that has the lock is the only one that
  removes rows, so what it read to keep is still there at its commit (`Chosen`);
  and what it was confirmed for is still so unless somebody edited
  (`Unsurprised`).
* `DeskTypes`: the type invariant of each of the five, which for `AuditReset`
  includes that links lead to rows (`RowsWhole`, `AuditTyped`), and `DeskSpec =>
  []TypesOK` for the five side by side, the specification `desk` checks. `DeskInv` says
  that the part whose scene it is keeps its own invariant and the others their types:
  they do not move, and what all share, the clock, does not occur in a type (`IdleParts`).

Assumptions: the named `ASSUME`s of the five modules. Those of `SecurityLog` ask that
there are finitely many events, that their ids rank them, and that `None` is no cursor. Those of `AuditReset` ask of
the first rows that the technical administrator is there and that rows lead to
rows that exist, and of the fixture that it has a manager.

### Only model-checked

Every invariant and every action property that a passing run checks is stated
by a theorem, with these exceptions:

* `EveryRequestAnswered` and `QueueDrains`: liveness under fairness.
* `WritersGoOn` while the sweep deletes: false in general (`sweep_stuck`), true
  in the instance of `detection`, which has only one idle key in use.

## Not modelled, and why

* Lesson ratings: a rating needs a lesson that is COMPLETED, and nothing but the
  development seed sets that status.
* Read models other than slots, lists of the forms, preflights and the paging of
  the security log: each is one query of one moment, and changes nothing.
* The development seed and the contents of the audit fixtures are generated
  data; that a reset waits for them and they for it is in `AuditReset`.
* The upserts of weekly hours, exceptions and school settings: single statements
  on rows nothing else writes. What depends on them, free windows and default
  hours, takes them as parameters.
* Names, phones, photos, PKK numbers, notes and instructors' profiles: fields no other
  operation reads.
* Swagger, schemas, routes and error mapping are wording and layout.
* Supabase Auth and Postgres are external and appear only as the code uses them.

## What could come next

A specification of what the desk promises as a whole, in the manner of
`Reservations`, for its parts to implement; the same for the payments of a
school. For the office, a model of the serializable patch of a
course against an enrolment with the count it makes, and of the two races that
`PROJECT.json` lists without a property (removing a qualification while a
booking has asked for it, the repair of an unavailability that was extended).

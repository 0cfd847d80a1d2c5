------------------------------- MODULE Office -------------------------------
(***************************************************************************)
(* What the parts of a driving school's office share: the tables, the row  *)
(* locks and the request handlers.  Fleet, Courses and Staff add the       *)
(* operations, DrivingSchool composes them.                                *)
(*                                                                         *)
(* Most writes run in READ COMMITTED transactions: every statement sees    *)
(* what is committed when it runs, so a handler is a sequence of steps, and*)
(* only a row lock (SELECT ... FOR UPDATE) keeps the others out in between.*)
(* All effects of a transaction are in its last step, so a transaction that*)
(* fails leaves the tables alone.  A row another transaction has locked    *)
(* can be neither updated nor referenced by a new row (Free).              *)
(*                                                                         *)
(* A booking, a changed vehicle, a patched course and a new drive event run*)
(* in a SERIALIZABLE transaction instead: it sees the snapshot of its first*)
(* statement, and is tried again when a row it depends on has changed.     *)
(***************************************************************************)
EXTENDS Integers, FiniteSets

CONSTANTS
  Clients,                                \* concurrent request handlers
  Schools, Vehicles, Courses, Bookings, Payments,  \* row ids
  Managers, Instructors, Students, Admin, \* users
  Types,                                  \* course categories
  None, Keep,
  LastTick,                               \* bound on the clock; a tick is half a day
  Openings                                \* how the tables can look at first

Null(S) == S \cup {None}
Opt(S) == S \cup {Keep}
States == {"free", "live", "gone"}        \* no row yet, a row, a soft-deleted one
Ticks == 0..LastTick

SchoolRow == [state : States, owner : Null(Managers), vehicle : Null(Vehicles),
              kinds : SUBSET {"PRACTICE", "THEORY"}, since : Nat]
VehicleRow == [state : States, school : Null(Schools), types : SUBSET Types,
               available : BOOLEAN, until : Null(Nat)]
CourseRow == [state : States, school : Null(Schools), instructor : Null(Instructors),
              kind : {"PRACTICE", "THEORY"}, type : Types, capacity : Null(Nat)]
BookingRow == [state : States, kind : {"LESSON", "DRIVE", "THEORY"},
               course : Null(Courses), instructor : Null(Instructors),
               student : Null(Students), vehicle : Null(Vehicles),
               school : Null(Schools), at : Ticks]
StaffRow == [active : BOOLEAN, school : Null(Schools), types : SUBSET Types]
\* archivedIn is the school in the account action an archive leaves behind.
PupilRow == [active : BOOLEAN, school : Null(Schools), archivedIn : Null(Schools)]
\* The id of a payment belongs to the plan of a course from the start.
PaymentRow == [course : Courses, state : {"none", "PENDING", "PAID"}]
SeatStates == {"ACTIVE", "FINISHED"}

VARIABLES
  schools, vehicles, courses, bookings,  \* bookings: lessons and instructor_events
  staff,       \* instructors: account, instructor_schools, qualifications
  pupils,      \* students: account, student_schools
  seats,       \* course_participants, None where there is no row
  payments,    \* with the course of their plan; None where there is no plan
  defaultOsk,  \* users.defaultOskId of the managers
  locked,      \* which handler holds a row lock
  handlers,    \* what each client is doing
  pending,     \* the requests that will still arrive
  clock        \* the time of day, between tick clock and tick clock + 1

fleet == <<schools, vehicles, defaultOsk>>
teaching == <<courses, bookings, seats, payments>>
people == <<staff, pupils>>
tables == <<fleet, teaching, people>>
control == <<locked, handlers, pending>>
vars == <<tables, control, clock>>

\* A person's row is the one in users; a student has a profile as well, which
\* is what enrolments and lessons reference.
Profile(p) == <<p>>
Rows == Schools \cup Vehicles \cup Courses \cup Instructors \cup Students
        \cup {Profile(p) : p \in Students}

ASSUME OfficeAssumption ==
  /\ None \notin Clients \cup Rows \cup SeatStates \cup PaymentRow
  /\ IsFiniteSet(Schools)
  /\ LastTick \in Nat

TypeOK ==
  /\ schools \in [Schools -> SchoolRow]
  /\ vehicles \in [Vehicles -> VehicleRow]
  /\ courses \in [Courses -> CourseRow]
  /\ bookings \in [Bookings -> BookingRow]
  /\ staff \in [Instructors -> StaffRow]
  /\ pupils \in [Students -> PupilRow]
  /\ seats \in [Courses \X Students -> Null(SeatStates)]
  /\ payments \in [Payments -> Null(PaymentRow)]
  /\ defaultOsk \in [Managers -> Null(Schools)]
  /\ locked \in [Rows -> Null(Clients)]
  /\ DOMAIN handlers = Clients
  /\ clock \in Ticks

(* The two calendars of the code: getUtcDayStart and polishTodayYyyymmdd.  *)
(* The Polish day begins while it is still the day before in UTC.          *)
UtcDay == clock \div 2
PolishDay == (clock + 1) \div 2

Upcoming(b) == b.state = "live" /\ b.at >= clock      \* endTime > now

\* startTime >= now, for the obligations of a person: a cancelled lesson still
\* counts (only deletedAt is asked), a deleted event (isActive) does not.
Obliges(b) ==
  /\ b.state = "live" \/ (b.state = "gone" /\ b.kind = "LESSON")
  /\ b.at > clock

Live(row) == row.state = "live"

\* instructor_schools joined with a school that is not deleted
WorksAt(i, s) == s # None /\ staff[i].school = s /\ Live(schools[s])
\* assertInstructorQualifiedForCourseType
Qualified(i, type) == staff[i].active /\ type \in staff[i].types

\* getSchoolOwnedByUser, loadOwnedActiveDrivingSchoolOrThrow
Owns(m, s) == s # None /\ Live(schools[s]) /\ schools[s].owner = m

(* ------------------------------------------------------------ handlers -- *)
Idle(c) == handlers[c] = None
At(c, op, step) == ~Idle(c) /\ handlers[c].req.op = op /\ handlers[c].step = step
Req(c) == handlers[c].req
Saw(c) == handlers[c].saw

Holds(c, rows) == \A x \in rows : locked[x] = c
Free(c, rows) == \A x \in rows \ {None} : locked[x] \in {None, c}

\* The trigger assert_course_is_active_for_reference: a new row that names a
\* course waits for a lock on it, and a deleted course refuses the row.
ForeignKeyOnly(c, k) == Free(c, {k})   \* mutant
GuardCourse(c, k) == Free(c, {k}) /\ (k # None => Live(courses[k]))

\* A request arrives and has passed the checks made outside any transaction;
\* saw is what the handler remembers of them.
Receive(c, r, step, saw) ==
  /\ Idle(c)
  /\ pending' = pending \ {r}
  /\ handlers' = [handlers EXCEPT ![c] = [req |-> r, step |-> step, saw |-> saw]]
  /\ UNCHANGED <<tables, locked, clock>>

Goto(c, step, saw) ==
  /\ handlers' = [handlers EXCEPT ![c] = [req |-> @.req, step |-> step, saw |-> saw]]
  /\ UNCHANGED pending

\* SELECT ... FOR UPDATE, once no other transaction holds the row.
Take(c, x, step, saw) ==
  /\ Free(c, {x})
  /\ locked' = [locked EXCEPT ![x] = c]
  /\ Goto(c, step, saw)
  /\ UNCHANGED <<tables, clock>>

\* A read that decides how the handler goes on.
Look(c, step, saw) == Goto(c, step, saw) /\ UNCHANGED <<tables, locked, clock>>

\* The handler answers; its transaction, if any, ends with it.
Finish(c) ==
  /\ handlers' = [handlers EXCEPT ![c] = None]
  /\ locked' = [x \in Rows |-> IF locked[x] = c THEN None ELSE locked[x]]
  /\ UNCHANGED <<pending, clock>>

\* Any refusal, error or lost connection: what was not committed is undone.
Fail(c) == ~Idle(c) /\ Finish(c) /\ UNCHANGED tables

Tick == clock < LastTick /\ clock' = clock + 1 /\ UNCHANGED <<tables, control>>

Init ==
  /\ \E o \in Openings :
       /\ schools = o.schools /\ vehicles = o.vehicles /\ courses = o.courses
       /\ bookings = o.bookings /\ staff = o.staff /\ pupils = o.pupils
       /\ seats = o.seats /\ payments = o.payments /\ defaultOsk = o.defaultOsk
       /\ pending = o.pending
  /\ locked = [x \in Rows |-> None]
  /\ handlers = [c \in Clients |-> None]
  /\ clock = 0
=============================================================================
